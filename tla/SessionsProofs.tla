--------------------------- MODULE SessionsProofs ---------------------------
(***************************************************************************)
(* Proofs about Sessions, for any connections and any programs: types;     *)
(* that the default user's passwords and "nopass" agree and no password    *)
(* is lost while SETUSERs do not overlap; and that commands are carried    *)
(* out as they were sent under the conditions CommandsExact names, if the  *)
(* clients send whole commands.                                            *)
(***************************************************************************)
EXTENDS Sessions, Induction, SequenceTheorems

-----------------------------------------------------------------------------
(* The text of a program.                                                  *)

\* What can stand on a line.
Token == STRING \union Names \union {"", "*", "$", "PX"}

\* The recursive equation of FirstLines, by induction on the number of commands.
LEMMA TextEquation ==
  ASSUME NEW cmds, Len(cmds) \in Nat
  PROVE  \A n \in 0 .. Len(cmds) :
           FirstLines(cmds)[n] = IF n = 0 THEN <<>>
                                 ELSE FirstLines(cmds)[n - 1] \o Lines(cmds[n])
<1>0. PICK N \in Nat : N = Len(cmds)
  OBVIOUS
<1> DEFINE Body(f, n) == IF n = 0 THEN <<>> ELSE f[n - 1] \o Lines(cmds[n])
           Q(f) == f = [n \in 0 .. N |-> Body(f, n)]
           Upto(m) == \E f : f = [n \in 0 .. N |-> IF n <= m THEN Body(f, n) ELSE <<>>]
           S == {m \in Nat : Upto(m)}
<1>1. FirstLines(cmds) = CHOOSE f : Q(f)
  BY <1>0 DEF FirstLines
<1>2. ASSUME NEW m \in Nat, \A k \in 0 .. m - 1 : k \in S
      PROVE  m \in S
  <2>1. CASE m = 0
    <3> DEFINE f == [n \in 0 .. N |-> <<>>]
    <3>1. f = [n \in 0 .. N |-> IF n <= m THEN Body(f, n) ELSE <<>>]
      BY <2>1
    <3> HIDE DEF f
    <3>2. Upto(m)
      BY <3>1, Zenon
    <3> QED
      BY <3>2
  <2>2. CASE m # 0
    <3>1. m - 1 \in Nat /\ m - 1 \in 0 .. m - 1
      BY <2>2
    <3>10. Upto(m - 1)
      BY <1>2, <3>1
    <3>2. PICK f : f = [n \in 0 .. N |-> IF n <= m - 1 THEN Body(f, n) ELSE <<>>]
      BY <3>10
    <3> DEFINE g == [n \in 0 .. N |-> IF n = m THEN Body(f, m) ELSE f[n]]
    <3>3. \A n \in 0 .. N : n <= m - 1 => f[n] = Body(f, n)
      BY <3>2, Zenon
    <3>4. \A n \in 0 .. N : ~(n <= m - 1) => f[n] = <<>>
      BY <3>2, Zenon
    <3>5. \A n \in 0 .. N : n <= m /\ n # 0 => g[n - 1] = f[n - 1]
      BY <2>2
    <3>6. ASSUME NEW n \in 0 .. N
          PROVE  g[n] = IF n <= m THEN Body(g, n) ELSE <<>>
      <4>1. CASE n = m
        <5>1. g[n] = Body(f, n)
          BY <4>1
        <5> QED
          BY <3>5, <4>1, <5>1
      <4>2. CASE n <= m - 1
        <5>1. g[n] = f[n] /\ n <= m
          BY <4>2
        <5>2. f[n] = Body(f, n)
          BY <3>3, <4>2
        <5>3. Body(f, n) = Body(g, n)
          BY <3>5, <5>1
        <5> QED
          BY <5>1, <5>2, <5>3
      <4>3. CASE n > m
        <5>1. g[n] = f[n] /\ ~(n <= m - 1) /\ ~(n <= m)
          BY <4>3
        <5> QED
          BY <3>4, <5>1
      <4> QED
        BY <4>1, <4>2, <4>3
    <3>7. g = [n \in 0 .. N |-> g[n]]
      OBVIOUS
    <3> HIDE DEF g
    <3>8. g = [n \in 0 .. N |-> IF n <= m THEN Body(g, n) ELSE <<>>]
      BY <3>6, <3>7
    <3>9. Upto(m)
      BY <3>8, Zenon
    <3> HIDE DEF Upto
    <3> QED
      BY <3>9
  <2> QED
    BY <2>1, <2>2
<1>3. N \in S
  <2> HIDE DEF S
  <2> QED
    BY <1>2, StrongInduction
<1>4. PICK f : f = [n \in 0 .. N |-> IF n <= N THEN Body(f, n) ELSE <<>>]
  BY <1>3
<1>5. Q(f)
  <2>1. \A n \in 0 .. N : n <= N
    OBVIOUS
  <2> QED
    BY <1>4, <2>1
<1>6. Q(CHOOSE h : Q(h))
  <2> HIDE DEF Q
  <2> QED
    BY <1>5
<1>7. Q(FirstLines(cmds))
  BY <1>1, <1>6
<1>8. ASSUME NEW n \in 0 .. N PROVE FirstLines(cmds)[n] = Body(FirstLines(cmds), n)
  BY <1>7, Zenon
<1> QED
  BY <1>0, <1>8

\* The lines of a command.
LEMMA LinesProperties ==
  ASSUME NEW cmd \in Seq(Token)
  PROVE  /\ Len(cmd) \in Nat /\ Lines(cmd) \in Seq(Token) /\ Len(Lines(cmd)) = 2 * Len(cmd) + 1
         /\ Lines(cmd)[1] = "*"
         /\ \A i \in 1 .. Len(cmd) : Lines(cmd)[2 * i] = "$" /\ Lines(cmd)[2 * i + 1] = cmd[i]
<1>1. PICK n \in Nat : n = Len(cmd)
  BY LenProperties
<1>2. \A i \in 1 .. n : cmd[i] \in Token
  BY <1>1, LenProperties
<1> DEFINE W(i) == IF i = 1 THEN "*" ELSE IF i % 2 = 0 THEN "$" ELSE cmd[i \div 2]
           ls == [i \in 1 .. (2 * n + 1) |-> W(i)]
<1>3. Lines(cmd) = ls
  BY <1>1 DEF Lines
<1>4. ASSUME NEW i \in 1 .. (2 * n + 1) PROVE W(i) \in Token
  <2>1. i # 1 /\ i % 2 # 0 => i \div 2 \in 1 .. n
    OBVIOUS
  <2>5. "*" \in Token /\ "$" \in Token
    BY DEF Token
  <2>2. CASE i = 1
    <3>1. W(i) = "*"
      BY <2>2
    <3> QED
      BY <2>5, <3>1
  <2>3. CASE i # 1 /\ i % 2 = 0
    <3>1. W(i) = "$"
      BY <2>3
    <3> QED
      BY <2>5, <3>1
  <2>4. CASE i # 1 /\ i % 2 # 0
    <3>1. W(i) = cmd[i \div 2]
      BY <2>4
    <3> QED
      BY <1>2, <2>1, <2>4, <3>1
  <2> QED
    BY <2>2, <2>3, <2>4
<1>5. 2 * n + 1 \in Nat
  BY <1>1
<1>6. ls \in Seq(Token) /\ Len(ls) = 2 * n + 1
  <2>1. ls \in [1 .. (2 * n + 1) -> Token]
    BY <1>4
  <2> HIDE DEF ls
  <2>2. ls \in Seq(Token)
    BY <1>5, <2>1, SeqDef
  <2>3. Len(ls) \in Nat /\ DOMAIN ls = 1 .. Len(ls) /\ DOMAIN ls = 1 .. (2 * n + 1)
    BY <2>1, <2>2, LenProperties
  <2>4. PICK k \in Nat : k = Len(ls)
    BY <2>3
  <2>5. k = 2 * n + 1
    <3>1. k >= 1 => k \in 1 .. (2 * n + 1)
      BY <2>3, <2>4
    <3>2. 2 * n + 1 \in 1 .. k
      BY <1>5, <2>3, <2>4
    <3> QED
      BY <1>5, <3>1, <3>2
  <2> QED
    BY <2>2, <2>4, <2>5
<1>7. ls[1] = "*"
  BY <1>5
<1>8. ASSUME NEW i \in 1 .. n PROVE ls[2 * i] = "$" /\ ls[2 * i + 1] = cmd[i]
  <2>1. /\ 2 * i \in 1 .. (2 * n + 1) /\ 2 * i # 1 /\ (2 * i) % 2 = 0
        /\ 2 * i + 1 \in 1 .. (2 * n + 1) /\ 2 * i + 1 # 1 /\ (2 * i + 1) % 2 # 0
        /\ (2 * i + 1) \div 2 = i
    OBVIOUS
  <2> QED
    BY <2>1
<1> HIDE DEF ls
<1> QED
  BY <1>1, <1>3, <1>6, <1>7, <1>8

\* A sequence goes on where another ends.
Longer(s, t) == Len(s) <= Len(t) /\ \A i \in 1 .. Len(s) : t[i] = s[i]

\* The lines of the first commands are sequences, and more commands add more
\* lines behind them.
LEMMA TextGrows ==
  ASSUME NEW cmds \in Seq(Seq(Token))
  PROVE  /\ Len(cmds) \in Nat
         /\ \A n \in 0 .. Len(cmds) :
              /\ FirstLines(cmds)[n] \in Seq(Token) /\ Len(FirstLines(cmds)[n]) \in Nat
              /\ \A m \in 0 .. n : Longer(FirstLines(cmds)[m], FirstLines(cmds)[n])
<1>1. PICK N \in Nat : N = Len(cmds)
  BY LenProperties
<1>2. PICK F : F = FirstLines(cmds)
  OBVIOUS
<1>3. F[0] = <<>> /\ \A n \in 1 .. N : F[n] = F[n - 1] \o Lines(cmds[n])
  <2>1. \A n \in 0 .. N : F[n] = IF n = 0 THEN <<>> ELSE F[n - 1] \o Lines(cmds[n])
    BY <1>1, <1>2, TextEquation
  <2>2. 0 \in 0 .. N /\ \A n \in 1 .. N : n \in 0 .. N /\ n # 0
    OBVIOUS
  <2> QED
    BY <2>1, <2>2
<1>4. \A n \in 1 .. N : cmds[n] \in Seq(Token)
  BY <1>1, ElementOfSeq
<1> DEFINE T(n) == /\ F[n] \in Seq(Token) /\ Len(F[n]) \in Nat
                   /\ \A m \in 0 .. n : Longer(F[m], F[n])
           S == {n \in Nat : n <= N => T(n)}
<1>5. ASSUME NEW n \in Nat, \A k \in 0 .. n - 1 : k \in S PROVE n \in S
  <2> SUFFICES ASSUME n <= N PROVE T(n)
    OBVIOUS
  <2>1. CASE n = 0
    <3>1. F[n] \in Seq(Token) /\ Len(F[n]) = 0
      BY <1>3, <2>1, EmptySeq
    <3>2. Longer(F[n], F[n])
      BY <3>1 DEF Longer
    <3> QED
      BY <2>1, <3>1, <3>2
  <2>2. CASE n # 0
    <3>1. n - 1 \in S /\ n - 1 \in Nat /\ n \in 1 .. N
      BY <1>5, <2>2
    <3>2. T(n - 1)
      BY <3>1
    <3>3. PICK g : g = F[n - 1]
      OBVIOUS
    <3>4. PICK ls : ls = Lines(cmds[n])
      OBVIOUS
    <3>5. /\ F[n] = g \o ls
          /\ g \in Seq(Token) /\ ls \in Seq(Token) /\ Len(g) \in Nat /\ Len(ls) \in Nat
      BY <1>3, <1>4, <3>1, <3>2, <3>3, <3>4, LinesProperties, LenProperties
    <3>6. /\ g \o ls \in Seq(Token) /\ Len(g \o ls) = Len(g) + Len(ls)
          /\ \A i \in 1 .. Len(g) + Len(ls) : (g \o ls)[i] = IF i <= Len(g) THEN g[i] ELSE ls[i - Len(g)]
      BY <3>5, ConcatProperties
    <3>7. Longer(g, g \o ls) /\ Longer(g \o ls, g \o ls)
      BY <3>5, <3>6 DEF Longer
    <3>8. ASSUME NEW m \in 0 .. n PROVE Longer(F[m], g \o ls)
      <4>1. CASE m = n
        BY <3>5, <3>7, <4>1
      <4>2. CASE m # n
        <5>1. m \in 0 .. n - 1 /\ Longer(F[m], g)
          BY <3>2, <3>3, <4>2
        <5>2. Len(F[m]) \in Nat
          <6>1. m \in S /\ m <= N
            BY <1>5, <5>1
          <6> QED
            BY <6>1
        <5> QED
          BY <3>5, <3>7, <5>1, <5>2 DEF Longer
      <4> QED
        BY <4>1, <4>2
    <3>9. Len(g \o ls) \in Nat
      BY <3>5, <3>6
    <3> QED
      BY <3>5, <3>6, <3>8, <3>9
  <2> QED
    BY <2>1, <2>2
<1>6. \A n \in 0 .. N : T(n)
  <2> HIDE DEF S
  <2>1. \A n \in Nat : n \in S
    BY <1>5, StrongInduction
  <2> USE DEF S
  <2> HIDE DEF T
  <2> QED
    BY <2>1
<1> QED
  BY <1>1, <1>2, <1>6

\* Where commands end, and what stands there.
LEMMA TextFacts ==
  ASSUME program \in Programs, NEW c \in Conns
  PROVE  /\ program[c] \in Seq(Seq(Token)) /\ Len(program[c]) \in Nat
         /\ Text(c) \in Seq(Token) /\ Len(Text(c)) \in Nat
         /\ End(c, 0) = 0 /\ End(c, Len(program[c])) = Len(Text(c))
         /\ \A n \in 0 .. Len(program[c]) : End(c, n) \in Nat /\ End(c, n) <= Len(Text(c))
         /\ \A n \in 0 .. Len(program[c]) : \A m \in 0 .. n : End(c, m) <= End(c, n)
         /\ \A n \in 0 .. Len(program[c]) - 1 :
              /\ Len(program[c][n + 1]) \in Nat
              /\ End(c, n + 1) = End(c, n) + 2 * Len(program[c][n + 1]) + 1
              /\ \A j \in 1 .. 2 * Len(program[c][n + 1]) + 1 :
                   Text(c)[End(c, n) + j] = Lines(program[c][n + 1])[j]
<1>1. PICK cmds : cmds = program[c]
  OBVIOUS
<1>2. cmds \in Seq(Seq(Token)) /\ cmds \in Scripts
  <2>1. cmds \in Seq(Seq(STRING)) /\ cmds \in Scripts
    BY <1>1, SessionsAssumption DEF Scripts
  <2>2. \A cmd \in Seq(STRING) : cmd \in Seq(Token)
    BY SeqMonotonic DEF Token
  <2> QED
    BY <2>1, <2>2, SeqMonotonic
<1>3. PICK N \in Nat : N = Len(cmds)
  BY <1>2, LenProperties
<1>4. PICK F : F = FirstLines(cmds)
  OBVIOUS
<1>5. TextOf[cmds] = F
  BY <1>2, <1>4 DEF TextOf
<1>6. Text(c) = F[N] /\ \A n : End(c, n) = Len(F[n])
  BY <1>1, <1>3, <1>5 DEF Text, End
<1>7. \A n \in 0 .. N : /\ F[n] \in Seq(Token) /\ Len(F[n]) \in Nat
                        /\ \A m \in 0 .. n : Longer(F[m], F[n])
  BY <1>2, <1>3, <1>4, TextGrows
<1>8. F[0] = <<>> /\ \A n \in 1 .. N : F[n] = F[n - 1] \o Lines(cmds[n])
  <2>1. \A n \in 0 .. N : F[n] = IF n = 0 THEN <<>> ELSE F[n - 1] \o Lines(cmds[n])
    BY <1>3, <1>4, TextEquation
  <2>2. 0 \in 0 .. N /\ \A n \in 1 .. N : n \in 0 .. N /\ n # 0
    OBVIOUS
  <2> QED
    BY <2>1, <2>2
<1>9. End(c, 0) = 0
  BY <1>6, <1>8
<1>10. ASSUME NEW n \in 0 .. N - 1
       PROVE  /\ Len(cmds[n + 1]) \in Nat
              /\ End(c, n + 1) = End(c, n) + 2 * Len(cmds[n + 1]) + 1
              /\ \A j \in 1 .. 2 * Len(cmds[n + 1]) + 1 :
                   Text(c)[End(c, n) + j] = Lines(cmds[n + 1])[j]
  <2>1. n + 1 \in 1 .. N /\ n + 1 \in 0 .. N /\ n \in 0 .. N /\ (n + 1) - 1 = n /\ N \in 0 .. N
    OBVIOUS
  <2>2. PICK cmd : cmd = cmds[n + 1]
    OBVIOUS
  <2>3. cmd \in Seq(Token)
    BY <1>2, <1>3, <2>1, <2>2, ElementOfSeq
  <2>4. PICK ls : ls = Lines(cmd)
    OBVIOUS
  <2>5. ls \in Seq(Token) /\ Len(cmd) \in Nat /\ Len(ls) = 2 * Len(cmd) + 1
    BY <2>3, <2>4, LinesProperties
  <2>6. PICK g : g = F[n]
    OBVIOUS
  <2>7. g \in Seq(Token) /\ Len(g) \in Nat /\ F[n + 1] = g \o ls
    BY <1>7, <1>8, <2>1, <2>2, <2>4, <2>6
  <2>8. /\ Len(g \o ls) = Len(g) + Len(ls)
        /\ \A i \in 1 .. Len(g) + Len(ls) : (g \o ls)[i] = IF i <= Len(g) THEN g[i] ELSE ls[i - Len(g)]
    BY <2>5, <2>7, ConcatProperties
  <2>9. Longer(g \o ls, F[N])
    BY <1>7, <2>1, <2>7
  <2>10. ASSUME NEW j \in 1 .. Len(ls) PROVE F[N][Len(g) + j] = ls[j]
    <3>1. Len(g) + j \in 1 .. Len(g) + Len(ls) /\ ~(Len(g) + j <= Len(g)) /\ (Len(g) + j) - Len(g) = j
      BY <2>5, <2>7
    <3>2. F[N][Len(g) + j] = (g \o ls)[Len(g) + j]
      BY <2>8, <2>9, <3>1 DEF Longer
    <3> QED
      BY <2>8, <3>1, <3>2
  <2>11. End(c, n + 1) = Len(g) + Len(ls) /\ End(c, n) = Len(g) /\ Text(c) = F[N]
    BY <1>6, <2>6, <2>7, <2>8
  <2> QED
    BY <2>2, <2>4, <2>5, <2>10, <2>11
<1>11. \A n \in 0 .. N : End(c, n) \in Nat /\ End(c, n) <= Len(Text(c))
  <2>1. N \in 0 .. N
    OBVIOUS
  <2> QED
    BY <1>6, <1>7, <2>1 DEF Longer
<1>12. Text(c) \in Seq(Token) /\ Len(Text(c)) \in Nat /\ End(c, N) = Len(Text(c))
  <2>1. N \in 0 .. N
    OBVIOUS
  <2> QED
    BY <1>6, <1>7, <2>1
<1>13. \A n \in 0 .. N : \A m \in 0 .. n : End(c, m) <= End(c, n)
  BY <1>6, <1>7 DEF Longer
<1> QED
  BY <1>1, <1>2, <1>3, <1>9, <1>10, <1>11, <1>12, <1>13

-----------------------------------------------------------------------------
(* What the handlers read.                                                 *)

\* The types of handlers and of updates under way.
HandlerSet == [name : Names \union {"", "SET-OPTION", "PX"}, lines : Seq(Token)]
UpdateSet  == [step : {"", "append", "scan", "cut"}, seen : Seq(Token), new : Token]

\* A function over 1 .. n is a sequence of n elements.
LEMMA FunctionIsSeq ==
  ASSUME NEW S, NEW n \in Nat, NEW f \in [1 .. n -> S]
  PROVE  f \in Seq(S) /\ Len(f) = n
<1>1. f \in Seq(S)
  <2>1. Seq(S) = UNION {[1 .. k -> S] : k \in Nat}
    BY SeqDef
  <2> QED
    BY <2>1
<1>2. Len(f) \in Nat /\ DOMAIN f = 1 .. Len(f) /\ DOMAIN f = 1 .. n
  BY <1>1, LenProperties
<1>3. PICK k \in Nat : k = Len(f)
  BY <1>2
<1>4. k = n
  <2>1. (k >= 1 => k \in 1 .. n) /\ (n >= 1 => n \in 1 .. k)
    BY <1>2, <1>3
  <2> QED
    BY <2>1
<1> QED
  BY <1>1, <1>3, <1>4

\* The arguments are the lines at even places.
LEMMA ArgsFacts ==
  ASSUME NEW c, handler[c].lines \in Seq(Token)
  PROVE  /\ Args(c) \in Seq(Token) /\ Len(handler[c].lines) \in Nat
         /\ Len(Args(c)) = Len(handler[c].lines) \div 2
         /\ \A i \in 1 .. Len(handler[c].lines) \div 2 : Args(c)[i] = handler[c].lines[2 * i]
<1>1. PICK lines : lines = handler[c].lines
  OBVIOUS
<1>2. PICK n \in Nat : n = Len(lines)
  BY <1>1, LenProperties
<1>3. PICK m \in Nat : m = n \div 2
  <2>1. n \div 2 \in Nat
    OBVIOUS
  <2> QED
    BY <2>1
<1> DEFINE as == [i \in 1 .. m |-> lines[2 * i]]
<1>4. Args(c) = as
  BY <1>1, <1>2, <1>3 DEF Args
<1>5. ASSUME NEW i \in 1 .. m PROVE lines[2 * i] \in Token
  <2>1. 2 * i \in 1 .. n
    BY <1>3
  <2> QED
    BY <1>1, <1>2, <2>1, LenProperties
<1>6. as \in [1 .. m -> Token]
  BY <1>5
<1>7. \A i \in 1 .. m : as[i] = lines[2 * i]
  OBVIOUS
<1> HIDE DEF as
<1>8. as \in Seq(Token) /\ Len(as) = m
  BY <1>6, FunctionIsSeq
<1> QED
  BY <1>1, <1>2, <1>3, <1>4, <1>7, <1>8

\* A word in front of arguments.
LEMMA WordFacts ==
  ASSUME NEW w \in Token, NEW as \in Seq(Token)
  PROVE  /\ <<w>> \o as \in Seq(Token) /\ Len(as) \in Nat
         /\ Len(<<w>> \o as) = Len(as) + 1
         /\ (<<w>> \o as)[1] = w
         /\ \A i \in 1 .. Len(as) : (<<w>> \o as)[i + 1] = as[i]
<1>1. <<w>> \in Seq(Token) /\ Len(<<w>>) = 1 /\ <<w>>[1] = w
  OBVIOUS
<1>2. PICK n \in Nat : n = Len(as)
  BY LenProperties
<1>3. PICK v : v = <<w>>
  OBVIOUS
<1>4. PICK g : g = v \o as
  OBVIOUS
<1>5. g \in Seq(Token)
  BY <1>1, <1>2, <1>3, <1>4, ConcatProperties
<1>6. Len(g) = 1 + n
  BY <1>1, <1>2, <1>3, <1>4, ConcatProperties
<1>7. \A i \in 1 .. 1 + n : g[i] = IF i <= 1 THEN v[i] ELSE as[i - 1]
  BY <1>1, <1>2, <1>3, <1>4, ConcatProperties
<1>8. g[1] = v[1]
  <2>1. 1 \in 1 .. 1 + n
    OBVIOUS
  <2>2. g[1] = IF 1 <= 1 THEN v[1] ELSE as[1 - 1]
    BY <1>7, <2>1
  <2> QED
    BY <2>2
<1>9. ASSUME NEW i \in 1 .. n PROVE g[i + 1] = as[i]
  <2>1. i + 1 \in 1 .. 1 + n /\ ~(i + 1 <= 1) /\ (i + 1) - 1 = i
    OBVIOUS
  <2> QED
    BY <1>7, <2>1
<1>10. v[1] = w
  BY <1>1, <1>3
<1>11. \A i \in 1 .. Len(as) : g[i + 1] = as[i]
  BY <1>2, <1>9
<1>12. <<w>> \o as = g
  BY <1>3, <1>4
<1>13. Len(as) \in Nat /\ Len(g) = Len(as) + 1
  <2>1. n + 1 = 1 + n
    OBVIOUS
  <2> QED
    BY <1>2, <1>6, <2>1
<1>14. g[1] = w
  BY <1>8, <1>10
<1> QED
  BY <1>5, <1>11, <1>12, <1>13, <1>14

-----------------------------------------------------------------------------
(* Types.                                                                  *)

\* How far the lines of a connection have come.
StreamsOK ==
  /\ sent \in [Conns -> Nat] /\ got \in [Conns -> Nat] /\ read \in [Conns -> Nat]
  /\ \A c \in Conns : read[c] <= got[c] /\ got[c] <= sent[c] /\ sent[c] <= Len(Text(c))
  /\ \A c \in Conns : sent[c] > 0 => c \in open
  /\ ended \subseteq closed /\ closed \subseteq open /\ open \subseteq Conns
  /\ refused \subseteq open /\ whole \subseteq Conns

\* Behind the answer to SET comes the SET that was answered.
AnsweredSet(es) ==
  /\ Len(es) > 0 /\ Len(es[Len(es)]) > 0 /\ es[Len(es)][1] = "SET"

\* Handlers and what they have carried out.
HandlersOK ==
  /\ handler \in [Conns -> HandlerSet]
  /\ executed \in [Conns -> Seq(Seq(Token))]
  /\ \A c \in Conns : handler[c].name \in {"SET-OPTION", "PX"} => AnsweredSet(executed[c])

\* The default user, and who the connections are.
AccountOK ==
  /\ up \in BOOLEAN /\ nopass \in BOOLEAN /\ overlap \in BOOLEAN /\ program \in Programs
  /\ authUser \in [Conns -> {Nobody, Default}]
  /\ passwords \in Seq(Token)
  /\ update \in [Conns -> UpdateSet]

\* The types, with what each history and buffer holds.
TypeInv == StreamsOK /\ HandlersOK /\ AccountOK

\* What a client has to send is decided when it starts.
LEMMA SameText ==
  program' = program => \A c : Text(c)' = Text(c)
BY DEF Text

\* The next end of a command, for as long as there is more to send.
LEMMA NextEnd ==
  ASSUME program \in Programs, NEW c \in Conns, NEW s \in Nat, s < Len(Text(c))
  PROVE  /\ Min({e \in Ends(c) : e > s}) \in Nat
         /\ Min({e \in Ends(c) : e > s}) > s
         /\ Min({e \in Ends(c) : e > s}) <= Len(Text(c))
<1>1. PICK S : S = {e \in Ends(c) : e > s}
  OBVIOUS
<1>2. PICK N \in Nat : N = Len(program[c])
  BY TextFacts
<1>3. /\ Len(Text(c)) \in Nat /\ End(c, N) = Len(Text(c))
      /\ \A n \in 0 .. N : End(c, n) \in Nat /\ End(c, n) <= Len(Text(c))
  BY <1>2, TextFacts
<1>4. Ends(c) = {End(c, n) : n \in 0 .. N}
  BY <1>2 DEF Ends
<1>5. \A e \in S : e \in Nat /\ e > s /\ e <= Len(Text(c))
  BY <1>1, <1>3, <1>4
<1>6. Len(Text(c)) \in S
  <2>1. N \in 0 .. N
    OBVIOUS
  <2> QED
    BY <1>1, <1>3, <1>4, <2>1
<1>7. PICK m \in S : \A n \in S : m <= n
  <2>1. S \in SUBSET Nat /\ S # {}
    BY <1>5, <1>6
  <2> QED
    BY <2>1, LeastNumber
<1>8. Min(S) \in S
  <2>1. \E x \in S : \A y \in S : x =< y
    BY <1>7
  <2> QED
    BY <2>1 DEF Min
<1> QED
  BY <1>1, <1>5, <1>8

\* Types, action by action: what a client sends ends where a command ends.
LEMMA SendType == ASSUME TypeInv, NEW c \in Conns, Send(c) PROVE TypeInv'
<1> USE DEF Send
<1>1. StreamsOK'
  <2>1. program \in Programs /\ sent[c] \in Nat
    BY DEF TypeInv, StreamsOK, AccountOK
  <2>2. PICK m : m = Min({e \in Ends(c) : e > sent[c]})
    OBVIOUS
  <2>3. m \in Nat /\ m > sent[c] /\ m <= Len(Text(c))
    BY <2>1, <2>2, NextEnd
  <2>4. \A d \in Conns : sent'[d] = IF d = c THEN m ELSE sent[d]
    BY <2>2 DEF TypeInv, StreamsOK
  <2>5. sent' \in [Conns -> Nat]
    BY <2>2, <2>3 DEF TypeInv, StreamsOK
  <2>6. \A d \in Conns : Text(d)' = Text(d)
    BY SameText
  <2>7. c \in open
    OBVIOUS
  <2>8. ASSUME NEW d \in Conns
        PROVE  got[d] <= sent'[d] /\ sent'[d] <= Len(Text(d)) /\ (sent'[d] > 0 => d \in open)
    <3>1. CASE d = c
      <4>1. got[c] \in Nat /\ sent[c] \in Nat /\ got[c] <= sent[c]
        BY DEF TypeInv, StreamsOK
      <4>2. sent'[c] = m
        BY <2>4
      <4>3. got[c] <= m
        BY <2>3, <4>1
      <4> QED
        BY <2>3, <2>7, <3>1, <4>2, <4>3
    <3>2. CASE d # c
      <4>1. sent'[d] = sent[d]
        BY <2>4, <3>2
      <4> QED
        BY <4>1 DEF TypeInv, StreamsOK
    <3> QED
      BY <3>1, <3>2
  <2> QED
    BY <2>5, <2>6, <2>8 DEF TypeInv, StreamsOK
<1>2. HandlersOK'
  BY DEF TypeInv, HandlersOK
<1>3. AccountOK'
  BY DEF TypeInv, AccountOK, account
<1> QED
  BY <1>1, <1>2, <1>3 DEF TypeInv

\* Types: a client closes its end.
LEMMA CloseType == ASSUME TypeInv, NEW c \in Conns, Close(c) PROVE TypeInv'
<1> USE DEF Close
<1>1. StreamsOK'
  <2>1. \A d \in Conns : Text(d)' = Text(d)
    BY SameText
  <2> QED
    BY <2>1 DEF TypeInv, StreamsOK
<1>2. HandlersOK'
  BY DEF TypeInv, HandlersOK
<1>3. AccountOK'
  BY DEF TypeInv, AccountOK, account
<1> QED
  BY <1>1, <1>2, <1>3 DEF TypeInv

\* Types: serveCommands begins, as the default user or as nobody.
LEMMA AcceptType == ASSUME TypeInv, NEW c \in Conns, Accept(c) PROVE TypeInv'
<1> USE DEF Accept
<1>1. StreamsOK'
  <2>1. \A d \in Conns : Text(d)' = Text(d)
    BY SameText
  <2> QED
    BY <2>1 DEF TypeInv, StreamsOK
<1>2. HandlersOK'
  BY DEF TypeInv, HandlersOK
<1>3. AccountOK'
  BY DEF TypeInv, AccountOK, account, UserAtAccept
<1> QED
  BY <1>1, <1>2, <1>3 DEF TypeInv

\* Types: bufio.Reader takes no more than has been sent.
LEMMA FillType ==
  ASSUME TypeInv, NEW c \in Conns, NEW n \in Nat, Fill(c, n) PROVE TypeInv'
<1> USE DEF Fill
<1>1. StreamsOK'
  <2>1. \A d \in Conns : Text(d)' = Text(d)
    BY SameText
  <2>2. \A d \in Conns : got'[d] = IF d = c THEN n ELSE got[d]
    BY DEF TypeInv, StreamsOK
  <2>3. n > got[c] /\ n <= sent[c]
    BY DEF TypeInv, StreamsOK
  <2>4. \A d \in Conns : read[d] <= got'[d] /\ got'[d] <= sent[d]
    BY <2>2, <2>3 DEF TypeInv, StreamsOK
  <2>5. whole' \subseteq whole /\ got' \in [Conns -> Nat]
    BY DEF TypeInv, StreamsOK
  <2>6. UNCHANGED <<sent, read, open, closed, ended, refused>>
    OBVIOUS
  <2> HIDE DEF Fill
  <2> QED
    BY <2>1, <2>4, <2>5, <2>6 DEF TypeInv, StreamsOK
<1>2. HandlersOK'
  BY DEF TypeInv, HandlersOK
<1>3. AccountOK'
  BY DEF TypeInv, AccountOK, account
<1> QED
  BY <1>1, <1>2, <1>3 DEF TypeInv

\* The line that is read next is one of the program's.
LEMMA NextLineType ==
  ASSUME TypeInv, NEW c \in Conns, Buffered(c) > 0
  PROVE  /\ NextLine(c) \in Token /\ c \in open
         /\ read[c] + 1 \in Nat /\ read[c] + 1 <= got[c]
<1>1. read[c] \in Nat /\ got[c] \in Nat /\ sent[c] \in Nat /\ got[c] <= sent[c] /\ sent[c] <= Len(Text(c))
  BY DEF TypeInv, StreamsOK
<1>2. read[c] + 1 <= got[c]
  BY <1>1 DEF Buffered
<1>3. program \in Programs
  BY DEF TypeInv, AccountOK
<1>4. Text(c) \in Seq(Token) /\ Len(Text(c)) \in Nat
  BY <1>3, TextFacts
<1>5. read[c] + 1 \in 1 .. Len(Text(c))
  BY <1>1, <1>2, <1>4
<1>6. NextLine(c) \in Token
  BY <1>4, <1>5, ElementOfSeq DEF NextLine
<1>7. c \in open
  <2>1. sent[c] > 0
    BY <1>1, <1>2
  <2> QED
    BY <2>1 DEF TypeInv, StreamsOK
<1> QED
  BY <1>1, <1>2, <1>6, <1>7

\* Taking a line keeps the streams.
LEMMA LineTaken ==
  ASSUME TypeInv, NEW c \in Conns, Buffered(c) > 0,
         read' = [read EXCEPT ![c] = @ + 1],
         UNCHANGED <<program, open, closed, ended, sent, got, whole>>,
         refused' \subseteq refused \union {c}
  PROVE  StreamsOK'
<1>1. \A d \in Conns : Text(d)' = Text(d)
  BY SameText
<1>2. c \in open /\ read[c] + 1 \in Nat /\ read[c] + 1 <= got[c]
  BY NextLineType
<1>3. read' \in [Conns -> Nat] /\ \A d \in Conns : read'[d] <= got[d]
  BY <1>2 DEF TypeInv, StreamsOK
<1> QED
  BY <1>1, <1>2, <1>3 DEF TypeInv, StreamsOK

\* Types: serveCommands takes a line and may call a handler.
LEMMA ReadCommandType == ASSUME TypeInv, NEW c \in Conns, ReadCommand(c) PROVE TypeInv'
<1> USE DEF ReadCommand
<1>1. StreamsOK'
  BY LineTaken
<1>2. HandlersOK'
  <2>1. CASE NextLine(c) \in Names /\ (authUser[c] # Nobody \/ NextLine(c) \notin Guarded)
    <3>1. PICK w \in Names : w = NextLine(c)
      BY <2>1
    <3>2. handler' = [handler EXCEPT ![c] = [name |-> w, lines |-> <<>>]] /\ executed' = executed
      BY <2>1, <3>1
    <3>3. w \notin {"SET-OPTION", "PX"}
      BY DEF Names, NoArgument, OneArgument, TwoArguments, ThreeArguments, WhileBuffered
    <3>4. [name |-> w, lines |-> <<>>] \in HandlerSet
      BY EmptySeq DEF HandlerSet
    <3>5. handler' \in [Conns -> HandlerSet]
      BY <3>2, <3>4 DEF TypeInv, HandlersOK
    <3>6. \A d \in Conns : handler'[d].name = IF d = c THEN w ELSE handler[d].name
      BY <3>2 DEF TypeInv, HandlersOK
    <3> HIDE DEF ReadCommand
    <3> QED
      BY <3>2, <3>3, <3>5, <3>6 DEF TypeInv, HandlersOK
  <2>2. CASE ~(NextLine(c) \in Names /\ (authUser[c] # Nobody \/ NextLine(c) \notin Guarded))
    BY <2>2 DEF TypeInv, HandlersOK
  <2> QED
    BY <2>1, <2>2
<1>3. AccountOK'
  BY DEF TypeInv, AccountOK, account
<1> QED
  BY <1>1, <1>2, <1>3 DEF TypeInv

\* Types: a handler takes a line.
LEMMA ReadArgumentType == ASSUME TypeInv, NEW c \in Conns, ReadArgument(c) PROVE TypeInv'
<1> USE DEF ReadArgument
<1>1. StreamsOK'
  BY LineTaken
<1>2. HandlersOK'
  <2>1. PICK w \in Token : w = NextLine(c)
    BY NextLineType
  <2>2. handler[c] \in HandlerSet
    BY DEF TypeInv, HandlersOK
  <2>3. PICK ls \in Seq(Token) : ls = Append(handler[c].lines, w)
    <3>1. Append(handler[c].lines, w) \in Seq(Token)
      BY <2>2, AppendProperties DEF HandlerSet
    <3> QED
      BY <3>1
  <2>4. handler' = [handler EXCEPT ![c].lines = ls] /\ executed' = executed
    BY <2>1, <2>3
  <2> HIDE DEF ReadArgument
  <2>5. handler' \in [Conns -> HandlerSet]
    BY <2>2, <2>4 DEF TypeInv, HandlersOK, HandlerSet
  <2>6. \A d \in Conns : handler'[d].name = handler[d].name
    BY <2>2, <2>4 DEF TypeInv, HandlersOK, HandlerSet
  <2> QED
    BY <2>4, <2>5, <2>6 DEF TypeInv, HandlersOK
<1>3. AccountOK'
  BY DEF TypeInv, AccountOK, account
<1> QED
  BY <1>1, <1>2, <1>3 DEF TypeInv

\* No handler.
LEMMA NoHandlerType == NoHandler \in HandlerSet /\ NoHandler.name = ""
BY EmptySeq DEF NoHandler, HandlerSet

\* A handler that adds its command to those carried out, and goes on as h.
LEMMA DoneType ==
  ASSUME TypeInv, NEW c \in Conns, Done(c), handler[c].name \in Names,
         NEW h \in HandlerSet, handler' = [handler EXCEPT ![c] = h],
         h.name \in {"SET-OPTION", "PX"} => handler[c].name = "SET"
  PROVE  HandlersOK'
<1>1. handler[c] \in HandlerSet
  BY DEF TypeInv, HandlersOK
<1>2. handler[c].lines \in Seq(Token) /\ handler[c].name \in Token
  BY <1>1 DEF HandlerSet, Token
<1>3. Args(c) \in Seq(Token)
  BY <1>2, ArgsFacts
<1>4. PICK e : e = <<handler[c].name>> \o Args(c)
  OBVIOUS
<1>5. e \in Seq(Token) /\ Len(e) > 0 /\ e[1] = handler[c].name
  <2>1. e \in Seq(Token) /\ Len(e) = Len(Args(c)) + 1 /\ Len(Args(c)) \in Nat /\ e[1] = handler[c].name
    BY <1>2, <1>3, <1>4, WordFacts
  <2>2. \A k \in Nat : k + 1 > 0
    OBVIOUS
  <2> QED
    BY <2>1, <2>2
<1>6. executed[c] \in Seq(Seq(Token))
  BY DEF TypeInv, HandlersOK
<1>7. PICK es : es = Append(executed[c], e)
  OBVIOUS
<1>8. es \in Seq(Seq(Token)) /\ Len(es) > 0 /\ es[Len(es)] = e
  BY <1>5, <1>6, <1>7, AppendProperties, LenProperties
<1>9. executed' = [executed EXCEPT ![c] = es]
  BY <1>4, <1>7 DEF Done
<1>10. executed' \in [Conns -> Seq(Seq(Token))] /\ handler' \in [Conns -> HandlerSet]
  BY <1>8, <1>9 DEF TypeInv, HandlersOK
<1>11. ASSUME NEW d \in Conns, handler'[d].name \in {"SET-OPTION", "PX"}
       PROVE  AnsweredSet(executed'[d])
  <2>1. CASE d = c
    <3>1. handler[c].name = "SET" /\ executed'[d] = es
      BY <1>9, <1>11, <2>1 DEF TypeInv, HandlersOK
    <3> QED
      BY <1>5, <1>8, <3>1 DEF AnsweredSet
  <2>2. CASE d # c
    <3>1. handler'[d] = handler[d] /\ executed'[d] = executed[d]
      BY <1>9, <2>2 DEF TypeInv, HandlersOK
    <3> QED
      BY <1>11, <3>1 DEF TypeInv, HandlersOK
  <2> QED
    BY <2>1, <2>2
<1> QED
  BY <1>10, <1>11 DEF HandlersOK

\* Handlers do not touch what has arrived.
LEMMA StreamsKept ==
  ASSUME TypeInv,
         UNCHANGED <<program, open, closed, sent, got, read, whole, refused>>,
         ended' \subseteq closed
  PROVE  StreamsOK'
<1>1. \A d \in Conns : Text(d)' = Text(d)
  BY SameText
<1> QED
  BY <1>1 DEF TypeInv, StreamsOK

\* Types: serveCommands returns when the client has closed its end.
LEMMA EndOfFileType == ASSUME TypeInv, NEW c \in Conns, EndOfFile(c) PROVE TypeInv'
<1> USE DEF EndOfFile
<1>1. StreamsOK'
  <2>1. ended' \subseteq closed
    BY DEF TypeInv, StreamsOK
  <2> QED
    BY <2>1, StreamsKept
<1>2. HandlersOK'
  BY NoHandlerType DEF TypeInv, HandlersOK
<1>3. AccountOK'
  BY DEF TypeInv, AccountOK, account
<1> QED
  BY <1>1, <1>2, <1>3 DEF TypeInv

\* Types: the handlers that read, act and return.
LEMMA SimpleType == ASSUME TypeInv, NEW c \in Conns, Simple(c) PROVE TypeInv'
<1> USE DEF Simple
<1>1. StreamsOK'
  <2>1. ended' \subseteq closed
    BY DEF TypeInv, StreamsOK
  <2> QED
    BY <2>1, StreamsKept
<1>2. HandlersOK'
  <2>1. handler[c].name \in Names
    BY DEF Ready
  <2> QED
    BY <2>1, DoneType, NoHandlerType DEF Returns
<1>3. AccountOK'
  BY DEF TypeInv, AccountOK, account
<1> QED
  BY <1>1, <1>2, <1>3 DEF TypeInv

\* Types: SET answers and looks for an option.
LEMMA SetAnswersType == ASSUME TypeInv, NEW c \in Conns, SetAnswers(c) PROVE TypeInv'
<1> USE DEF SetAnswers
<1>1. StreamsOK'
  <2>1. ended' \subseteq closed
    BY DEF TypeInv, StreamsOK
  <2> QED
    BY <2>1, StreamsKept
<1>2. HandlersOK'
  <2>1. handler[c].name = "SET" /\ handler[c].name \in Names
    BY DEF Ready, Names, TwoArguments
  <2>2. [name |-> "SET-OPTION", lines |-> <<>>] \in HandlerSet
    BY EmptySeq DEF HandlerSet
  <2>3. PICK h \in HandlerSet : handler' = [handler EXCEPT ![c] = h]
    BY <2>2, NoHandlerType
  <2> QED
    BY <2>1, <2>3, DoneType
<1>3. AccountOK'
  BY DEF TypeInv, AccountOK, account
<1> QED
  BY <1>1, <1>2, <1>3 DEF TypeInv

\* Types: HandleSet has read an option.
LEMMA SetOptionType == ASSUME TypeInv, NEW c \in Conns, SetOption(c) PROVE TypeInv'
<1> USE DEF SetOption
<1>1. StreamsOK'
  <2>1. ended' \subseteq closed
    BY DEF TypeInv, StreamsOK
  <2> QED
    BY <2>1, StreamsKept
<1>2. HandlersOK'
  <2>1. handler[c].name = "SET-OPTION" /\ executed' = executed
    BY DEF Ready
  <2>2. [name |-> "PX", lines |-> <<>>] \in HandlerSet
    BY EmptySeq DEF HandlerSet
  <2>3. PICK h \in HandlerSet : handler' = [handler EXCEPT ![c] = h]
    BY <2>2, NoHandlerType
  <2>4. handler' \in [Conns -> HandlerSet] /\ \A d \in Conns : d # c => handler'[d] = handler[d]
    BY <2>3 DEF TypeInv, HandlersOK
  <2> HIDE DEF SetOption
  <2> QED
    BY <2>1, <2>4 DEF TypeInv, HandlersOK
<1>3. AccountOK'
  BY DEF TypeInv, AccountOK, account
<1> QED
  BY <1>1, <1>2, <1>3 DEF TypeInv

\* What PX does to the SET that has been answered.
LEMMA DeadlineAdded ==
  ASSUME TypeInv, NEW c \in Conns, SetDeadline(c)
  PROVE  /\ executed'[c] \in Seq(Seq(Token)) /\ Len(executed'[c]) = Len(executed[c])
         /\ Len(executed[c]) \in Nat \ {0}
         /\ \A i \in 1 .. Len(executed[c]) - 1 : executed'[c][i] = executed[c][i]
         /\ executed'[c][Len(executed[c])] = executed[c][Len(executed[c])] \o <<"PX">> \o Args(c)
         /\ executed'[c][Len(executed[c])] \in Seq(Token)
         /\ Len(executed'[c][Len(executed[c])]) > 0
         /\ executed'[c][Len(executed[c])][1] = "SET"
         /\ executed' = [executed EXCEPT ![c] = executed'[c]]
<1>1. handler[c] \in HandlerSet /\ handler[c].name = "PX"
  BY DEF TypeInv, HandlersOK, SetDeadline, Ready
<1>2. Args(c) \in Seq(Token)
  BY <1>1, ArgsFacts DEF HandlerSet
<1>3. PICK es \in Seq(Seq(Token)) : es = executed[c]
  BY DEF TypeInv, HandlersOK
<1>4. PICK k \in Nat \ {0} : k = Len(es)
  <2>1. AnsweredSet(es)
    BY <1>1, <1>3 DEF TypeInv, HandlersOK
  <2> QED
    BY <2>1, LenProperties DEF AnsweredSet
<1>5. PICK l \in Seq(Token) : l = es[k]
  <2>1. k \in 1 .. Len(es)
    BY <1>4
  <2> QED
    BY <2>1, ElementOfSeq
<1>6. Len(l) > 0 /\ l[1] = "SET"
  BY <1>1, <1>3, <1>4, <1>5 DEF TypeInv, HandlersOK, AnsweredSet
<1>7. PICK m \in Seq(Token) : m = l \o <<"PX">> \o Args(c) /\ Len(m) > 0 /\ m[1] = "SET"
  <2>1. PICK px \in Seq(Token) : px = <<"PX">>
    <3>1. "PX" \in Token
      BY DEF Token
    <3>2. <<"PX">> \in Seq(Token)
      BY <3>1
    <3> QED
      BY <3>2
  <2>2. PICK lp : lp = l \o px
    OBVIOUS
  <2>3. PICK n \in Nat : n = Len(l)
    BY LenProperties
  <2>4. PICK p \in Nat : p = Len(px)
    BY LenProperties
  <2>5. PICK as \in Seq(Token) : as = Args(c)
    BY <1>2
  <2>14. PICK a \in Nat : a = Len(as)
    BY LenProperties
  <2>15. PICK q \in Nat : q = n + p
    OBVIOUS
  <2>6. lp \in Seq(Token) /\ Len(lp) = q
    BY <2>2, <2>3, <2>4, <2>15, ConcatProperties
  <2>7. n > 0 /\ 1 \in 1 .. q /\ q + a > 0 /\ 1 \in 1 .. q + a /\ 1 <= q /\ 1 <= n
    BY <1>6, <2>3, <2>15
  <2>8. lp[1] = l[1]
    <3>1. \A i \in 1 .. q : lp[i] = IF i <= n THEN l[i] ELSE px[i - n]
      BY <2>2, <2>3, <2>4, <2>15, ConcatProperties
    <3>2. lp[1] = IF 1 <= n THEN l[1] ELSE px[1 - n]
      BY <2>7, <3>1
    <3> QED
      BY <2>7, <3>2
  <2>9. PICK m : m = lp \o as
    OBVIOUS
  <2>10. m \in Seq(Token) /\ Len(m) = q + a
    BY <2>14, <2>6, <2>9, ConcatProperties
  <2>11. m[1] = lp[1]
    <3>1. \A i \in 1 .. q + a : m[i] = IF i <= q THEN lp[i] ELSE as[i - q]
      BY <2>14, <2>6, <2>9, ConcatProperties
    <3>2. m[1] = IF 1 <= q THEN lp[1] ELSE as[1 - q]
      BY <2>7, <3>1
    <3> QED
      BY <2>7, <3>2
  <2>13. m = l \o <<"PX">> \o Args(c)
    BY <2>1, <2>2, <2>5, <2>9
  <2>12. Len(m) > 0
    BY <2>7, <2>10
  <2>16. m[1] = "SET"
    BY <1>6, <2>8, <2>11
  <2> QED
    BY <2>10, <2>12, <2>13, <2>16
<1>8. PICK f : f = Front(es)
  OBVIOUS
<1>9. f \in Seq(Seq(Token)) /\ Len(f) = k - 1 /\ \A i \in 1 .. k - 1 : f[i] = es[i]
  <2>1. f = SubSeq(es, 1, k - 1)
    BY <1>4, <1>8 DEF Front
  <2>2. \A i \in 1 .. k - 1 : es[i] \in Seq(Token)
    BY <1>4, ElementOfSeq
  <2>3. 1 \in Int /\ k - 1 \in Int
    OBVIOUS
  <2>4. /\ SubSeq(es, 1, k - 1) \in Seq(Seq(Token))
        /\ Len(SubSeq(es, 1, k - 1)) = IF 1 <= k - 1 THEN (k - 1) - 1 + 1 ELSE 0
        /\ \A i \in 1 .. (k - 1) - 1 + 1 : SubSeq(es, 1, k - 1)[i] = es[1 + i - 1]
    BY <2>2, <2>3, SubSeqProperties
  <2>5. ASSUME NEW i \in 1 .. k - 1 PROVE f[i] = es[i]
    <3>1. i \in 1 .. (k - 1) - 1 + 1 /\ 1 + i - 1 = i
      OBVIOUS
    <3> QED
      BY <2>1, <2>4, <3>1
  <2>6. (IF 1 <= k - 1 THEN (k - 1) - 1 + 1 ELSE 0) = k - 1
    OBVIOUS
  <2>7. Len(f) = k - 1
    BY <2>1, <2>4, <2>6
  <2> QED
    BY <2>1, <2>4, <2>5, <2>7
<1>10. PICK g : g = f \o <<m>>
  OBVIOUS
<1>11. /\ g \in Seq(Seq(Token)) /\ Len(g) = k
       /\ (\A i \in 1 .. k - 1 : g[i] = es[i]) /\ g[k] = m
  <2>1. f \o <<m>> = Append(f, m)
    BY <1>9, AppendIsConcat
  <2>2. g = Append(f, m)
    BY <1>10, <2>1
  <2>3. /\ g \in Seq(Seq(Token)) /\ Len(g) = Len(f) + 1
        /\ \A i \in 1 .. Len(f) : g[i] = f[i]
        /\ g[Len(f) + 1] = m
    BY <1>9, <2>2, AppendProperties
  <2>4. (k - 1) + 1 = k
    OBVIOUS
  <2> QED
    BY <1>9, <2>3, <2>4
<1>12. executed' = [executed EXCEPT ![c] = g]
  BY <1>3, <1>4, <1>5, <1>7, <1>8, <1>10 DEF SetDeadline, Last
<1>13. executed'[c] = g
  BY <1>12 DEF TypeInv, HandlersOK
<1> QED
  BY <1>3, <1>4, <1>5, <1>7, <1>11, <1>12, <1>13

\* Types: HandleSet has read the deadline of the SET it answered last.
LEMMA SetDeadlineType == ASSUME TypeInv, NEW c \in Conns, SetDeadline(c) PROVE TypeInv'
<1>1. StreamsOK'
  <2>1. ended' \subseteq closed
    BY DEF TypeInv, StreamsOK, SetDeadline
  <2> QED
    BY <2>1, StreamsKept DEF SetDeadline
<1>2. HandlersOK'
  <2>1. executed'[c] \in Seq(Seq(Token)) /\ executed' = [executed EXCEPT ![c] = executed'[c]]
    BY DeadlineAdded
  <2>2. handler' = [handler EXCEPT ![c] = NoHandler]
    BY DEF SetDeadline, Returns
  <2>3. PICK es \in Seq(Seq(Token)) : executed' = [executed EXCEPT ![c] = es]
    BY <2>1
  <2>4. executed' \in [Conns -> Seq(Seq(Token))] /\ \A d \in Conns : d # c => executed'[d] = executed[d]
    BY <2>3 DEF TypeInv, HandlersOK
  <2>5. handler' \in [Conns -> HandlerSet] /\ handler'[c].name = "" /\ \A d \in Conns : d # c => handler'[d] = handler[d]
    BY <2>2, NoHandlerType DEF TypeInv, HandlersOK
  <2> QED
    BY <2>4, <2>5 DEF TypeInv, HandlersOK
<1>3. AccountOK'
  BY DEF TypeInv, AccountOK, account, SetDeadline
<1> QED
  BY <1>1, <1>2, <1>3 DEF TypeInv

\* A SETUSER under way stands in the handler that carries it out, its arguments read.
GivesPassword(c) ==
  /\ handler[c].name = "ACL" /\ Len(handler[c].lines) = 6
  /\ handler[c].lines[2] = "SETUSER" /\ handler[c].lines[4] = Default
  /\ handler[c].lines[6] \in DOMAIN Secret
  /\ update[c].step # "" /\ update[c].new = Secret[handler[c].lines[6]]

\* ACL reads three arguments at most, and an update belongs to a SETUSER.
UpdatesOK ==
  \A c \in Conns :
    /\ handler[c].name = "ACL" => Len(handler[c].lines) <= 6
    /\ update[c] # NoUpdate => GivesPassword(c)

\* Types: AUTH of the default user, or the panic.
LEMMA AuthType == ASSUME TypeInv, NEW c \in Conns, Auth(c) PROVE TypeInv'
<1> USE DEF Auth
<1>1. StreamsOK'
  <2>1. ended' \subseteq closed
    BY DEF TypeInv, StreamsOK
  <2> QED
    BY <2>1, StreamsKept
<1>2. HandlersOK'
  <2>1. CASE Args(c)[1] # Default
    BY <2>1 DEF TypeInv, HandlersOK
  <2>2. CASE Args(c)[1] = Default
    <3>1. handler[c].name \in Names
      BY DEF Ready, Names, TwoArguments
    <3>2. Done(c) /\ handler' = [handler EXCEPT ![c] = NoHandler]
      BY <2>2 DEF Returns
    <3> QED
      BY <3>1, <3>2, DoneType, NoHandlerType
  <2> QED
    BY <2>1, <2>2
<1>3. AccountOK'
  <2>1. authUser' \in [Conns -> {Nobody, Default}]
    BY DEF TypeInv, AccountOK
  <2>2. up' \in BOOLEAN
    BY DEF TypeInv, AccountOK
  <2>3. UNCHANGED <<program, passwords, nopass, update, overlap>>
    BY DEF account
  <2> HIDE DEF Auth
  <2> QED
    BY <2>1, <2>2, <2>3 DEF TypeInv, AccountOK
<1> QED
  BY <1>1, <1>2, <1>3 DEF TypeInv

\* Types: the subcommands of ACL that change nothing.
LEMMA AclReadsType == ASSUME TypeInv, NEW c \in Conns, AclReads(c) PROVE TypeInv'
<1>1. StreamsOK'
  <2>1. ended' \subseteq closed
    BY DEF TypeInv, StreamsOK, AclReads
  <2> QED
    BY <2>1, StreamsKept DEF AclReads
<1>2. HandlersOK'
  <2>1. handler[c].name \in Names
    BY DEF Ready, Names, AclReads
  <2>2. Done(c) /\ handler' = [handler EXCEPT ![c] = NoHandler]
    BY DEF Returns, AclReads
  <2> QED
    BY <2>1, <2>2, DoneType, NoHandlerType
<1>3. AccountOK'
  BY DEF TypeInv, AccountOK, account, AclReads
<1> QED
  BY <1>1, <1>2, <1>3 DEF TypeInv

\* No update.
LEMMA NoUpdateType == NoUpdate \in UpdateSet /\ NoUpdate.step = ""
<1>1. "" \in Token
  BY DEF Token
<1> QED
  BY <1>1, EmptySeq DEF NoUpdate, UpdateSet

\* Types: SETUSER has the slice of passwords in hand.
LEMMA SetUserReadsType == ASSUME TypeInv, NEW c \in Conns, SetUserReads(c) PROVE TypeInv'
<1>1. StreamsOK'
  <2>1. ended' \subseteq closed
    BY DEF TypeInv, StreamsOK, SetUserReads, stream
  <2> QED
    BY <2>1, StreamsKept DEF SetUserReads, stream
<1>2. HandlersOK'
  BY DEF TypeInv, HandlersOK, SetUserReads, stream
<1>3. AccountOK'
  <2>1. PICK w : w = Secret[Args(c)[3]]
    OBVIOUS
  <2>2. w \in Token
    BY <2>1, SessionsAssumption DEF SetUserReads, Token
  <2>3. passwords \in Seq(Token)
    BY DEF TypeInv, AccountOK
  <2>4. [step |-> "append", seen |-> passwords, new |-> w] \in UpdateSet
    BY <2>2, <2>3 DEF UpdateSet
  <2>5. PICK u \in UpdateSet : update' = [update EXCEPT ![c] = u]
    BY <2>1, <2>4 DEF SetUserReads
  <2>6. update' \in [Conns -> UpdateSet]
    BY <2>5 DEF TypeInv, AccountOK
  <2>7. overlap' \in BOOLEAN
    BY DEF SetUserReads, TypeInv, AccountOK
  <2>8. UNCHANGED <<up, program, authUser, passwords, nopass>>
    BY DEF SetUserReads
  <2> QED
    BY <2>6, <2>7, <2>8 DEF TypeInv, AccountOK
<1> QED
  BY <1>1, <1>2, <1>3 DEF TypeInv

\* Types: SETUSER assigns the longer slice.
LEMMA SetUserAppendsType ==
  ASSUME TypeInv, NEW c \in Conns, SetUserAppends(c) PROVE TypeInv'
<1>1. StreamsOK'
  <2>1. ended' \subseteq closed
    BY DEF TypeInv, StreamsOK, SetUserAppends, stream
  <2> QED
    BY <2>1, StreamsKept DEF SetUserAppends, stream
<1>2. HandlersOK'
  BY DEF TypeInv, HandlersOK, SetUserAppends, stream
<1>3. AccountOK'
  <2>1. update[c] \in UpdateSet
    BY DEF TypeInv, AccountOK
  <2>2. passwords' \in Seq(Token)
    BY <2>1, AppendProperties DEF SetUserAppends, Appended, UpdateSet
  <2>3. update' \in [Conns -> UpdateSet]
    BY <2>1 DEF SetUserAppends, TypeInv, AccountOK, UpdateSet
  <2>4. UNCHANGED <<up, program, authUser, overlap, nopass>>
    BY DEF SetUserAppends
  <2> QED
    BY <2>2, <2>3, <2>4 DEF TypeInv, AccountOK
<1> QED
  BY <1>1, <1>2, <1>3 DEF TypeInv

\* Types: SETUSER looks for "nopass".
LEMMA SetUserScansType ==
  ASSUME TypeInv, UpdatesOK, NEW c \in Conns, SetUserScans(c) PROVE TypeInv'
<1>1. StreamsOK'
  <2>1. ended' \subseteq closed
    BY DEF TypeInv, StreamsOK, SetUserScans
  <2> QED
    BY <2>1, StreamsKept DEF SetUserScans
<1>2. update[c] # NoUpdate
  BY NoUpdateType DEF SetUserScans
<1>3. handler[c].name \in Names
  BY <1>2 DEF UpdatesOK, GivesPassword, Names
<1>4. HandlersOK'
  <2>1. CASE nopass
    BY <2>1 DEF TypeInv, HandlersOK, SetUserScans
  <2>2. CASE ~nopass
    <3>1. Done(c) /\ handler' = [handler EXCEPT ![c] = NoHandler]
      BY <2>2 DEF SetUserScans, Returns
    <3> QED
      BY <1>3, <3>1, DoneType, NoHandlerType
  <2> QED
    BY <2>1, <2>2
<1>5. AccountOK'
  <2>1. update[c] \in UpdateSet
    BY DEF TypeInv, AccountOK
  <2>2. update' \in [Conns -> UpdateSet]
    <3>1. [update EXCEPT ![c].step = "cut"] \in [Conns -> UpdateSet]
      BY <2>1 DEF TypeInv, AccountOK, UpdateSet
    <3>2. [update EXCEPT ![c] = NoUpdate] \in [Conns -> UpdateSet]
      BY NoUpdateType DEF TypeInv, AccountOK
    <3> QED
      BY <3>1, <3>2 DEF SetUserScans
  <2>3. UNCHANGED <<up, program, authUser, overlap, nopass, passwords>>
    BY DEF SetUserScans
  <2> QED
    BY <2>2, <2>3 DEF TypeInv, AccountOK
<1> QED
  BY <1>1, <1>4, <1>5 DEF TypeInv

\* Types: SETUSER removes "nopass", or panics.
LEMMA SetUserCutsType ==
  ASSUME TypeInv, UpdatesOK, NEW c \in Conns, SetUserCuts(c) PROVE TypeInv'
<1>1. StreamsOK'
  <2>1. ended' \subseteq closed
    BY DEF TypeInv, StreamsOK, SetUserCuts
  <2> QED
    BY <2>1, StreamsKept DEF SetUserCuts
<1>2. update[c] # NoUpdate
  BY NoUpdateType DEF SetUserCuts
<1>3. handler[c].name \in Names
  BY <1>2 DEF UpdatesOK, GivesPassword, Names
<1>4. HandlersOK'
  <2>1. CASE ~nopass
    BY <2>1 DEF TypeInv, HandlersOK, SetUserCuts
  <2>2. CASE nopass
    <3>1. Done(c) /\ handler' = [handler EXCEPT ![c] = NoHandler]
      BY <2>2 DEF SetUserCuts, Returns
    <3> QED
      BY <1>3, <3>1, DoneType, NoHandlerType
  <2> QED
    BY <2>1, <2>2
<1>5. AccountOK'
  <2>1. update' \in [Conns -> UpdateSet]
    <3>1. [update EXCEPT ![c] = NoUpdate] \in [Conns -> UpdateSet]
      BY NoUpdateType DEF TypeInv, AccountOK
    <3> QED
      BY <3>1 DEF SetUserCuts, TypeInv, AccountOK
  <2>2. up' \in BOOLEAN /\ nopass' \in BOOLEAN
    BY DEF SetUserCuts, TypeInv, AccountOK
  <2>3. UNCHANGED <<program, authUser, overlap, passwords>>
    BY DEF SetUserCuts
  <2> QED
    BY <2>1, <2>2, <2>3 DEF TypeInv, AccountOK
<1> QED
  BY <1>1, <1>4, <1>5 DEF TypeInv

\* No step breaks the types.
LEMMA TypeInvStep ==
  ASSUME TypeInv, UpdatesOK, [Next]_vars PROVE TypeInv'
<1>1. CASE UNCHANGED vars
  <2>1. \A d \in Conns : Text(d)' = Text(d)
    BY <1>1, SameText DEF vars
  <2>2. StreamsOK'
    BY <1>1, <2>1 DEF TypeInv, StreamsOK, vars, stream
  <2>3. HandlersOK'
    BY <1>1 DEF TypeInv, HandlersOK, vars, stream
  <2>4. AccountOK'
    BY <1>1 DEF TypeInv, AccountOK, vars, account
  <2> QED
    BY <2>2, <2>3, <2>4 DEF TypeInv
<1>2. ASSUME NEW c \in Conns, Accept(c) \/ Client(c) PROVE TypeInv'
  BY <1>2, AcceptType, SendType, CloseType DEF Client
<1>3. ASSUME NEW c \in Conns, Serve(c) PROVE TypeInv'
  <2>1. CASE \E n \in 1 .. Len(Text(c)) : Fill(c, n)
    BY <2>1, FillType
  <2>2. CASE ReadCommand(c) \/ ReadArgument(c) \/ EndOfFile(c)
    BY <2>2, ReadCommandType, ReadArgumentType, EndOfFileType
  <2>3. CASE Simple(c) \/ SetAnswers(c) \/ SetOption(c) \/ SetDeadline(c)
    BY <2>3, SimpleType, SetAnswersType, SetOptionType, SetDeadlineType
  <2>4. CASE Auth(c) \/ AclReads(c) \/ SetUserReads(c)
    BY <2>4, AuthType, AclReadsType, SetUserReadsType
  <2>5. CASE SetUserAppends(c) \/ SetUserScans(c) \/ SetUserCuts(c)
    BY <2>5, SetUserAppendsType, SetUserScansType, SetUserCutsType
  <2> QED
    BY <1>3, <2>1, <2>2, <2>3, <2>4, <2>5 DEF Serve, Handle
<1> QED
  BY <1>1, <1>2, <1>3 DEF Next

\* The types hold before the first client connects.
LEMMA TypeInvInit == Init => TypeInv /\ UpdatesOK
<1> SUFFICES ASSUME Init PROVE TypeInv /\ UpdatesOK
  OBVIOUS
<1>1. StreamsOK
  <2>1. \A c \in Conns : Len(Text(c)) \in Nat
    BY TextFacts DEF Init
  <2>2. /\ sent \in [Conns -> Nat] /\ got \in [Conns -> Nat] /\ read \in [Conns -> Nat]
        /\ \A c \in Conns : sent[c] = 0 /\ got[c] = 0 /\ read[c] = 0
    BY DEF Init
  <2>3. open = {} /\ closed = {} /\ ended = {} /\ refused = {} /\ whole = Conns
    BY DEF Init
  <2> QED
    BY <2>1, <2>2, <2>3 DEF StreamsOK
<1>2. HandlersOK
  <2>1. handler = [c \in Conns |-> NoHandler] /\ executed = [c \in Conns |-> <<>>]
    BY DEF Init
  <2> QED
    BY <2>1, NoHandlerType, EmptySeq DEF HandlersOK
<1>3. AccountOK
  <2>1. authUser \in [Conns -> {Nobody, Default}]
    BY DEF Init
  <2>2. update \in [Conns -> UpdateSet]
    BY NoUpdateType DEF Init
  <2>3. passwords \in Seq(Token)
    BY EmptySeq DEF Init
  <2> QED
    BY <2>1, <2>2, <2>3 DEF AccountOK, Init
<1>4. UpdatesOK
  BY NoHandlerType DEF UpdatesOK, Init
<1> QED
  BY <1>1, <1>2, <1>3, <1>4 DEF TypeInv

-----------------------------------------------------------------------------
(* SETUSER.                                                                *)

\* What the handler of ACL reads.
LEMMA NeededByAcl ==
  ASSUME NEW args
  PROVE  /\ Needed("ACL", args) \in {1, 2, 3}
         /\ args = <<>> => Needed("ACL", args) = 1
         /\ args # <<>> /\ args[1] = "SETUSER" => Needed("ACL", args) = 3
<1> DEFINE Acl == IF args = <<>> \/ args[1] = "WHOAMI" THEN 1
                  ELSE IF args[1] = "GETUSER" THEN 2
                  ELSE IF args[1] = "SETUSER" THEN 3 ELSE 1
<1>1. /\ "ACL" \notin NoArgument /\ "ACL" \notin TwoArguments /\ "ACL" \notin ThreeArguments
      /\ "ACL" \notin OneArgument \union {"SET-OPTION", "PX", "RPUSH", "LPUSH", "LPOP", "GEOPOS"}
      /\ "ACL" # "GEOADD" /\ "ACL" # "GEOSEARCH"
  BY DEF NoArgument, OneArgument, TwoArguments, ThreeArguments
<1>2. Needed("ACL", args) = Acl
  BY <1>1 DEF Needed
<1> QED
  BY <1>2

\* How far ACL reads: SETUSER reads three arguments and then no more.
LEMMA AclReadsOn ==
  ASSUME NEW c, handler[c].name = "ACL", handler[c].lines \in Seq(Token),
         Len(handler[c].lines) <= 6
  PROVE  /\ More(c) => Len(handler[c].lines) <= 5
         /\ Len(handler[c].lines) = 6 => ~More(c)
         /\ ~More(c) => Len(Args(c)) > 0
         /\ ~More(c) /\ Args(c)[1] = "SETUSER" => Len(handler[c].lines) = 6
<1>1. PICK n \in Nat : n = Len(handler[c].lines)
  BY LenProperties
<1>2. PICK k : k = Needed("ACL", Args(c))
  OBVIOUS
<1>3. k \in {1, 2, 3} /\ (Args(c) # <<>> /\ Args(c)[1] = "SETUSER" => k = 3)
  BY <1>2, NeededByAcl
<1>4. More(c) <=> (n % 2 = 1 \/ n < 2 * k)
  <2>1. "ACL" \notin WhileBuffered /\ "ACL" # "LPOP"
    BY DEF WhileBuffered
  <2> QED
    BY <1>1, <1>2, <2>1 DEF More
<1>5. n <= 6
  BY <1>1
<1>6. Len(Args(c)) = n \div 2 /\ Args(c) \in Seq(Token)
  BY <1>1, ArgsFacts
<1>7. ~More(c) => n >= 2 /\ n \div 2 > 0
  BY <1>3, <1>4
<1>8. ~More(c) /\ Args(c)[1] = "SETUSER" => n = 6
  <2>1. SUFFICES ASSUME ~More(c), Args(c)[1] = "SETUSER" PROVE n = 6
    OBVIOUS
  <2>2. Args(c) # <<>>
    BY <1>6, <1>7, <2>1, EmptySeq
  <2>3. k = 3
    BY <1>3, <2>1, <2>2
  <2> QED
    BY <1>4, <1>5, <2>1, <2>3
<1>9. More(c) => n <= 5
  BY <1>3, <1>4, <1>5
<1>10. n = 6 => ~More(c)
  BY <1>9
<1> QED
  BY <1>1, <1>6, <1>7, <1>8, <1>9, <1>10

\* A SETUSER under way has read all it needs.
LEMMA GiverWaitsForNothing ==
  ASSUME TypeInv, NEW c \in Conns, GivesPassword(c) PROVE ~More(c) /\ Busy(c)
<1>1. handler[c].name = "ACL" /\ Len(handler[c].lines) = 6 /\ handler[c].lines \in Seq(Token)
  BY DEF TypeInv, HandlersOK, HandlerSet, GivesPassword
<1>2. ~More(c)
  <2>1. Len(handler[c].lines) <= 6
    BY <1>1
  <2> QED
    BY <1>1, <2>1, AclReadsOn
<1>3. Busy(c)
  BY <1>1, NoHandlerType DEF Busy
<1> QED
  BY <1>2, <1>3

\* One connection's step leaves the others' as they are.
LEMMA UpdatesKept ==
  ASSUME UpdatesOK, NEW c \in Conns,
         \A d \in Conns : d # c => handler'[d] = handler[d] /\ update'[d] = update[d],
         handler'[c].name = "ACL" => Len(handler'[c].lines) <= 6,
         update'[c] # NoUpdate => GivesPassword(c)'
  PROVE  UpdatesOK'
<1>1. ASSUME NEW d \in Conns, d # c
      PROVE  /\ handler'[d].name = "ACL" => Len(handler'[d].lines) <= 6
             /\ update'[d] # NoUpdate => GivesPassword(d)'
  <2>1. handler'[d] = handler[d] /\ update'[d] = update[d]
    BY <1>1
  <2>2. GivesPassword(d) => GivesPassword(d)'
    BY <2>1 DEF GivesPassword
  <2> QED
    BY <2>1, <2>2 DEF UpdatesOK
<1>2. NoUpdate' = NoUpdate
  OBVIOUS
<1> QED
  BY <1>1, <1>2 DEF UpdatesOK

\* A step that gives one connection another handler.
LEMMA HandlerOf ==
  ASSUME TypeInv, NEW c \in Conns, NEW h, handler' = [handler EXCEPT ![c] = h]
  PROVE  handler'[c] = h /\ \A d \in Conns : d # c => handler'[d] = handler[d]
BY DEF TypeInv, HandlersOK

\* A handler ends or goes on to its next part, and none of its updates is under way.
LEMMA UpdatesFresh ==
  ASSUME TypeInv, UpdatesOK, NEW c \in Conns, update[c] = NoUpdate, UNCHANGED update,
         NEW h, handler' = [handler EXCEPT ![c] = h], h.lines = <<>>
  PROVE  UpdatesOK'
<1>1. handler'[c] = h /\ \A d \in Conns : d # c => handler'[d] = handler[d]
  BY HandlerOf
<1>2. Len(h.lines) <= 6
  BY EmptySeq
<1> QED
  BY <1>1, <1>2, UpdatesKept

\* A step that leaves handlers and updates alone.
LEMMA UpdatesSame ==
  ASSUME UpdatesOK, UNCHANGED <<handler, update>> PROVE UpdatesOK'
BY DEF UpdatesOK, GivesPassword

\* Updates belong to SETUSERs: a command is looked for when none is under way.
LEMMA UpdatesReadCommand ==
  ASSUME TypeInv, UpdatesOK, NEW c \in Conns, ReadCommand(c) PROVE UpdatesOK'
<1>1. update[c] = NoUpdate
  BY GiverWaitsForNothing DEF UpdatesOK, ReadCommand
<1>2. CASE UNCHANGED handler
  BY <1>2, UpdatesSame DEF ReadCommand, account
<1>3. CASE handler' = [handler EXCEPT ![c] = [name |-> NextLine(c), lines |-> <<>>]]
  <2>1. PICK h : h = [name |-> NextLine(c), lines |-> <<>>]
    OBVIOUS
  <2>2. h.lines = <<>> /\ handler' = [handler EXCEPT ![c] = h] /\ UNCHANGED update
    BY <1>3, <2>1 DEF ReadCommand, account
  <2> QED
    BY <1>1, <2>2, UpdatesFresh
<1> QED
  BY <1>2, <1>3 DEF ReadCommand

\* Updates belong to SETUSERs: arguments are read before.
LEMMA UpdatesReadArgument ==
  ASSUME TypeInv, UpdatesOK, NEW c \in Conns, ReadArgument(c) PROVE UpdatesOK'
<1>1. update[c] = NoUpdate /\ update' = update /\ More(c)
  BY GiverWaitsForNothing DEF UpdatesOK, ReadArgument, account
<1>2. handler[c] \in HandlerSet
  BY DEF TypeInv, HandlersOK
<1>3. PICK ls : ls = Append(handler[c].lines, NextLine(c))
  OBVIOUS
<1>4. handler' = [handler EXCEPT ![c].lines = ls]
  BY <1>3 DEF ReadArgument
<1>5. /\ handler'[c].name = handler[c].name /\ handler'[c].lines = ls
      /\ \A d \in Conns : d # c => handler'[d] = handler[d]
  BY <1>2, <1>4 DEF TypeInv, HandlersOK, HandlerSet
<1>6. Len(handler[c].lines) \in Nat /\ Len(ls) = Len(handler[c].lines) + 1
  <2>1. handler[c].lines \in Seq(Token) /\ NextLine(c) \in Token
    BY <1>2, NextLineType DEF HandlerSet, ReadArgument
  <2> QED
    BY <1>3, <2>1, AppendProperties, LenProperties
<1>7. handler[c].name = "ACL" => Len(ls) <= 6
  <2>1. handler[c].name = "ACL" => Len(handler[c].lines) <= 5
    BY <1>1, <1>2, AclReadsOn DEF UpdatesOK, HandlerSet
  <2> QED
    BY <1>6, <2>1
<1> QED
  BY <1>1, <1>5, <1>7, UpdatesKept

\* Updates belong to SETUSERs: end of file finds none under way.
LEMMA UpdatesEndOfFile ==
  ASSUME TypeInv, UpdatesOK, NEW c \in Conns, EndOfFile(c) PROVE UpdatesOK'
<1>1. update[c] = NoUpdate
  BY GiverWaitsForNothing DEF UpdatesOK, EndOfFile, Starved
<1>2. handler' = [handler EXCEPT ![c] = NoHandler] /\ UNCHANGED update
  BY DEF EndOfFile, account
<1>3. NoHandler.lines = <<>>
  BY DEF NoHandler
<1> QED
  BY <1>1, <1>2, <1>3, UpdatesFresh

\* Updates belong to SETUSERs: the other handlers.
LEMMA UpdatesSimple ==
  ASSUME TypeInv, UpdatesOK, NEW c \in Conns,
         Simple(c) \/ SetAnswers(c) \/ SetOption(c) \/ SetDeadline(c) \/ AclReads(c) \/ Auth(c)
  PROVE  UpdatesOK'
<1>1. update[c] = NoUpdate
  BY DEF Simple, SetAnswers, SetOption, SetDeadline, AclReads, Auth, Ready
<1>2. UNCHANGED update
  BY DEF Simple, SetAnswers, SetOption, SetDeadline, AclReads, Auth, account
<1>3. NoHandler.lines = <<>>
  BY DEF NoHandler
<1>4. UNCHANGED handler \/ \E h : handler' = [handler EXCEPT ![c] = h] /\ h.lines = <<>>
  <2>1. CASE Simple(c) \/ SetDeadline(c) \/ AclReads(c) \/ Auth(c)
    BY <1>3, <2>1 DEF Simple, SetDeadline, AclReads, Auth, Returns
  <2>2. CASE SetAnswers(c)
    <3>1. PICK h : h = [name |-> "SET-OPTION", lines |-> <<>>]
      OBVIOUS
    <3>2. h.lines = <<>>
      BY <3>1
    <3>3. handler' = [handler EXCEPT ![c] = h] \/ handler' = [handler EXCEPT ![c] = NoHandler]
      BY <2>2, <3>1 DEF SetAnswers
    <3> QED
      BY <1>3, <3>2, <3>3
  <2>3. CASE SetOption(c)
    <3>1. PICK h : h = [name |-> "PX", lines |-> <<>>]
      OBVIOUS
    <3>2. h.lines = <<>>
      BY <3>1
    <3>3. handler' = [handler EXCEPT ![c] = h] \/ handler' = [handler EXCEPT ![c] = NoHandler]
      BY <2>3, <3>1 DEF SetOption
    <3> QED
      BY <1>3, <3>2, <3>3
  <2> QED
    BY <2>1, <2>2, <2>3
<1> QED
  BY <1>1, <1>2, <1>4, UpdatesFresh, UpdatesSame

\* Updates belong to SETUSERs: one begins.
LEMMA UpdatesSetUserReads ==
  ASSUME TypeInv, UpdatesOK, NEW c \in Conns, SetUserReads(c) PROVE UpdatesOK'
<1>1. handler' = handler
  BY DEF SetUserReads, stream
<1>2. handler[c].name = "ACL" /\ ~More(c)
  BY DEF SetUserReads, Ready
<1>3. handler[c].lines \in Seq(Token) /\ Len(handler[c].lines) <= 6
  BY <1>2 DEF TypeInv, HandlersOK, HandlerSet, UpdatesOK
<1>4. Len(handler[c].lines) = 6
  BY <1>2, <1>3, AclReadsOn DEF SetUserReads
<1>5. Args(c)[1] = handler[c].lines[2] /\ Args(c)[2] = handler[c].lines[4] /\ Args(c)[3] = handler[c].lines[6]
  <2>1. \A i \in 1 .. Len(handler[c].lines) \div 2 : Args(c)[i] = handler[c].lines[2 * i]
    BY <1>3, ArgsFacts
  <2>2. \A i \in 1 .. 3 : Args(c)[i] = handler[c].lines[2 * i]
    BY <1>4, <2>1
  <2>3. 1 \in 1 .. 3 /\ 2 \in 1 .. 3 /\ 3 \in 1 .. 3 /\ 2 * 1 = 2 /\ 2 * 2 = 4 /\ 2 * 3 = 6
    OBVIOUS
  <2> QED
    BY <2>2, <2>3
<1>6. PICK u : u = [step |-> "append", seen |-> passwords, new |-> Secret[Args(c)[3]]]
  OBVIOUS
<1>7. update' = [update EXCEPT ![c] = u] /\ u.step = "append" /\ u.new = Secret[Args(c)[3]]
  BY <1>6 DEF SetUserReads
<1>8. update'[c] = u /\ \A d \in Conns : d # c => update'[d] = update[d]
  BY <1>7 DEF TypeInv, AccountOK
<1>9. GivesPassword(c)'
  BY <1>1, <1>2, <1>4, <1>5, <1>7, <1>8 DEF GivesPassword, SetUserReads
<1> QED
  BY <1>1, <1>3, <1>8, <1>9, UpdatesKept

\* Updates belong to SETUSERs: one goes on or ends.
LEMMA UpdatesUnderWay ==
  ASSUME TypeInv, UpdatesOK, NEW c \in Conns,
         SetUserAppends(c) \/ SetUserScans(c) \/ SetUserCuts(c)
  PROVE  UpdatesOK'
<1>1. update[c] \in UpdateSet /\ update[c] # NoUpdate
  BY NoUpdateType DEF TypeInv, AccountOK, SetUserAppends, SetUserScans, SetUserCuts
<1>2. GivesPassword(c)
  BY <1>1 DEF UpdatesOK
<1>3. ASSUME NEW s, s # "", update' = [update EXCEPT ![c].step = s], UNCHANGED handler
      PROVE  UpdatesOK'
  <2>1. /\ update'[c].step = s /\ update'[c].new = update[c].new
        /\ \A d \in Conns : d # c => update'[d] = update[d]
    BY <1>1, <1>3 DEF TypeInv, AccountOK, UpdateSet
  <2>2. GivesPassword(c)'
    BY <1>2, <1>3, <2>1 DEF GivesPassword
  <2>3. handler[c].name = "ACL" => Len(handler[c].lines) <= 6
    BY DEF UpdatesOK
  <2> QED
    BY <1>3, <2>1, <2>2, <2>3, UpdatesKept
<1>4. ASSUME update' = [update EXCEPT ![c] = NoUpdate], handler' = [handler EXCEPT ![c] = NoHandler]
      PROVE  UpdatesOK'
  <2>1. handler'[c] = NoHandler /\ \A d \in Conns : d # c => handler'[d] = handler[d]
    BY <1>4, HandlerOf
  <2>2. update'[c] = NoUpdate /\ \A d \in Conns : d # c => update'[d] = update[d]
    BY <1>4 DEF TypeInv, AccountOK
  <2>3. handler'[c].name # "ACL"
    BY <2>1, NoHandlerType
  <2> QED
    BY <2>1, <2>2, <2>3, UpdatesKept
<1>5. CASE SetUserAppends(c)
  BY <1>3, <1>5 DEF SetUserAppends, stream
<1>6. CASE SetUserScans(c)
  BY <1>3, <1>4, <1>6 DEF SetUserScans, Returns
<1>7. CASE SetUserCuts(c)
  BY <1>4, <1>7, UpdatesSame DEF SetUserCuts, Returns
<1> QED
  BY <1>5, <1>6, <1>7

\* No step takes an update from its SETUSER.
LEMMA UpdatesStep ==
  ASSUME TypeInv, UpdatesOK, [Next]_vars PROVE UpdatesOK'
<1>1. CASE UNCHANGED vars
  BY <1>1, UpdatesSame DEF vars, stream, account
<1>2. ASSUME NEW c \in Conns, Accept(c) \/ Client(c) PROVE UpdatesOK'
  BY <1>2, UpdatesSame DEF Client, Accept, Send, Close, account
<1>3. ASSUME NEW c \in Conns, Serve(c) PROVE UpdatesOK'
  <2>1. CASE \E n \in 1 .. Len(Text(c)) : Fill(c, n)
    BY <2>1, UpdatesSame DEF Fill, account
  <2>2. CASE ReadCommand(c) \/ ReadArgument(c) \/ EndOfFile(c)
    BY <2>2, UpdatesReadCommand, UpdatesReadArgument, UpdatesEndOfFile
  <2>3. CASE Simple(c) \/ SetAnswers(c) \/ SetOption(c) \/ SetDeadline(c) \/ AclReads(c) \/ Auth(c)
    BY <2>3, UpdatesSimple
  <2>4. CASE SetUserReads(c) \/ SetUserAppends(c) \/ SetUserScans(c) \/ SetUserCuts(c)
    BY <2>4, UpdatesSetUserReads, UpdatesUnderWay
  <2> QED
    BY <1>3, <2>1, <2>2, <2>3, <2>4 DEF Serve, Handle
<1> QED
  BY <1>1, <1>2, <1>3 DEF Next

\* The inductive invariant for types.
IInv == TypeInv /\ UpdatesOK

\* The inductive invariant has the types the runs check.
LEMMA IInvIsTypeOK == IInv => TypeOK
<1> SUFFICES ASSUME IInv PROVE TypeOK
  OBVIOUS
<1>1. \A c \in Conns : 0 <= read[c] /\ read[c] <= got[c] /\ got[c] <= sent[c]
  BY DEF IInv, TypeInv, StreamsOK
<1>2. \A c \in Conns : handler[c].name \in Names \union {"", "SET-OPTION", "PX"}
  BY DEF IInv, TypeInv, HandlersOK, HandlerSet
<1>3. \A c \in Conns : update[c].step \in {"", "append", "scan", "cut"}
  BY DEF IInv, TypeInv, AccountOK, UpdateSet
<1> QED
  BY <1>1, <1>2, <1>3 DEF IInv, TypeInv, StreamsOK, AccountOK, TypeOK

\* Invariant, for every set of connections and programs.
LEMMA IInvAlways == Spec => []IInv
<1>1. Init => IInv
  BY TypeInvInit DEF IInv
<1>2. IInv /\ [Next]_vars => IInv'
  BY TypeInvStep, UpdatesStep DEF IInv
<1> QED
  BY <1>1, <1>2, PTL DEF Spec

\* The state has its types: nobody reads what has not arrived or takes what has
\* not been sent, connections end after their clients have closed, and handlers
\* and SETUSERs are at one of their steps, for any connections and programs.
THEOREM TypeCorrect == Spec => []TypeOK
<1>1. IInv => TypeOK
  BY IInvIsTypeOK
<1> QED
  BY <1>1, IInvAlways, PTL

-----------------------------------------------------------------------------
(* The passwords.                                                          *)

\* The passwords in histories of commands: Acknowledged, as a set and as a fact.
AckOf(es) ==
  UNION {{Secret[e[4]] : e \in {x \in ToSet(es[c]) : SetsPassword(x)}} : c \in Conns}

GivenIn(es, p) ==
  \E c \in Conns : \E i \in 1 .. Len(es[c]) : SetsPassword(es[c][i]) /\ p = Secret[es[c][i][4]]

\* A password is acknowledged when a SETUSER in some history gives it.
LEMMA AckMember ==
  ASSUME NEW es \in [Conns -> Seq(Seq(Token))], NEW p
  PROVE  p \in AckOf(es) <=> GivenIn(es, p)
<1>1. \A c \in Conns : DOMAIN es[c] = 1 .. Len(es[c])
  BY LenProperties
<1>2. ASSUME NEW c \in Conns, NEW x
      PROVE  x \in ToSet(es[c]) <=> \E i \in 1 .. Len(es[c]) : x = es[c][i]
  BY <1>1, <1>2 DEF ToSet
<1>3. ASSUME p \in AckOf(es)
      PROVE  GivenIn(es, p)
  <2>1. PICK c \in Conns : p \in {Secret[e[4]] : e \in {x \in ToSet(es[c]) : SetsPassword(x)}}
    BY <1>3 DEF AckOf
  <2>2. PICK x \in ToSet(es[c]) : SetsPassword(x) /\ p = Secret[x[4]]
    BY <2>1
  <2>3. PICK i \in 1 .. Len(es[c]) : x = es[c][i]
    BY <1>2
  <2> QED
    BY <2>2, <2>3 DEF GivenIn
<1>4. ASSUME NEW c \in Conns, NEW i \in 1 .. Len(es[c]), SetsPassword(es[c][i]), p = Secret[es[c][i][4]]
      PROVE  p \in AckOf(es)
  <2>1. PICK x \in ToSet(es[c]) : x = es[c][i]
    BY <1>2
  <2>2. SetsPassword(x) /\ p = Secret[x[4]]
    BY <1>4, <2>1
  <2>3. p \in {Secret[e[4]] : e \in {y \in ToSet(es[c]) : SetsPassword(y)}}
    BY <2>2
  <2> QED
    BY <2>3 DEF AckOf
<1> QED
  BY <1>3, <1>4 DEF GivenIn

\* One more command carried out.
LEMMA AckGrows ==
  ASSUME NEW es \in [Conns -> Seq(Seq(Token))], NEW c \in Conns, NEW e \in Seq(Token)
  PROVE  /\ SetsPassword(e) => AckOf([es EXCEPT ![c] = Append(@, e)]) = AckOf(es) \union {Secret[e[4]]}
         /\ ~SetsPassword(e) => AckOf([es EXCEPT ![c] = Append(@, e)]) = AckOf(es)
<1>1. PICK l \in Seq(Seq(Token)) : l = es[c]
  OBVIOUS
<1>2. PICK n \in Nat : n = Len(l)
  BY LenProperties
<1>3. PICK m : m = Append(l, e)
  OBVIOUS
<1>4. m \in Seq(Seq(Token)) /\ Len(m) = n + 1 /\ m[n + 1] = e /\ \A i \in 1 .. n : m[i] = l[i]
  BY <1>2, <1>3, AppendProperties
<1>5. PICK fs : fs = [es EXCEPT ![c] = Append(@, e)]
  OBVIOUS
<1>6. fs \in [Conns -> Seq(Seq(Token))] /\ fs[c] = m /\ \A d \in Conns : d # c => fs[d] = es[d]
  BY <1>1, <1>3, <1>4, <1>5
<1>7. ASSUME NEW p PROVE p \in AckOf(fs) <=> p \in AckOf(es) \/ (SetsPassword(e) /\ p = Secret[e[4]])
  <2>1. ASSUME NEW d \in Conns, NEW i \in 1 .. Len(fs[d]), SetsPassword(fs[d][i]), p = Secret[fs[d][i][4]]
        PROVE  p \in AckOf(es) \/ (SetsPassword(e) /\ p = Secret[e[4]])
    <3>1. CASE d # c
      <4>1. GivenIn(es, p)
        BY <1>6, <2>1, <3>1 DEF GivenIn
      <4> QED
        BY <4>1, AckMember
    <3>2. CASE d = c /\ i = n + 1
      BY <1>4, <1>6, <2>1, <3>2
    <3>3. CASE d = c /\ i # n + 1
      <4>1. i \in 1 .. n
        BY <1>4, <1>6, <3>3
      <4>2. fs[d][i] = es[c][i] /\ i \in 1 .. Len(es[c])
        BY <1>1, <1>2, <1>4, <1>6, <3>3, <4>1
      <4> QED
        <5>1. GivenIn(es, p)
          BY <2>1, <4>2 DEF GivenIn
        <5> QED
          BY <5>1, AckMember
    <3> QED
      BY <3>1, <3>2, <3>3
  <2>2. ASSUME NEW d \in Conns, NEW i \in 1 .. Len(es[d]), SetsPassword(es[d][i]), p = Secret[es[d][i][4]]
        PROVE  p \in AckOf(fs)
    <3>1. CASE d # c
      <4>1. GivenIn(fs, p)
        BY <1>6, <2>2, <3>1 DEF GivenIn
      <4> QED
        BY <1>6, <4>1, AckMember
    <3>2. CASE d = c
      <4>1. i \in 1 .. n /\ i \in 1 .. n + 1
        BY <1>1, <1>2, <3>2
      <4>2. fs[d][i] = es[d][i] /\ i \in 1 .. Len(fs[d])
        BY <1>1, <1>4, <1>6, <3>2, <4>1
      <4>3. GivenIn(fs, p)
        BY <2>2, <4>2 DEF GivenIn
      <4> QED
        BY <1>6, <4>3, AckMember
    <3> QED
      BY <3>1, <3>2
  <2>3. ASSUME SetsPassword(e), p = Secret[e[4]] PROVE p \in AckOf(fs)
    <3>1. n + 1 \in 1 .. Len(fs[c]) /\ fs[c][n + 1] = e
      BY <1>4, <1>6
    <3>2. GivenIn(fs, p)
      BY <2>3, <3>1 DEF GivenIn
    <3> QED
      BY <1>6, <3>2, AckMember
  <2>4. p \in AckOf(fs) <=> GivenIn(fs, p)
    BY <1>6, AckMember
  <2>5. p \in AckOf(es) <=> GivenIn(es, p)
    BY AckMember
  <2> QED
    BY <2>1, <2>2, <2>3, <2>4, <2>5 DEF GivenIn
<1>8. PICK A : A = AckOf(es)
  OBVIOUS
<1>9. PICK B : B = AckOf(fs)
  OBVIOUS
<1>10. \A p : p \in B <=> p \in A \/ (SetsPassword(e) /\ p = Secret[e[4]])
  BY <1>7, <1>8, <1>9
<1>11. ASSUME SetsPassword(e) PROVE B = A \union {Secret[e[4]]}
  BY <1>10, <1>11
<1>12. ASSUME ~SetsPassword(e) PROVE B = A
  BY <1>10, <1>12
<1> QED
  BY <1>5, <1>8, <1>9, <1>11, <1>12

\* The arguments of a SETUSER under way, and the command it will have carried out.
LEMMA GivenCommand ==
  ASSUME TypeInv, NEW c \in Conns, handler[c].name \in Token
  PROVE  /\ <<handler[c].name>> \o Args(c) \in Seq(Token)
         /\ handler[c].name # "ACL" => ~SetsPassword(<<handler[c].name>> \o Args(c))
         /\ GivesPassword(c) => /\ SetsPassword(<<handler[c].name>> \o Args(c))
                                /\ Secret[(<<handler[c].name>> \o Args(c))[4]] = update[c].new
         /\ SetsPassword(<<handler[c].name>> \o Args(c)) =>
              Args(c)[1] = "SETUSER" /\ Args(c)[2] = Default /\ Args(c)[3] \in DOMAIN Secret
<1>1. handler[c].lines \in Seq(Token)
  BY DEF TypeInv, HandlersOK, HandlerSet
<1>2. PICK as \in Seq(Token) : as = Args(c)
  BY <1>1, ArgsFacts
<1>3. PICK e : e = <<handler[c].name>> \o as
  OBVIOUS
<1>4. e \in Seq(Token) /\ e[1] = handler[c].name
  BY <1>3, WordFacts
<1>5. Len(as) \in Nat /\ Len(e) = Len(as) + 1
  BY <1>3, WordFacts
<1>6. \A i \in 1 .. Len(as) : e[i + 1] = as[i]
  BY <1>3, WordFacts
<1>7. handler[c].name # "ACL" => ~SetsPassword(e)
  BY <1>4 DEF SetsPassword
<1>8. ASSUME GivesPassword(c) PROVE SetsPassword(e) /\ Secret[e[4]] = update[c].new
  <2>1. Len(handler[c].lines) = 6
    BY <1>8 DEF GivesPassword
  <2>2. PICK ls : ls = handler[c].lines
    OBVIOUS
  <2>3. PICK k \in Nat : k = Len(as)
    BY LenProperties
  <2>4. k = 3
    <3>1. Len(as) = Len(ls) \div 2
      BY <1>1, <1>2, <2>2, ArgsFacts
    <3>2. Len(as) = 6 \div 2
      BY <2>1, <2>2, <3>1
    <3> QED
      BY <2>3, <3>2
  <2>5. \A i \in 1 .. 3 : as[i] = ls[2 * i]
    <3>1. \A i \in 1 .. Len(ls) \div 2 : as[i] = ls[2 * i]
      BY <1>1, <1>2, <2>2, ArgsFacts
    <3>2. Len(ls) = 6
      BY <2>1, <2>2
    <3>3. \A i \in 1 .. 6 \div 2 : as[i] = ls[2 * i]
      BY <3>1, <3>2
    <3>4. 6 \div 2 = 3
      OBVIOUS
    <3>5. 1 .. 6 \div 2 = 1 .. 3
      BY <3>4
    <3> QED
      BY <3>3, <3>5, Zenon
  <2>6. \A i \in 1 .. 3 : e[i + 1] = ls[2 * i]
    BY <1>6, <2>3, <2>4, <2>5
  <2>7. e[2] = ls[2] /\ e[3] = ls[4] /\ e[4] = ls[6]
    <3>1. e[1 + 1] = ls[2 * 1] /\ e[2 + 1] = ls[2 * 2] /\ e[3 + 1] = ls[2 * 3]
      BY <2>6
    <3>2. 1 + 1 = 2 /\ 2 + 1 = 3 /\ 3 + 1 = 4 /\ 2 * 1 = 2 /\ 2 * 2 = 4 /\ 2 * 3 = 6
      OBVIOUS
    <3> QED
      BY <3>1, <3>2
  <2>8. Len(e) = 4
    BY <1>5, <2>3, <2>4
  <2> QED
    BY <1>4, <1>8, <2>2, <2>7, <2>8 DEF SetsPassword, GivesPassword
<1>9. ASSUME SetsPassword(e)
      PROVE  as[1] = "SETUSER" /\ as[2] = Default /\ as[3] \in DOMAIN Secret
  <2>1. Len(e) = 4
    BY <1>9 DEF SetsPassword
  <2>2. PICK k \in Nat : k = Len(as)
    BY <1>5
  <2>3. k + 1 = 4
    BY <1>5, <2>1, <2>2
  <2>4. k = 3
    BY <2>3
  <2>5. e[2] = as[1] /\ e[3] = as[2] /\ e[4] = as[3]
    <3>1. e[1 + 1] = as[1] /\ e[2 + 1] = as[2] /\ e[3 + 1] = as[3]
      <4>1. 1 \in 1 .. k /\ 2 \in 1 .. k /\ 3 \in 1 .. k
        BY <2>4
      <4>2. \A i \in 1 .. k : e[i + 1] = as[i]
        BY <1>6, <2>2
      <4> QED
        BY <4>1, <4>2
    <3>2. 1 + 1 = 2 /\ 2 + 1 = 3 /\ 3 + 1 = 4
      OBVIOUS
    <3> QED
      BY <3>1, <3>2
  <2> QED
    BY <1>9, <2>5 DEF SetsPassword
<1> QED
  BY <1>2, <1>3, <1>4, <1>7, <1>8, <1>9

\* Unless two SETUSERs have overlapped there is one at a time.
Alone ==
  ~overlap => \A c, d \in Conns : update[c] # NoUpdate /\ update[d] # NoUpdate => c = d

\* The password is in place and "nopass" may not have been looked for yet.
Stored(c) == update[c].step \in {"scan", "cut"}

\* Without "nopass" there is a password; with it there is none, or a SETUSER
\* that has stored one and has not looked yet.
FlagOK ==
  /\ \A c \in Conns : Stored(c) => passwords # <<>>
  /\ ~nopass => passwords # <<>>
  /\ up /\ passwords # <<>> /\ nopass => \E c \in Conns : Stored(c)

\* Until two SETUSERs overlap the passwords are the acknowledged ones and the
\* one that has been stored.
PasswordsOK ==
  up /\ ~overlap =>
    /\ (\A c \in Conns : ~Stored(c)) => ToSet(passwords) = Acknowledged
    /\ \A c \in Conns :
         /\ update[c].step = "append" => update[c].seen = passwords
         /\ Stored(c) => ToSet(passwords) = Acknowledged \union {update[c].new}
         /\ update[c].step = "cut" => nopass

\* What brings the server down.
DownOK ==
  up \/ overlap \/ \E c \in Conns : handler[c].name = "AUTH" /\ Args(c)[1] # Default

\* The inductive invariant for the account.
AccountInv == Alone /\ FlagOK /\ PasswordsOK /\ DownOK

\* Acknowledged is what the histories of all connections give.
LEMMA AcknowledgedIs == Acknowledged = AckOf(executed)
BY DEF Acknowledged, AckOf

\* A step that leaves the account and the acknowledged passwords alone.
LEMMA AccountUntouched ==
  ASSUME AccountInv, UNCHANGED <<up, passwords, nopass, update, overlap>>,
         Acknowledged' = Acknowledged, up \/ UNCHANGED handler
  PROVE  AccountInv'
<1>1. Alone'
  BY DEF AccountInv, Alone
<1>2. FlagOK'
  BY DEF AccountInv, FlagOK, Stored
<1>3. PasswordsOK'
  BY DEF AccountInv, PasswordsOK, Stored
<1>4. DownOK'
  BY DEF AccountInv, DownOK, Args
<1> QED
  BY <1>1, <1>2, <1>3, <1>4 DEF AccountInv

\* Carrying out a command acknowledges the password it gives, if it gives one.
LEMMA DoneAck ==
  ASSUME TypeInv, NEW c \in Conns, Done(c), handler[c].name \in Names
  PROVE  /\ ~SetsPassword(<<handler[c].name>> \o Args(c)) => Acknowledged' = Acknowledged
         /\ GivesPassword(c) => Acknowledged' = Acknowledged \union {update[c].new}
<1>1. PICK e : e = <<handler[c].name>> \o Args(c)
  OBVIOUS
<1>2. handler[c].name \in Token
  BY DEF Token
<1>3. e \in Seq(Token) /\ (GivesPassword(c) => SetsPassword(e) /\ Secret[e[4]] = update[c].new)
  BY <1>1, <1>2, GivenCommand
<1>4. executed \in [Conns -> Seq(Seq(Token))]
  BY DEF TypeInv, HandlersOK
<1>5. PICK fs : fs = [executed EXCEPT ![c] = Append(@, e)]
  OBVIOUS
<1>6. executed' = fs
  BY <1>1, <1>5 DEF Done
<1>7. Acknowledged' = AckOf(fs)
  BY <1>6 DEF Acknowledged, AckOf
<1>8. /\ SetsPassword(e) => AckOf(fs) = AckOf(executed) \union {Secret[e[4]]}
      /\ ~SetsPassword(e) => AckOf(fs) = AckOf(executed)
  <2>1. e \in Seq(Token)
    BY <1>3
  <2>2. /\ SetsPassword(e) =>
             AckOf([executed EXCEPT ![c] = Append(@, e)]) = AckOf(executed) \union {Secret[e[4]]}
        /\ ~SetsPassword(e) => AckOf([executed EXCEPT ![c] = Append(@, e)]) = AckOf(executed)
    <3>1. \A x \in Seq(Token) :
            /\ SetsPassword(x) =>
                 AckOf([executed EXCEPT ![c] = Append(@, x)]) = AckOf(executed) \union {Secret[x[4]]}
            /\ ~SetsPassword(x) => AckOf([executed EXCEPT ![c] = Append(@, x)]) = AckOf(executed)
      BY <1>4, AckGrows
    <3> QED
      BY <2>1, <3>1
  <2> QED
    BY <1>5, <2>2
<1> QED
  BY <1>1, <1>3, <1>7, <1>8, AcknowledgedIs

\* Nothing carried out, nothing acknowledged.
LEMMA SameExecuted == UNCHANGED executed => Acknowledged' = Acknowledged
BY DEF Acknowledged

\* The account, action by action: handlers that do not touch it.
LEMMA AccountSimple ==
  ASSUME TypeInv, AccountInv, NEW c \in Conns,
         Simple(c) \/ SetAnswers(c) \/ AclReads(c)
  PROVE  AccountInv'
<1>1. up /\ UNCHANGED <<up, account>> /\ Done(c) /\ handler[c].name \in Names
  BY DEF Simple, SetAnswers, AclReads, Ready, Names, TwoArguments
<1>2. handler[c].name \in Token
  BY <1>1 DEF Token
<1>3. ~SetsPassword(<<handler[c].name>> \o Args(c))
  <2>1. CASE Simple(c) \/ SetAnswers(c)
    <3>1. handler[c].name # "ACL"
      BY <2>1 DEF Simple, SetAnswers, Ready
    <3> QED
      BY <1>2, <3>1, GivenCommand
  <2>2. CASE AclReads(c)
    BY <1>2, <2>2, GivenCommand DEF AclReads
  <2> QED
    BY <2>1, <2>2
<1>4. Acknowledged' = Acknowledged
  BY <1>1, <1>3, DoneAck
<1> QED
  BY <1>1, <1>4, AccountUntouched DEF account

\* The account: a deadline makes no SETUSER of a SET.
LEMMA AccountDeadline ==
  ASSUME TypeInv, AccountInv, NEW c \in Conns, SetDeadline(c) PROVE AccountInv'
<1>1. up /\ UNCHANGED <<up, account>>
  BY DEF SetDeadline, Ready
<1>2. PICK l \in Seq(Seq(Token)) : l = executed[c]
  BY DEF TypeInv, HandlersOK
<1>3. PICK m \in Seq(Seq(Token)) : m = executed'[c]
  BY DeadlineAdded
<1>4. PICK k \in Nat \ {0} : k = Len(l) /\ k = Len(m)
  BY <1>2, <1>3, DeadlineAdded
<1>5. (\A i \in 1 .. k - 1 : m[i] = l[i]) /\ m[k][1] = "SET" /\ l[k][1] = "SET"
  <2>1. \A i \in 1 .. k - 1 : m[i] = l[i]
    BY <1>2, <1>3, <1>4, DeadlineAdded
  <2>2. m[k][1] = "SET"
    BY <1>2, <1>3, <1>4, DeadlineAdded
  <2>3. l[k][1] = "SET"
    BY <1>2, <1>4 DEF TypeInv, HandlersOK, SetDeadline, Ready, AnsweredSet
  <2> QED
    BY <2>1, <2>2, <2>3
<1>6. \A i \in 1 .. k : /\ SetsPassword(m[i]) <=> SetsPassword(l[i])
                        /\ SetsPassword(m[i]) => m[i] = l[i]
  <2>1. ~SetsPassword(m[k]) /\ ~SetsPassword(l[k])
    BY <1>5 DEF SetsPassword
  <2>2. \A i \in 1 .. k : i = k \/ i \in 1 .. k - 1
    OBVIOUS
  <2> QED
    BY <1>5, <2>1, <2>2
<1>7. PICK fs : fs = executed'
  OBVIOUS
<1>8. /\ fs \in [Conns -> Seq(Seq(Token))] /\ executed \in [Conns -> Seq(Seq(Token))]
      /\ fs[c] = m /\ \A d \in Conns : d # c => fs[d] = executed[d]
  <2>1. executed' = [executed EXCEPT ![c] = m]
    BY <1>3, DeadlineAdded
  <2> QED
    BY <1>7, <2>1 DEF TypeInv, HandlersOK
<1>9. ASSUME NEW p PROVE GivenIn(fs, p) <=> GivenIn(executed, p)
  <2>1. ASSUME NEW d \in Conns
        PROVE  (\E i \in 1 .. Len(fs[d]) : SetsPassword(fs[d][i]) /\ p = Secret[fs[d][i][4]]) <=>
               (\E i \in 1 .. Len(executed[d]) : SetsPassword(executed[d][i]) /\ p = Secret[executed[d][i][4]])
    <3>1. CASE d = c
      <4>1. fs[d] = m /\ executed[d] = l /\ Len(m) = k /\ Len(l) = k
        BY <1>2, <1>4, <1>8, <3>1
      <4>2. (\E i \in 1 .. k : SetsPassword(m[i]) /\ p = Secret[m[i][4]]) <=>
            (\E i \in 1 .. k : SetsPassword(l[i]) /\ p = Secret[l[i][4]])
        BY <1>6
      <4> QED
        BY <4>1, <4>2
    <3>2. CASE d # c
      BY <1>8, <3>2
    <3> QED
      BY <3>1, <3>2
  <2> QED
    BY <2>1 DEF GivenIn
<1>10. AckOf(fs) = AckOf(executed)
  <2>1. \A p : p \in AckOf(fs) <=> p \in AckOf(executed)
    BY <1>8, <1>9, AckMember
  <2>2. PICK A : A = AckOf(fs)
    OBVIOUS
  <2>3. PICK B : B = AckOf(executed)
    OBVIOUS
  <2>4. A = B
    BY <2>1, <2>2, <2>3
  <2> QED
    BY <2>2, <2>3, <2>4
<1>11. Acknowledged' = AckOf(fs)
  BY <1>7 DEF Acknowledged, AckOf
<1>12. Acknowledged' = Acknowledged
  BY <1>10, <1>11, AcknowledgedIs
<1> QED
  BY <1>1, <1>12, AccountUntouched DEF account

\* The account: AUTH reads it, and brings the server down for an unknown user.
LEMMA AccountAuth ==
  ASSUME TypeInv, AccountInv, NEW c \in Conns, Auth(c) PROVE AccountInv'
<1>1. up /\ UNCHANGED <<passwords, nopass, update, overlap>> /\ handler[c].name = "AUTH"
  BY DEF Auth, Ready, account
<1>2. CASE Args(c)[1] = Default
  <2>1. Done(c) /\ up' = up
    BY <1>2 DEF Auth
  <2>2. handler[c].name \in Names /\ handler[c].name \in Token
    BY <1>1 DEF Names, TwoArguments, Token
  <2>3. Acknowledged' = Acknowledged
    BY <1>1, <2>1, <2>2, GivenCommand, DoneAck
  <2> QED
    BY <1>1, <2>1, <2>3, AccountUntouched
<1>3. CASE Args(c)[1] # Default
  <2>1. up' = FALSE /\ handler' = handler
    BY <1>3 DEF Auth
  <2>2. Alone'
    BY <1>1 DEF AccountInv, Alone
  <2>3. FlagOK'
    BY <1>1, <2>1 DEF AccountInv, FlagOK, Stored
  <2>4. PasswordsOK'
    BY <2>1 DEF PasswordsOK
  <2>5. DownOK'
    <3>1. Args(c)' = Args(c)
      BY <2>1 DEF Args
    <3> QED
      BY <1>1, <1>3, <2>1, <3>1 DEF DownOK
  <2> QED
    BY <2>2, <2>3, <2>4, <2>5 DEF AccountInv
<1> QED
  BY <1>2, <1>3

\* The account: SETUSER reads the slice of passwords.
LEMMA AccountSetUserReads ==
  ASSUME TypeInv, AccountInv, NEW c \in Conns, SetUserReads(c) PROVE AccountInv'
<1>1. up /\ UNCHANGED <<up, handler, executed, passwords, nopass>> /\ update[c] = NoUpdate
  BY DEF SetUserReads, Ready, stream
<1>2. PICK u : u = [step |-> "append", seen |-> passwords, new |-> Secret[Args(c)[3]]]
  OBVIOUS
<1>3. /\ update'[c] = u /\ u.step = "append" /\ u.seen = passwords
      /\ \A d \in Conns : d # c => update'[d] = update[d]
  BY <1>2 DEF SetUserReads, TypeInv, AccountOK
<1>4. \A d \in Conns : Stored(d)' <=> Stored(d)
  BY <1>1, <1>3, NoUpdateType DEF Stored
<1>5. ~overlap' => ~overlap /\ \A d \in Conns : update[d] = NoUpdate
  BY DEF SetUserReads
<1>6. Alone'
  <2>1. NoUpdate' = NoUpdate
    OBVIOUS
  <2> QED
    BY <1>3, <1>5, <2>1 DEF Alone
<1>7. FlagOK'
  BY <1>1, <1>4 DEF AccountInv, FlagOK
<1>8. Acknowledged' = Acknowledged
  BY <1>1, SameExecuted
<1>9. PasswordsOK'
  <2>1. SUFFICES ASSUME ~overlap' PROVE PasswordsOK'
    BY DEF PasswordsOK
  <2>2. \A d \in Conns : ~Stored(d)
    BY <1>5, <2>1, NoUpdateType DEF Stored
  <2>3. ToSet(passwords) = Acknowledged
    BY <1>1, <1>5, <2>1, <2>2 DEF AccountInv, PasswordsOK
  <2>4. ToSet(passwords)' = ToSet(passwords)
    BY <1>1
  <2>5. \A d \in Conns : ~Stored(d)' /\ update'[d].step # "cut"
    BY <1>4, <2>2 DEF Stored
  <2>6. \A d \in Conns : update'[d].step = "append" => update'[d].seen = passwords'
    BY <1>1, <1>3, <1>5, <2>1, NoUpdateType
  <2> QED
    BY <1>1, <1>8, <2>3, <2>4, <2>5, <2>6 DEF PasswordsOK
<1>10. DownOK'
  BY <1>1 DEF DownOK
<1> QED
  BY <1>6, <1>7, <1>9, <1>10 DEF AccountInv

\* What is in a sequence with one more element.
LEMMA OneMore ==
  ASSUME NEW s \in Seq(Token), NEW e \in Token
  PROVE  Append(s, e) # <<>> /\ ToSet(Append(s, e)) = ToSet(s) \union {e}
<1>1. PICK n \in Nat : n = Len(s)
  BY LenProperties
<1>2. PICK t : t = Append(s, e)
  OBVIOUS
<1>3. t \in Seq(Token) /\ Len(t) = n + 1 /\ t[n + 1] = e /\ \A i \in 1 .. n : t[i] = s[i]
  BY <1>1, <1>2, AppendProperties
<1>4. t # <<>>
  BY <1>3, EmptySeq
<1>5. DOMAIN t = 1 .. n + 1 /\ DOMAIN s = 1 .. n
  BY <1>1, <1>3, LenProperties
<1>6. ToSet(t) = {t[i] : i \in 1 .. n + 1} /\ ToSet(s) = {s[i] : i \in 1 .. n}
  BY <1>5 DEF ToSet
<1>7. {t[i] : i \in 1 .. n + 1} = {s[i] : i \in 1 .. n} \union {e}
  <2>1. \A i \in 1 .. n + 1 : i = n + 1 \/ i \in 1 .. n
    OBVIOUS
  <2>2. n + 1 \in 1 .. n + 1 /\ \A i \in 1 .. n : i \in 1 .. n + 1
    OBVIOUS
  <2> QED
    BY <1>3, <2>1, <2>2
<1> QED
  BY <1>2, <1>4, <1>6, <1>7

\* The account: SETUSER assigns the slice it read with one password more.
LEMMA AccountSetUserAppends ==
  ASSUME TypeInv, AccountInv, NEW c \in Conns, SetUserAppends(c) PROVE AccountInv'
<1>1. up /\ UNCHANGED <<up, handler, executed, nopass, overlap>> /\ update[c].step = "append"
  BY DEF SetUserAppends, stream
<1>2. update[c] \in UpdateSet /\ update[c] # NoUpdate
  BY <1>1, NoUpdateType DEF TypeInv, AccountOK
<1>3. /\ update'[c].step = "scan" /\ update'[c].new = update[c].new /\ update'[c].seen = update[c].seen
      /\ \A d \in Conns : d # c => update'[d] = update[d]
  BY <1>2 DEF SetUserAppends, TypeInv, AccountOK, UpdateSet
<1>4. passwords' # <<>> /\ ToSet(passwords') = ToSet(update[c].seen) \union {update[c].new}
  BY <1>2, OneMore DEF SetUserAppends, Appended, UpdateSet
<1>5. Alone'
  <2>1. \A d \in Conns : update'[d] # NoUpdate => update[d] # NoUpdate
    BY <1>2, <1>3
  <2>2. NoUpdate' = NoUpdate
    OBVIOUS
  <2> QED
    BY <1>1, <2>1, <2>2 DEF AccountInv, Alone
<1>6. FlagOK'
  <2>1. Stored(c)'
    BY <1>3 DEF Stored
  <2> QED
    BY <1>4, <2>1 DEF FlagOK
<1>7. Acknowledged' = Acknowledged
  BY <1>1, SameExecuted
<1>8. PasswordsOK'
  <2>1. SUFFICES ASSUME ~overlap PROVE PasswordsOK'
    BY <1>1 DEF PasswordsOK
  <2>2. \A d \in Conns : d # c => update[d] = NoUpdate
    BY <1>2, <2>1 DEF AccountInv, Alone
  <2>3. \A d \in Conns : ~Stored(d)
    BY <1>1, <2>2, NoUpdateType DEF Stored
  <2>4. update[c].seen = passwords /\ ToSet(passwords) = Acknowledged
    BY <1>1, <2>1, <2>3 DEF AccountInv, PasswordsOK
  <2>5. ToSet(passwords)' = Acknowledged \union {update[c].new}
    <3>1. ToSet(passwords)' = ToSet(passwords')
      OBVIOUS
    <3> QED
      BY <1>4, <2>4, <3>1
  <2>6. \A d \in Conns : d # c => update'[d].step = ""
    BY <1>3, <2>2, NoUpdateType
  <2>7. Stored(c)' /\ \A d \in Conns : d # c => ~Stored(d)'
    BY <1>3, <2>6 DEF Stored
  <2>8. update'[c].step = "scan" /\ update'[c].new = update[c].new
    BY <1>3
  <2> QED
    BY <1>7, <2>5, <2>6, <2>7, <2>8 DEF PasswordsOK
<1>9. DownOK'
  BY <1>1 DEF DownOK
<1> QED
  BY <1>5, <1>6, <1>8, <1>9 DEF AccountInv

\* A SETUSER answers.
LEMMA AccountGiven ==
  ASSUME TypeInv, UpdatesOK, AccountInv, NEW c \in Conns, Stored(c), up,
         update' = [update EXCEPT ![c] = NoUpdate], Done(c),
         UNCHANGED <<up, passwords, overlap>>, nopass' = FALSE
  PROVE  AccountInv'
<1>1. update[c] # NoUpdate
  BY NoUpdateType DEF Stored
<1>2. GivesPassword(c)
  BY <1>1 DEF UpdatesOK
<1>3. handler[c].name \in Names
  BY <1>2 DEF GivesPassword, Names
<1>4. Acknowledged' = Acknowledged \union {update[c].new}
  BY <1>2, <1>3, DoneAck
<1>5. update'[c] = NoUpdate /\ \A d \in Conns : d # c => update'[d] = update[d]
  BY DEF TypeInv, AccountOK
<1>6. \A d \in Conns : d # c => (Stored(d)' <=> Stored(d))
  BY <1>5 DEF Stored
<1>7. ~Stored(c)'
  BY <1>5, NoUpdateType DEF Stored
<1>8. passwords # <<>>
  BY DEF AccountInv, FlagOK
<1>9. Alone'
  <2>1. NoUpdate' = NoUpdate
    OBVIOUS
  <2>2. \A d \in Conns : update'[d] # NoUpdate => update[d] # NoUpdate
    BY <1>1, <1>5
  <2> QED
    BY <2>1, <2>2 DEF AccountInv, Alone
<1>10. FlagOK'
  BY <1>8 DEF FlagOK
<1>11. PasswordsOK'
  <2>1. SUFFICES ASSUME ~overlap PROVE PasswordsOK'
    BY DEF PasswordsOK
  <2>2. \A d \in Conns : d # c => update[d] = NoUpdate
    BY <1>1, <2>1 DEF AccountInv, Alone
  <2>3. ToSet(passwords) = Acknowledged \union {update[c].new}
    BY <2>1 DEF AccountInv, PasswordsOK
  <2>4. \A d \in Conns : update'[d] = NoUpdate
    BY <1>5, <2>2
  <2>5. \A d \in Conns : update'[d].step = "" /\ ~Stored(d)'
    BY <2>4, NoUpdateType DEF Stored
  <2>6. ToSet(passwords)' = Acknowledged'
    BY <1>4, <2>3
  <2> QED
    BY <2>5, <2>6 DEF PasswordsOK
<1>12. DownOK'
  BY DEF DownOK
<1> QED
  BY <1>9, <1>10, <1>11, <1>12 DEF AccountInv

\* The account: SETUSER answers at once where "nopass" is gone.
LEMMA AccountSetUserScans ==
  ASSUME TypeInv, UpdatesOK, AccountInv, NEW c \in Conns, SetUserScans(c) PROVE AccountInv'
<1>1. up /\ UNCHANGED <<up, passwords, nopass, overlap>> /\ update[c].step = "scan" /\ Stored(c)
  BY DEF SetUserScans, Stored
<1>2. nopass \in BOOLEAN /\ update[c] \in UpdateSet
  BY DEF TypeInv, AccountOK
<1>3. CASE ~nopass
  <2>1. update' = [update EXCEPT ![c] = NoUpdate] /\ Done(c) /\ nopass' = FALSE
    BY <1>2, <1>3 DEF SetUserScans
  <2> QED
    BY <1>1, <2>1, AccountGiven
<1>4. CASE nopass
  <2>1. update' = [update EXCEPT ![c].step = "cut"] /\ UNCHANGED <<handler, executed>>
    BY <1>4 DEF SetUserScans
  <2>2. /\ update'[c].step = "cut" /\ update'[c].new = update[c].new
        /\ \A d \in Conns : d # c => update'[d] = update[d]
    BY <1>2, <2>1 DEF TypeInv, AccountOK, UpdateSet
  <2>3. \A d \in Conns : Stored(d)' <=> Stored(d)
    BY <1>1, <2>2 DEF Stored
  <2>4. Alone'
    <3>1. NoUpdate' = NoUpdate
      OBVIOUS
    <3>2. \A d \in Conns : update'[d] # NoUpdate => update[d] # NoUpdate
      BY <1>1, <2>2, NoUpdateType
    <3> QED
      BY <1>1, <3>1, <3>2 DEF AccountInv, Alone
  <2>5. FlagOK'
    BY <1>1, <2>3 DEF AccountInv, FlagOK
  <2>6. Acknowledged' = Acknowledged
    BY <2>1, SameExecuted
  <2>7. PasswordsOK'
    <3>1. SUFFICES ASSUME ~overlap PROVE PasswordsOK'
      BY <1>1 DEF PasswordsOK
    <3>2. ToSet(passwords)' = ToSet(passwords)
      BY <1>1
    <3>3. \A d \in Conns : Stored(d) => ToSet(passwords) = Acknowledged \union {update[d].new}
      BY <1>1, <3>1 DEF AccountInv, PasswordsOK
    <3>4. \A d \in Conns : update'[d].new = update[d].new
      BY <2>2
    <3>5. \A d \in Conns : update'[d].step = "append" => update'[d].seen = passwords
      BY <1>1, <2>2, <3>1 DEF AccountInv, PasswordsOK
    <3>6. Stored(c)'
      BY <1>1, <2>3
    <3> QED
      BY <1>1, <1>4, <2>3, <2>6, <3>2, <3>3, <3>4, <3>5, <3>6 DEF PasswordsOK
  <2>8. DownOK'
    BY <1>1 DEF DownOK
  <2> QED
    BY <2>4, <2>5, <2>7, <2>8 DEF AccountInv
<1> QED
  BY <1>3, <1>4

\* The account: SETUSER removes "nopass"; a second one finds it gone and panics.
LEMMA AccountSetUserCuts ==
  ASSUME TypeInv, UpdatesOK, AccountInv, NEW c \in Conns, SetUserCuts(c) PROVE AccountInv'
<1>1. up /\ UNCHANGED <<passwords, overlap>> /\ update[c].step = "cut" /\ Stored(c)
  BY DEF SetUserCuts, Stored
<1>2. CASE nopass
  <2>1. /\ update' = [update EXCEPT ![c] = NoUpdate] /\ Done(c) /\ nopass' = FALSE
        /\ up' = up
    BY <1>2 DEF SetUserCuts
  <2> QED
    BY <1>1, <2>1, AccountGiven
<1>3. CASE ~nopass
  <2>1. up' = FALSE /\ UNCHANGED <<nopass, update>>
    BY <1>3 DEF SetUserCuts
  <2>2. overlap
    BY <1>1, <1>3 DEF AccountInv, PasswordsOK
  <2>3. Alone' /\ DownOK'
    BY <1>1, <2>2 DEF Alone, DownOK
  <2>4. FlagOK'
    BY <1>1, <2>1 DEF AccountInv, FlagOK, Stored
  <2>5. PasswordsOK'
    BY <2>1 DEF PasswordsOK
  <2> QED
    BY <2>3, <2>4, <2>5 DEF AccountInv
<1> QED
  BY <1>2, <1>3

\* No step breaks the account.
LEMMA AccountStep ==
  ASSUME TypeInv, UpdatesOK, AccountInv, [Next]_vars PROVE AccountInv'
<1>1. CASE UNCHANGED vars
  BY <1>1, AccountUntouched, SameExecuted DEF vars, stream, account
<1>2. ASSUME NEW c \in Conns, Accept(c) \/ Client(c) PROVE AccountInv'
  <2>1. UNCHANGED <<up, passwords, nopass, update, overlap, handler, executed>>
    BY <1>2 DEF Client, Accept, Send, Close, account
  <2> QED
    BY <2>1, AccountUntouched, SameExecuted
<1>3. ASSUME NEW c \in Conns, Serve(c) PROVE AccountInv'
  <2>1. CASE (\E n \in 1 .. Len(Text(c)) : Fill(c, n)) \/ ReadCommand(c) \/ ReadArgument(c) \/ EndOfFile(c)
    <3>1. up /\ UNCHANGED <<up, passwords, nopass, update, overlap, executed>>
      BY <2>1 DEF Fill, ReadCommand, ReadArgument, EndOfFile, account
    <3> QED
      BY <3>1, AccountUntouched, SameExecuted
  <2>2. CASE SetOption(c)
    <3>1. up /\ UNCHANGED <<up, passwords, nopass, update, overlap, executed>>
      BY <2>2 DEF SetOption, Ready, account
    <3> QED
      BY <3>1, AccountUntouched, SameExecuted
  <2>3. CASE Simple(c) \/ SetAnswers(c) \/ SetDeadline(c) \/ AclReads(c) \/ Auth(c)
    BY <2>3, AccountSimple, AccountDeadline, AccountAuth
  <2>4. CASE SetUserReads(c) \/ SetUserAppends(c) \/ SetUserScans(c) \/ SetUserCuts(c)
    BY <2>4, AccountSetUserReads, AccountSetUserAppends, AccountSetUserScans, AccountSetUserCuts
  <2> QED
    BY <1>3, <2>1, <2>2, <2>3, <2>4 DEF Serve, Handle
<1> QED
  BY <1>1, <1>2, <1>3 DEF Next

\* No password, and "nopass".
LEMMA AccountInit == Init => AccountInv
<1> SUFFICES ASSUME Init PROVE AccountInv
  OBVIOUS
<1>1. up = TRUE /\ passwords = <<>> /\ nopass = TRUE /\ executed = [c \in Conns |-> <<>>]
  BY DEF Init
<1>2. \A c \in Conns : update[c] = NoUpdate /\ update[c].step = "" /\ ~Stored(c)
  BY NoUpdateType DEF Init, Stored
<1>3. Alone /\ FlagOK /\ DownOK
  BY <1>1, <1>2 DEF Alone, FlagOK, DownOK
<1>4. ToSet(passwords) = {}
  BY <1>1 DEF ToSet
<1>5. Acknowledged = {}
  <2>1. executed \in [Conns -> Seq(Seq(Token))] /\ \A c \in Conns : Len(executed[c]) = 0
    BY <1>1, EmptySeq
  <2>2. ASSUME NEW p, p \in AckOf(executed) PROVE FALSE
    <3>1. GivenIn(executed, p)
      BY <2>1, <2>2, AckMember
    <3>2. PICK c \in Conns : \E i \in 1 .. Len(executed[c]) : TRUE
      BY <3>1 DEF GivenIn
    <3>3. Len(executed[c]) = 0
      BY <2>1
    <3> QED
      BY <3>2, <3>3
  <2>3. AckOf(executed) = {}
    BY <2>2
  <2> QED
    BY <2>3, AcknowledgedIs
<1>6. PasswordsOK
  BY <1>2, <1>4, <1>5 DEF PasswordsOK
<1> QED
  BY <1>3, <1>6 DEF AccountInv

\* The account between SETUSERs, and what brings the server down.
LEMMA AccountInvIsAccountKept == TypeInv /\ AccountInv => AccountKept
<1> SUFFICES ASSUME TypeInv, AccountInv PROVE AccountKept
  OBVIOUS
<1>1. ASSUME up, \A c \in Conns : update[c] = NoUpdate
      PROVE  (nopass <=> passwords = <<>>) /\ (overlap \/ ToSet(passwords) = Acknowledged)
  <2>1. \A c \in Conns : ~Stored(c)
    BY <1>1, NoUpdateType DEF Stored
  <2>2. nopass <=> passwords = <<>>
    BY <1>1, <2>1 DEF AccountInv, FlagOK
  <2>3. overlap \/ ToSet(passwords) = Acknowledged
    BY <1>1, <2>1 DEF AccountInv, PasswordsOK
  <2> QED
    BY <2>2, <2>3
<1>2. DownOK
  BY DEF AccountInv
<1> QED
  BY <1>1, <1>2 DEF AccountKept, DownOK

\* Between SETUSERs the flag "nopass" says whether there is no password, and every
\* acknowledged password is there unless two SETUSERs have overlapped; only those,
\* or an AUTH that names an unknown user, bring the server down.  For any number
\* of connections, whatever they send.
THEOREM PasswordsKept == Spec => []AccountKept
<1>1. Init => TypeInv /\ UpdatesOK /\ AccountInv
  BY TypeInvInit, AccountInit
<1>2. TypeInv /\ UpdatesOK /\ AccountInv /\ [Next]_vars => (TypeInv /\ UpdatesOK /\ AccountInv)'
  BY TypeInvStep, UpdatesStep, AccountStep
<1>3. TypeInv /\ UpdatesOK /\ AccountInv => AccountKept
  BY AccountInvIsAccountKept
<1> QED
  BY <1>1, <1>2, <1>3, PTL DEF Spec

-----------------------------------------------------------------------------
(* Command by command.                                                     *)

\* The command after the first n.
Cmd(c, n) == program[c][n + 1]

\* ReadString stands j lines behind the end of the first n commands.
At(c, n, j) == read[c] = End(c, n) + j

\* What the handler has read begins behind line k.
ReadFrom(c, k) == \A i \in 1 .. Len(handler[c].lines) : handler[c].lines[i] = Text(c)[k + i]

\* serveCommands looks for a command: n are done, and of the next the lengths
\* may have been skipped.
Between(c, n) ==
  /\ handler[c] = NoHandler /\ executed[c] = SubSeq(program[c], 1, n)
  /\ \E j \in 0 .. 2 : At(c, n, j) /\ (j > 0 => n < Len(program[c]))

\* A handler reads the next command, and no further; SET up to its answer.
Reading(c, n) ==
  /\ n < Len(program[c]) /\ handler[c].name = Cmd(c, n)[1]
  /\ executed[c] = SubSeq(program[c], 1, n)
  /\ At(c, n, 3 + Len(handler[c].lines)) /\ ReadFrom(c, End(c, n) + 3)
  /\ Len(handler[c].lines) <= 2 * (Len(Cmd(c, n)) - 1)
  /\ handler[c].name = "SET" => Len(handler[c].lines) <= 4

\* The SET that has been answered has an option: PX is read, then its deadline.
Option(c, n) ==
  /\ n < Len(program[c]) /\ Cmd(c, n)[1] = "SET" /\ Len(Cmd(c, n)) = 5
  /\ executed[c] = Append(SubSeq(program[c], 1, n), SubSeq(Cmd(c, n), 1, 3))
  /\ Len(handler[c].lines) <= 2
  /\ \E b \in {7, 9} :
       /\ handler[c].name = IF b = 7 THEN "SET-OPTION" ELSE "PX"
       /\ At(c, n, b + Len(handler[c].lines)) /\ ReadFrom(c, End(c, n) + b)

\* While every read has brought one command, the reader has taken no more than
\* the one that is read next.
WithinOne(c, n) ==
  c \in whole => \/ got[c] = End(c, n)
                 \/ n < Len(program[c]) /\ got[c] = End(c, n + 1)

\* Where a connection stands, and that a dependable one stands somewhere.
Somewhere(c, n) == WithinOne(c, n) /\ (Between(c, n) \/ Reading(c, n) \/ Option(c, n))
Exact(c) == Dependable(c) => \E n \in 0 .. Len(program[c]) : Somewhere(c, n)

ExactInv ==
  /\ \A c \in Conns : Exact(c)
  /\ \A c \in closed : sent[c] = Len(Text(c))

\* The arguments a handler reads whatever is buffered.
LEMMA NeededValues ==
  ASSUME NEW name, NEW args
  PROVE  /\ name \in NoArgument => Needed(name, args) = 0
         /\ name \in OneArgument \union {"SET-OPTION", "PX", "RPUSH", "LPUSH", "LPOP", "GEOPOS"} =>
              Needed(name, args) = 1
         /\ name \in TwoArguments => Needed(name, args) = 2
         /\ name \in ThreeArguments => Needed(name, args) = 3
         /\ name = "GEOADD" => Needed(name, args) = 4
         /\ name = "GEOSEARCH" => Needed(name, args) = 7
<1> USE DEF NoArgument, OneArgument, TwoArguments, ThreeArguments
<1>1. name \in NoArgument => Needed(name, args) = 0
  BY DEF Needed
<1>2. name \in OneArgument \union {"SET-OPTION", "PX", "RPUSH", "LPUSH", "LPOP", "GEOPOS"} =>
        Needed(name, args) = 1
  BY DEF Needed
<1>3. name \in TwoArguments => Needed(name, args) = 2
  BY DEF Needed
<1>4. name \in ThreeArguments => Needed(name, args) = 3
  BY DEF Needed
<1>5. name = "GEOADD" => Needed(name, args) = 4
  BY DEF Needed
<1>6. name = "GEOSEARCH" => Needed(name, args) = 7
  BY DEF Needed
<1> QED
  BY <1>1, <1>2, <1>3, <1>4, <1>5, <1>6

\* All but ACL need as many arguments whatever these are; ACL's first decides.
LEMMA NeededFixed ==
  ASSUME NEW name \in Names, NEW as, NEW bs,
         name = "ACL" => as # <<>> /\ bs # <<>> /\ as[1] = bs[1]
  PROVE  Needed(name, as) = Needed(name, bs) /\ Needed(name, as) \in Nat
<1>1. CASE name = "ACL"
  <2>1. as # <<>> /\ bs # <<>> /\ as[1] = bs[1]
    BY <1>1
  <2>2. /\ "ACL" \notin NoArgument /\ "ACL" \notin TwoArguments /\ "ACL" \notin ThreeArguments
        /\ "ACL" \notin OneArgument \union {"SET-OPTION", "PX", "RPUSH", "LPUSH", "LPOP", "GEOPOS"}
        /\ "ACL" # "GEOADD" /\ "ACL" # "GEOSEARCH"
    BY DEF NoArgument, OneArgument, TwoArguments, ThreeArguments
  <2> DEFINE A(x) == IF x = <<>> \/ x[1] = "WHOAMI" THEN 1
                     ELSE IF x[1] = "GETUSER" THEN 2
                     ELSE IF x[1] = "SETUSER" THEN 3 ELSE 1
  <2>3. Needed("ACL", as) = A(as) /\ Needed("ACL", bs) = A(bs)
    BY <2>2 DEF Needed
  <2>4. A(as) = A(bs) /\ A(as) \in Nat
    BY <2>1
  <2> QED
    BY <1>1, <2>3, <2>4
<1>2. CASE name # "ACL"
  <2>1. \/ name \in NoArgument
        \/ name \in OneArgument \union {"SET-OPTION", "PX", "RPUSH", "LPUSH", "LPOP", "GEOPOS"}
        \/ name \in TwoArguments
        \/ name \in ThreeArguments
        \/ name = "GEOADD"
        \/ name = "GEOSEARCH"
    BY <1>2 DEF Names, WhileBuffered
  <2>2. CASE name \in NoArgument
    <3>1. Needed(name, as) = 0 /\ Needed(name, bs) = 0
      BY <2>2, NeededValues
    <3> QED
      BY <3>1
  <2>3. CASE name \in OneArgument \union {"SET-OPTION", "PX", "RPUSH", "LPUSH", "LPOP", "GEOPOS"}
    <3>1. Needed(name, as) = 1 /\ Needed(name, bs) = 1
      BY <2>3, NeededValues
    <3> QED
      BY <3>1
  <2>4. CASE name \in TwoArguments
    <3>1. Needed(name, as) = 2 /\ Needed(name, bs) = 2
      BY <2>4, NeededValues
    <3> QED
      BY <3>1
  <2>5. CASE name \in ThreeArguments
    <3>1. Needed(name, as) = 3 /\ Needed(name, bs) = 3
      BY <2>5, NeededValues
    <3> QED
      BY <3>1
  <2>6. CASE name = "GEOADD"
    <3>1. Needed(name, as) = 4 /\ Needed(name, bs) = 4
      BY <2>6, NeededValues
    <3> QED
      BY <3>1
  <2>7. CASE name = "GEOSEARCH"
    <3>1. Needed(name, as) = 7 /\ Needed(name, bs) = 7
      BY <2>7, NeededValues
    <3> QED
      BY <3>1
  <2> QED
    BY <2>1, <2>2, <2>3, <2>4, <2>5, <2>6, <2>7
<1> QED
  BY <1>1, <1>2

\* The text of the command that starts after n others.
LEMMA CommandText ==
  ASSUME program \in Programs, WholeCommands, NEW c \in Conns,
         NEW n \in 0 .. Len(program[c]), n < Len(program[c])
  PROVE  /\ Cmd(c, n) \in Seq(Token) /\ Len(Cmd(c, n)) \in Nat /\ Complete(Cmd(c, n))
         /\ End(c, n) \in Nat /\ End(c, n + 1) \in Nat
         /\ End(c, n + 1) = End(c, n) + 2 * Len(Cmd(c, n)) + 1
         /\ n + 1 \in 0 .. Len(program[c])
         /\ Text(c)[End(c, n) + 1] = "*" /\ Text(c)[End(c, n) + 2] = "$"
         /\ \A i \in 1 .. Len(Cmd(c, n)) : Text(c)[End(c, n) + 1 + 2 * i] = Cmd(c, n)[i]
<1>1. PICK N \in Nat : N = Len(program[c])
  BY TextFacts
<1>2. n \in Nat /\ n + 1 \in 0 .. N /\ n \in 0 .. N - 1 /\ n + 1 \in 1 .. N
  BY <1>1
<1>3. PICK cmd : cmd = Cmd(c, n)
  OBVIOUS
<1>4. program[c] \in Seq(Seq(Token)) /\ cmd = program[c][n + 1]
  BY <1>3, TextFacts DEF Cmd
<1>5. cmd \in Seq(Token)
  BY <1>1, <1>2, <1>4, ElementOfSeq
<1>6. Complete(cmd)
  BY <1>1, <1>2, <1>4 DEF WholeCommands
<1>7. PICK k \in Nat : k = Len(cmd)
  BY <1>5, LenProperties
<1>8. k > 0
  BY <1>6, <1>7 DEF Complete
<1>9. End(c, n) \in Nat /\ End(c, n + 1) \in Nat
  BY <1>1, <1>2, TextFacts
<1>10. /\ End(c, n + 1) = End(c, n) + 2 * k + 1
       /\ \A j \in 1 .. 2 * k + 1 : Text(c)[End(c, n) + j] = Lines(cmd)[j]
  BY <1>1, <1>2, <1>4, <1>7, TextFacts
<1>11. PICK ls : ls = Lines(cmd)
  OBVIOUS
<1>12. ls[1] = "*" /\ \A i \in 1 .. k : ls[2 * i] = "$" /\ ls[2 * i + 1] = cmd[i]
  BY <1>5, <1>7, <1>11, LinesProperties
<1>13. PICK e \in Nat : e = End(c, n)
  BY <1>9
<1>14. \A j \in 1 .. 2 * k + 1 : Text(c)[e + j] = ls[j]
  BY <1>10, <1>11, <1>13
<1>15. Text(c)[e + 1] = "*"
  <2>1. 1 \in 1 .. 2 * k + 1
    BY <1>8
  <2> QED
    BY <1>12, <1>14, <2>1
<1>16. Text(c)[e + 2] = "$"
  <2>1. 2 \in 1 .. 2 * k + 1 /\ 1 \in 1 .. k /\ 2 * 1 = 2
    BY <1>8
  <2>2. ls[2] = "$"
    BY <1>12, <2>1
  <2> QED
    BY <1>14, <2>1, <2>2
<1>17. ASSUME NEW i \in 1 .. k PROVE Text(c)[e + 1 + 2 * i] = cmd[i]
  <2>1. 2 * i + 1 \in 1 .. 2 * k + 1 /\ e + (2 * i + 1) = e + 1 + 2 * i
    OBVIOUS
  <2>2. Text(c)[e + (2 * i + 1)] = ls[2 * i + 1]
    BY <1>14, <2>1
  <2> QED
    BY <1>12, <2>1, <2>2
<1> QED
  BY <1>1, <1>2, <1>3, <1>5, <1>6, <1>7, <1>9, <1>10, <1>13, <1>15, <1>16, <1>17

\* Texts, their ends and commands stay while the programs do.
LEMMA SameProgram ==
  program' = program =>
    \A c : /\ Text(c)' = Text(c) /\ Len(program'[c]) = Len(program[c])
           /\ FixedArity(c)' <=> FixedArity(c)
           /\ \A n : End(c, n)' = End(c, n) /\ Cmd(c, n)' = Cmd(c, n)
BY DEF Text, FixedArity, End, Cmd

\* Where a handler that reads a command stands in it.
LEMMA ReadingMore ==
  ASSUME TypeInv, WholeCommands, NEW c \in Conns, NEW n \in 0 .. Len(program[c]),
         Reading(c, n), Dependable(c), WithinOne(c, n)
  PROVE  /\ Len(Cmd(c, n)) \in Nat \ {0} /\ Len(handler[c].lines) \in Nat /\ End(c, n) \in Nat
         /\ End(c, n + 1) = End(c, n) + 2 * (Len(Cmd(c, n)) - 1) + 3
         /\ c \in whole => got[c] = End(c, n + 1)
         /\ Cmd(c, n)[1] \in WhileBuffered \union {"LPOP", "SET"} => c \in whole
         /\ More(c) => /\ Len(handler[c].lines) < 2 * (Len(Cmd(c, n)) - 1)
                       /\ handler[c].name = "SET" => Len(handler[c].lines) < 4
         /\ ~More(c) => \/ Len(handler[c].lines) = 2 * (Len(Cmd(c, n)) - 1)
                        \/ /\ handler[c].name = "SET" /\ Len(handler[c].lines) = 4
                           /\ Len(Cmd(c, n)) = 5
<1>1. program \in Programs /\ n < Len(program[c])
  BY DEF TypeInv, AccountOK, Reading
<1>2. PICK cmd \in Seq(Token) : cmd = Cmd(c, n)
  BY <1>1, CommandText
<1>3. Complete(cmd)
  BY <1>1, <1>2, CommandText
<1>4. PICK k \in Nat : Len(cmd) = k + 1
  <2>1. Len(cmd) \in Nat /\ Len(cmd) > 0
    BY <1>3, LenProperties DEF Complete
  <2>2. Len(cmd) - 1 \in Nat /\ Len(cmd) = (Len(cmd) - 1) + 1
    BY <2>1
  <2> QED
    BY <2>2
<1>5. PICK e \in Nat : e = End(c, n)
  BY <1>1, CommandText
<1>6. End(c, n + 1) = e + 2 * k + 3
  <2>1. End(c, n + 1) = e + 2 * Len(cmd) + 1
    BY <1>1, <1>2, <1>5, CommandText
  <2> QED
    BY <1>4, <2>1
<1>7. PICK lines \in Seq(Token) : lines = handler[c].lines
  BY DEF TypeInv, HandlersOK, HandlerSet
<1>8. PICK m \in Nat : m = Len(lines)
  BY LenProperties
<1>9. PICK name : name = handler[c].name /\ name = cmd[1] /\ name \in Names
  BY <1>2, <1>3 DEF Reading, Complete
<1>10. read[c] = e + 3 + m /\ m <= 2 * k /\ (name = "SET" => m <= 4)
  <2>1. read[c] = e + (3 + m) /\ m <= 2 * (Len(cmd) - 1) /\ (name = "SET" => m <= 4)
    BY <1>2, <1>5, <1>7, <1>8, <1>9 DEF Reading, At
  <2>2. Len(cmd) - 1 = k
    BY <1>4
  <2> QED
    BY <2>1, <2>2
<1>11. PICK g \in Nat : g = got[c] /\ read[c] <= g
  BY DEF TypeInv, StreamsOK
<1>12. c \in whole => g = e + 2 * k + 3
  <2>1. c \in whole => g = e \/ g = End(c, n + 1)
    BY <1>5, <1>11 DEF WithinOne
  <2>2. g # e
    BY <1>10, <1>11
  <2> QED
    BY <1>6, <2>1, <2>2
<1>13. name \in WhileBuffered \union {"LPOP", "SET"} => c \in whole
  <2>1. SUFFICES ASSUME name \in WhileBuffered \union {"LPOP", "SET"} PROVE ~FixedArity(c)
    BY DEF Dependable
  <2>2. program[c] \in Seq(Seq(Token)) /\ Len(program[c]) \in Nat
    BY <1>1, TextFacts
  <2>3. n + 1 \in 1 .. Len(program[c])
    BY <1>1, <2>2
  <2>4. n + 1 \in DOMAIN program[c]
    BY <2>2, <2>3, LenProperties
  <2> QED
    BY <1>2, <1>9, <2>1, <2>4 DEF FixedArity, Cmd
<1>14. PICK b \in Int : b = Buffered(c) /\ (c \in whole => b = 2 * k - m)
  <2>1. Buffered(c) = g - (e + 3 + m)
    BY <1>10, <1>11 DEF Buffered
  <2>2. Buffered(c) \in Int /\ (c \in whole => Buffered(c) = 2 * k - m)
    BY <1>12, <2>1
  <2> QED
    BY <2>2
<1>15. PICK as \in Seq(Token) : as = Args(c) /\ Len(as) = m \div 2
  BY <1>7, <1>8, ArgsFacts
<1>16. PICK q : q = Needed(name, as)
  OBVIOUS
<1>17. More(c) <=> \/ m % 2 = 1
                   \/ m < 2 * q
                   \/ name \in WhileBuffered /\ b > 0
                   \/ name = "LPOP" /\ m = 2 /\ b > 0
  BY <1>7, <1>8, <1>9, <1>14, <1>15, <1>16 DEF More
<1> DEFINE Goal == /\ More(c) => m < 2 * k /\ (name = "SET" => m < 4)
                   /\ ~More(c) => m = 2 * k \/ (name = "SET" /\ m = 4 /\ k = 4)
<1>18. Goal
  <2>1. CASE name \in WhileBuffered
    <3>1. name # "LPOP" /\ name # "SET" /\ name \in {"RPUSH", "LPUSH", "GEOPOS"}
      BY <2>1 DEF WhileBuffered
    <3>2. q = 1
      BY <1>16, <3>1, NeededValues
    <3>3. k >= 1
      BY <1>3, <1>4, <1>9, <2>1 DEF Complete
    <3>4. b = 2 * k - m
      BY <1>13, <1>14, <2>1
    <3>5. More(c) <=> m % 2 = 1 \/ m < 2 \/ b > 0
      BY <1>17, <2>1, <3>1, <3>2
    <3> QED
      BY <1>10, <3>1, <3>3, <3>4, <3>5
  <2>2. CASE name = "LPOP"
    <3>1. q = 1
      BY <1>16, <2>2, NeededValues
    <3>2. k \in {1, 2}
      BY <1>3, <1>4, <1>9, <2>2 DEF Complete
    <3>3. b = 2 * k - m
      BY <1>13, <1>14, <2>2
    <3>4. More(c) <=> m % 2 = 1 \/ m < 2 \/ (m = 2 /\ b > 0)
      BY <1>17, <2>2, <3>1 DEF WhileBuffered
    <3> QED
      BY <1>10, <2>2, <3>2, <3>3, <3>4
  <2>3. CASE name = "SET"
    <3>1. q = 2
      BY <1>16, <2>3, NeededValues DEF TwoArguments
    <3>2. k \in {2, 4}
      BY <1>3, <1>4, <1>9, <2>3 DEF Complete
    <3>3. More(c) <=> m % 2 = 1 \/ m < 4
      BY <1>17, <2>3, <3>1 DEF WhileBuffered
    <3> QED
      BY <1>10, <2>3, <3>2, <3>3
  <2>4. CASE name \notin WhileBuffered \union {"LPOP", "SET"}
    <3>1. PICK ts : ts = Tail(cmd)
      OBVIOUS
    <3>2. k = Needed(name, ts)
      <4>1. Len(cmd) = 1 + Needed(name, ts)
        BY <1>3, <1>9, <2>4, <3>1 DEF Complete
      <4>2. Needed(name, ts) \in Nat
        <5>1. CASE name = "ACL"
          BY <5>1, NeededByAcl
        <5>2. CASE name # "ACL"
          BY <1>9, <5>2, NeededFixed
        <5> QED
          BY <5>1, <5>2
      <4> QED
        BY <1>4, <4>1, <4>2
    <3>3. More(c) <=> m % 2 = 1 \/ m < 2 * q
      BY <1>17, <2>4
    <3>4. name # "ACL" => q = k
      BY <1>9, <1>16, <3>2, NeededFixed
    <3>5. CASE name # "ACL"
      BY <1>10, <2>4, <3>3, <3>4, <3>5
    <3>6. CASE name = "ACL" /\ m < 2
      <4>1. q \in {1, 2, 3} /\ k \in {1, 2, 3}
        BY <1>16, <3>2, <3>6, NeededByAcl
      <4> QED
        BY <1>10, <2>4, <3>3, <3>6, <4>1
    <3>7. CASE name = "ACL" /\ m >= 2
      <4>1. k \in {1, 2, 3}
        BY <3>2, <3>7, NeededByAcl
      <4>2. m \div 2 >= 1 /\ 1 \in 1 .. m \div 2
        BY <3>7
      <4>3. as # <<>>
        BY <1>15, <4>2, EmptySeq
      <4>4. cmd # <<>>
        BY <1>4, EmptySeq
      <4>5. Len(ts) = k /\ ts \in Seq(Token)
        BY <1>4, <3>1, <4>4, HeadTailProperties
      <4>6. ts # <<>>
        BY <4>1, <4>5, EmptySeq
      <4>7. as[1] = lines[2]
        <5>1. \A i \in 1 .. m \div 2 : as[i] = lines[2 * i]
          BY <1>7, <1>8, <1>15, ArgsFacts
        <5>2. as[1] = lines[2 * 1]
          BY <4>2, <5>1
        <5> QED
          BY <5>2
      <4>8. lines[2] = Text(c)[e + 3 + 2]
        <5>1. \A i \in 1 .. m : lines[i] = Text(c)[e + 3 + i]
          BY <1>5, <1>7, <1>8 DEF Reading, ReadFrom
        <5>2. 2 \in 1 .. m
          BY <3>7
        <5> QED
          BY <5>1, <5>2
      <4>9. Text(c)[e + 3 + 2] = cmd[2]
        <5>1. 2 \in 1 .. Len(cmd)
          BY <1>4, <4>1
        <5>2. Text(c)[e + 1 + 2 * 2] = cmd[2]
          BY <1>1, <1>2, <1>5, <5>1, CommandText
        <5>3. e + 1 + 2 * 2 = e + 3 + 2
          OBVIOUS
        <5> QED
          BY <5>2, <5>3
      <4>10. ts[1] = cmd[2]
        <5>1. 1 \in 1 .. k
          BY <4>1
        <5>2. \A i \in 1 .. Len(ts) : ts[i] = cmd[i + 1]
          BY <3>1, <4>4, HeadTailProperties
        <5>3. ts[1] = cmd[1 + 1]
          BY <4>5, <5>1, <5>2
        <5> QED
          BY <5>3
      <4>11. q = k
        <5>1. as # <<>> /\ ts # <<>> /\ as[1] = ts[1]
          BY <4>3, <4>6, <4>7, <4>8, <4>9, <4>10
        <5>2. Needed(name, as) = Needed(name, ts)
          BY <1>9, <5>1, NeededFixed
        <5> QED
          BY <1>16, <3>2, <5>2
      <4> QED
        BY <1>10, <2>4, <3>3, <4>11
    <3> QED
      BY <3>5, <3>6, <3>7
  <2> QED
    BY <2>1, <2>2, <2>3, <2>4
<1>19. Len(cmd) - 1 = k /\ (k = 4 => Len(cmd) = 5) /\ Len(cmd) \in Nat \ {0}
  BY <1>4
<1>20. End(c, n + 1) = e + 2 * (Len(cmd) - 1) + 3
  BY <1>6, <1>19
<1>21. c \in whole => got[c] = End(c, n + 1)
  BY <1>6, <1>11, <1>12
<1>22. cmd[1] \in WhileBuffered \union {"LPOP", "SET"} => c \in whole
  BY <1>9, <1>13
<1>23. More(c) => m < 2 * (Len(cmd) - 1) /\ (name = "SET" => m < 4)
  BY <1>18, <1>19
<1>24. ~More(c) => m = 2 * (Len(cmd) - 1) \/ (name = "SET" /\ m = 4 /\ Len(cmd) = 5)
  BY <1>18, <1>19
<1> QED
  BY <1>2, <1>5, <1>7, <1>8, <1>9, <1>19, <1>20, <1>21, <1>22, <1>23, <1>24

\* Lengths, and the handlers behind SET's answer, have names of no command.
LEMMA NotNames ==
  /\ "" \notin Names /\ "*" \notin Names /\ "$" \notin Names
  /\ "SET-OPTION" \notin Names /\ "PX" \notin Names /\ "SET" \in Names
BY DEF Names, NoArgument, OneArgument, TwoArguments, ThreeArguments, WhileBuffered

\* A connection stays dependable or stops being it.
LEMMA ExactFrom ==
  ASSUME NEW c \in Conns, Exact(c), program' = program,
         c \in refused => c \in refused', c \in whole' => c \in whole,
         \A n \in 0 .. Len(program[c]) :
           Dependable(c) /\ Dependable(c)' /\ Somewhere(c, n) =>
             \E k \in 0 .. Len(program[c]) : Somewhere(c, k)'
  PROVE  Exact(c)'
<1>1. Dependable(c)' => Dependable(c)
  BY SameProgram DEF Dependable
<1>2. Len(program'[c]) = Len(program[c])
  OBVIOUS
<1>3. ASSUME Dependable(c)' PROVE \E k \in 0 .. Len(program[c]) : Somewhere(c, k)'
  <2>1. PICK n \in 0 .. Len(program[c]) : Somewhere(c, n)
    BY <1>1, <1>3 DEF Exact
  <2> QED
    BY <1>1, <1>3, <2>1
<1> QED
  BY <1>2, <1>3 DEF Exact

\* A connection whose reader takes nothing keeps within one command.
LEMMA WithinOneKept ==
  ASSUME NEW c \in Conns, NEW n, WithinOne(c, n), program' = program,
         got'[c] = got[c], c \in whole' => c \in whole
  PROVE  WithinOne(c, n)'
BY SameProgram DEF WithinOne

\* The places that do not depend on how far the reader has got.
LEMMA PlaceKept ==
  ASSUME NEW c \in Conns, NEW n, program' = program, Between(c, n) \/ Reading(c, n) \/ Option(c, n),
         read'[c] = read[c], handler'[c] = handler[c], executed'[c] = executed[c]
  PROVE  Between(c, n)' \/ Reading(c, n)' \/ Option(c, n)'
<1>1. Len(program'[c]) = Len(program[c]) /\ program'[c] = program[c]
  OBVIOUS
<1>2. /\ Text(c)' = Text(c) /\ End(c, n)' = End(c, n) /\ Cmd(c, n)' = Cmd(c, n)
  BY SameProgram
<1>3. NoHandler' = NoHandler
  OBVIOUS
<1>4. Between(c, n) => Between(c, n)'
  BY <1>1, <1>2, <1>3 DEF Between, At
<1>5. Reading(c, n) => Reading(c, n)'
  BY <1>1, <1>2 DEF Reading, At, ReadFrom
<1>6. Option(c, n) => Option(c, n)'
  BY <1>1, <1>2 DEF Option, At, ReadFrom
<1> QED
  BY <1>4, <1>5, <1>6

\* A step of another connection, or one that leaves the handler and the reader alone.
LEMMA ExactFrame ==
  ASSUME NEW c \in Conns, Exact(c), program' = program, got'[c] = got[c], read'[c] = read[c],
         handler'[c] = handler[c], executed'[c] = executed[c],
         c \in refused => c \in refused', c \in whole' => c \in whole
  PROVE  Exact(c)'
<1>1. ASSUME NEW n \in 0 .. Len(program[c]), Somewhere(c, n)
      PROVE  Somewhere(c, n)'
  <2>1. WithinOne(c, n)'
    BY <1>1, WithinOneKept DEF Somewhere
  <2>2. Between(c, n)' \/ Reading(c, n)' \/ Option(c, n)'
    BY <1>1, PlaceKept DEF Somewhere
  <2> QED
    BY <2>1, <2>2 DEF Somewhere
<1> QED
  BY <1>1, ExactFrom

\* What handlers behind the answer of SET read: one argument each.
LEMMA OptionMore ==
  ASSUME TypeInv, WholeCommands, NEW c \in Conns, NEW n \in 0 .. Len(program[c]),
         Option(c, n), Dependable(c), WithinOne(c, n)
  PROVE  /\ Len(handler[c].lines) \in 0 .. 2 /\ handler[c].lines \in Seq(Token)
         /\ End(c, n) \in Nat /\ End(c, n + 1) = End(c, n) + 11
         /\ More(c) <=> Len(handler[c].lines) < 2
         /\ Busy(c) /\ c \in whole /\ got[c] = End(c, n + 1)
<1>1. program \in Programs /\ n < Len(program[c])
  BY DEF TypeInv, AccountOK, Option
<1>2. PICK e \in Nat : e = End(c, n)
  BY <1>1, CommandText
<1>3. PICK b \in {7, 9} : /\ handler[c].name = (IF b = 7 THEN "SET-OPTION" ELSE "PX")
                          /\ read[c] = e + (b + Len(handler[c].lines))
  BY <1>2 DEF Option, At
<1>4. PICK lines \in Seq(Token) : lines = handler[c].lines
  BY DEF TypeInv, HandlersOK, HandlerSet
<1>5. PICK m \in Nat : m = Len(lines) /\ m <= 2
  <2>1. Len(lines) \in Nat /\ Len(lines) <= 2
    BY <1>4, LenProperties DEF Option
  <2> QED
    BY <2>1
<1>6. PICK name : name = handler[c].name
  OBVIOUS
<1>7. name \in {"SET-OPTION", "PX"}
  BY <1>3, <1>6
<1>8. End(c, n + 1) = e + 11
  <2>1. End(c, n + 1) = End(c, n) + 2 * Len(Cmd(c, n)) + 1
    BY <1>1, CommandText
  <2>2. Len(Cmd(c, n)) = 5
    BY DEF Option
  <2>3. End(c, n + 1) = e + 2 * 5 + 1
    BY <1>2, <2>1, <2>2
  <2> QED
    BY <2>3
<1>9. More(c) <=> m < 2
  <2>1. Needed(name, Args(c)) = 1
    BY <1>7, NeededValues
  <2>2. name \notin WhileBuffered /\ name # "LPOP"
    BY <1>7 DEF WhileBuffered
  <2>3. More(c) <=> m % 2 = 1 \/ m < 2 * 1
    BY <1>4, <1>5, <1>6, <2>1, <2>2 DEF More
  <2>4. m % 2 = 1 \/ m < 2 * 1 <=> m < 2
    BY <1>5
  <2> QED
    BY <2>3, <2>4
<1>10. Busy(c)
  BY <1>6, <1>7, NoHandlerType DEF Busy
<1>11. c \in whole
  <2>1. program[c] \in Seq(Seq(Token)) /\ Len(program[c]) \in Nat
    BY <1>1, TextFacts
  <2>2. n + 1 \in 1 .. Len(program[c])
    BY <1>1, <2>1
  <2>3. n + 1 \in DOMAIN program[c]
    BY <2>1, <2>2, LenProperties
  <2>4. program[c][n + 1][1] = "SET"
    BY DEF Option, Cmd
  <2> QED
    BY <2>3, <2>4 DEF Dependable, FixedArity
<1>12. got[c] = End(c, n + 1)
  <2>1. got[c] = e \/ got[c] = End(c, n + 1)
    BY <1>2, <1>11 DEF WithinOne
  <2>2. PICK g \in Nat : g = got[c] /\ read[c] <= g
    BY DEF TypeInv, StreamsOK
  <2>3. read[c] = e + (b + m)
    BY <1>3, <1>4, <1>5
  <2>4. g # e
    BY <2>2, <2>3
  <2> QED
    BY <2>1, <2>2, <2>4
<1>13. m \in 0 .. 2
  BY <1>5
<1> QED
  BY <1>2, <1>4, <1>5, <1>8, <1>9, <1>10, <1>11, <1>12, <1>13

\* While a handler wants more, the command it reads is not all read.
LEMMA NotAtEnd ==
  ASSUME TypeInv, WholeCommands, NEW c \in Conns, NEW n \in 0 .. Len(program[c]),
         Somewhere(c, n), Dependable(c), Busy(c) => More(c)
  PROVE  /\ n < Len(program[c]) => read[c] < End(c, n + 1) /\ End(c, n + 1) \in Nat
         /\ n = Len(program[c]) => Between(c, n)
<1>1. program \in Programs /\ WithinOne(c, n)
  BY DEF TypeInv, AccountOK, Somewhere
<1>2. n < Len(program[c]) => End(c, n + 1) \in Nat
  BY <1>1, CommandText
<1>3. CASE Between(c, n)
  <2>1. SUFFICES ASSUME n < Len(program[c]) PROVE read[c] < End(c, n + 1)
    BY <1>2, <1>3
  <2>2. PICK j \in 0 .. 2 : read[c] = End(c, n) + j
    BY <1>3 DEF Between, At
  <2>3. PICK l \in Nat : l = Len(Cmd(c, n)) /\ l > 0
    BY <1>1, <2>1, CommandText DEF Complete
  <2>4. PICK e \in Nat : e = End(c, n)
    BY <1>1, <2>1, CommandText
  <2>5. End(c, n + 1) = e + 2 * l + 1
    BY <1>1, <2>1, <2>3, <2>4, CommandText
  <2> QED
    BY <2>2, <2>3, <2>4, <2>5
<1>4. CASE Reading(c, n)
  <2>1. n < Len(program[c])
    BY <1>4 DEF Reading
  <2>2. Busy(c)
    <3>1. handler[c].name \in Names
      BY <1>1, <1>4, <2>1, CommandText DEF Reading, Complete
    <3> QED
      BY <3>1, NotNames, NoHandlerType DEF Busy
  <2>3. More(c)
    BY <2>2
  <2>4. PICK m : m = Len(handler[c].lines)
    OBVIOUS
  <2>5. PICK l : l = Len(Cmd(c, n))
    OBVIOUS
  <2>6. PICK e : e = End(c, n)
    OBVIOUS
  <2>7. l \in Nat \ {0} /\ m \in Nat /\ e \in Nat
    BY <1>1, <1>4, <2>4, <2>5, <2>6, ReadingMore
  <2>8. End(c, n + 1) = e + 2 * (l - 1) + 3
    BY <1>1, <1>4, <2>5, <2>6, ReadingMore
  <2>9. m < 2 * (l - 1)
    BY <1>1, <1>4, <2>3, <2>4, <2>5, ReadingMore
  <2>10. read[c] = e + (3 + m)
    BY <1>4, <2>4, <2>6 DEF Reading, At
  <2>11. read[c] < End(c, n + 1)
    BY <2>7, <2>8, <2>9, <2>10
  <2> QED
    BY <1>2, <2>1, <2>7, <2>11
<1>5. CASE Option(c, n)
  <2>1. n < Len(program[c])
    BY <1>5 DEF Option
  <2>2. PICK m : m = Len(handler[c].lines)
    OBVIOUS
  <2>3. PICK e : e = End(c, n)
    OBVIOUS
  <2>4. m \in 0 .. 2 /\ e \in Nat /\ End(c, n + 1) = e + 11 /\ m < 2
    BY <1>1, <1>5, <2>2, <2>3, OptionMore
  <2>5. PICK b \in {7, 9} : read[c] = e + (b + m)
    BY <1>5, <2>2, <2>3 DEF Option, At
  <2>6. read[c] < End(c, n + 1)
    BY <2>4, <2>5
  <2> QED
    BY <1>2, <2>1, <2>6
<1> QED
  BY <1>3, <1>4, <1>5 DEF Somewhere

\* The reader takes more from the socket when everything it had is read.
LEMMA ExactFill ==
  ASSUME TypeInv, WholeCommands, NEW c \in Conns, Exact(c), NEW t \in Nat, Fill(c, t)
  PROVE  Exact(c)'
<1>1. /\ program' = program /\ read' = read /\ handler' = handler /\ executed' = executed
      /\ refused' = refused
  BY DEF Fill
<1>2. got'[c] = t /\ got[c] = read[c] /\ (Busy(c) => More(c))
  <2>1. read[c] \in Nat /\ got[c] \in Nat
    BY DEF TypeInv, StreamsOK
  <2>2. got[c] - read[c] = 0
    BY DEF Fill, Starved, Buffered
  <2>3. got'[c] = t
    BY DEF Fill, TypeInv, StreamsOK
  <2> QED
    BY <2>1, <2>2, <2>3 DEF Fill, Starved
<1>3. c \in whole' => /\ c \in whole
                      /\ {e \in Ends(c) : got[c] < e /\ e <= t} = {t}
  BY DEF Fill
<1>4. ASSUME NEW n \in 0 .. Len(program[c]), Somewhere(c, n), Dependable(c)
      PROVE  WithinOne(c, n)'
  <2>1. SUFFICES ASSUME c \in whole' PROVE n < Len(program[c]) /\ t = End(c, n + 1)
    BY <1>1, <1>2, SameProgram DEF WithinOne
  <2>2. program \in Programs
    BY DEF TypeInv, AccountOK
  <2>3. PICK N \in Nat : N = Len(program[c])
    BY <2>2, TextFacts
  <2>4. /\ \A m \in 0 .. N : End(c, m) \in Nat
        /\ \A m \in 0 .. N : \A l \in 0 .. m : End(c, l) <= End(c, m)
    BY <2>2, <2>3, TextFacts
  <2>5. n < N => End(c, n + 1) \in Nat /\ End(c, n + 1) >= End(c, n) + 3 /\ n + 1 \in 0 .. N
    <3>1. SUFFICES ASSUME n < N PROVE End(c, n + 1) \in Nat /\ End(c, n + 1) >= End(c, n) + 3 /\ n + 1 \in 0 .. N
      OBVIOUS
    <3>2. /\ Len(Cmd(c, n)) \in Nat /\ Complete(Cmd(c, n)) /\ End(c, n) \in Nat
          /\ End(c, n + 1) = End(c, n) + 2 * Len(Cmd(c, n)) + 1 /\ n + 1 \in 0 .. N
      BY <2>2, <2>3, <3>1, CommandText
    <3> QED
      BY <3>2 DEF Complete
  <2>6. got[c] = End(c, n)
    <3>1. got[c] = End(c, n) \/ (n < N /\ got[c] = End(c, n + 1))
      BY <1>3, <1>4, <2>1, <2>3 DEF Somewhere, WithinOne
    <3>2. SUFFICES ASSUME n < N, got[c] = End(c, n + 1) PROVE FALSE
      BY <3>1
    <3>3. read[c] < End(c, n + 1) /\ End(c, n + 1) \in Nat
      BY <1>2, <1>4, <2>3, <3>2, NotAtEnd
    <3> QED
      BY <1>2, <3>2, <3>3
  <2>7. t \in Ends(c) /\ got[c] < t
    BY <1>3, <2>1
  <2>8. PICK m \in 0 .. N : t = End(c, m)
    BY <2>3, <2>7 DEF Ends
  <2>9. n < m
    BY <2>3, <2>4, <2>6, <2>7, <2>8
  <2>10. n < N /\ n + 1 \in 0 .. m
    BY <2>3, <2>9
  <2>11. End(c, n + 1) \in {e \in Ends(c) : got[c] < e /\ e <= t}
    <3>1. End(c, n + 1) <= t /\ got[c] < End(c, n + 1)
      BY <2>3, <2>4, <2>5, <2>6, <2>8, <2>10
    <3>2. End(c, n + 1) \in Ends(c)
      BY <2>3, <2>5, <2>10 DEF Ends
    <3> QED
      BY <3>1, <3>2
  <2> QED
    BY <1>3, <2>1, <2>3, <2>10, <2>11
<1>5. ASSUME NEW n \in 0 .. Len(program[c]), Somewhere(c, n), Dependable(c)
      PROVE  Somewhere(c, n)'
  <2>1. Between(c, n)' \/ Reading(c, n)' \/ Option(c, n)'
    BY <1>1, <1>5, PlaceKept DEF Somewhere
  <2> QED
    BY <1>4, <1>5, <2>1 DEF Somewhere
<1> QED
  BY <1>1, <1>3, <1>5, ExactFrom

\* A handler at rest is between two commands.
LEMMA BetweenOnly ==
  ASSUME TypeInv, WholeCommands, NEW c \in Conns, NEW n \in 0 .. Len(program[c]),
         Somewhere(c, n)
  PROVE  /\ handler[c] = NoHandler => Between(c, n)
         /\ handler[c].name \in Names => Reading(c, n)
         /\ handler[c].name \in {"SET-OPTION", "PX"} => Option(c, n)
<1>1. program \in Programs
  BY DEF TypeInv, AccountOK
<1>2. Reading(c, n) => handler[c].name \in Names
  BY <1>1, CommandText DEF Reading, Complete
<1>3. Option(c, n) => handler[c].name \in {"SET-OPTION", "PX"}
  BY DEF Option
<1>4. Between(c, n) => handler[c].name = ""
  BY NoHandlerType DEF Between
<1>5. NoHandler.name = ""
  BY NoHandlerType
<1> QED
  BY <1>2, <1>3, <1>4, <1>5, NotNames DEF Somewhere

\* serveCommands skips the two lengths and finds the name of the next command.
LEMMA ExactReadCommand ==
  ASSUME TypeInv, WholeCommands, NEW c \in Conns, Exact(c), ReadCommand(c) PROVE Exact(c)'
<1>1. /\ program' = program /\ got' = got /\ executed' = executed /\ whole' = whole
      /\ refused \subseteq refused' /\ handler[c] = NoHandler /\ Buffered(c) > 0
  BY DEF ReadCommand, Busy
<1>2. program \in Programs
  BY DEF TypeInv, AccountOK
<1>3. read'[c] = read[c] + 1
  BY DEF ReadCommand, TypeInv, StreamsOK
<1>4. ASSUME NEW n \in 0 .. Len(program[c]), Dependable(c)', Somewhere(c, n)
      PROVE  Somewhere(c, n)'
  <2>1. Between(c, n)
    BY <1>1, <1>4, BetweenOnly
  <2>2. PICK j \in 0 .. 2 : read[c] = End(c, n) + j /\ (j > 0 => n < Len(program[c]))
    BY <2>1 DEF Between, At
  <2>3. PICK N \in Nat : N = Len(program[c])
    BY <1>2, TextFacts
  <2>4. n < N
    <3>1. SUFFICES ASSUME n = N, j = 0 PROVE FALSE
      BY <2>2, <2>3
    <3>2. read[c] = Len(Text(c)) /\ Len(Text(c)) \in Nat
      BY <1>2, <2>2, <2>3, <3>1, TextFacts
    <3>3. read[c] + 1 <= got[c] /\ got[c] \in Nat /\ sent[c] \in Nat /\ got[c] <= sent[c] /\ sent[c] <= Len(Text(c))
      BY <1>1, NextLineType DEF TypeInv, StreamsOK
    <3> QED
      BY <3>2, <3>3
  <2>5. PICK e \in Nat : e = End(c, n)
    BY <1>2, <2>3, <2>4, CommandText
  <2>6. /\ Text(c)[e + 1] = "*" /\ Text(c)[e + 2] = "$"
        /\ Complete(Cmd(c, n)) /\ Len(Cmd(c, n)) \in Nat
        /\ \A i \in 1 .. Len(Cmd(c, n)) : Text(c)[e + 1 + 2 * i] = Cmd(c, n)[i]
    BY <1>2, <2>3, <2>4, <2>5, CommandText
  <2>7. Text(c)[e + 3] = Cmd(c, n)[1] /\ Cmd(c, n)[1] \in Names
    <3>1. 1 \in 1 .. Len(Cmd(c, n)) /\ Cmd(c, n)[1] \in Names
      BY <2>6 DEF Complete
    <3>2. Text(c)[e + 1 + 2 * 1] = Cmd(c, n)[1]
      BY <2>6, <3>1
    <3>3. e + 1 + 2 * 1 = e + 3
      OBVIOUS
    <3> QED
      BY <3>1, <3>2, <3>3
  <2>8. NextLine(c) = Text(c)[e + j + 1]
    BY <2>2, <2>5 DEF NextLine
  <2>9. WithinOne(c, n)'
    BY <1>1, <1>4, WithinOneKept DEF Somewhere
  <2>10. /\ Len(program'[c]) = Len(program[c]) /\ program'[c] = program[c]
         /\ Text(c)' = Text(c) /\ End(c, n)' = e /\ Cmd(c, n)' = Cmd(c, n)
    BY <1>1, <2>5, SameProgram
  <2>11. CASE j \in {0, 1}
    <3>1. NextLine(c) \notin Names
      <4>1. CASE j = 0
        <5>1. e + 0 + 1 = e + 1
          OBVIOUS
        <5>2. NextLine(c) = "*"
          BY <2>6, <2>8, <4>1, <5>1
        <5> QED
          BY <5>2, NotNames
      <4>2. CASE j = 1
        <5>1. e + 1 + 1 = e + 2
          OBVIOUS
        <5>2. NextLine(c) = "$"
          BY <2>6, <2>8, <4>2, <5>1
        <5> QED
          BY <5>2, NotNames
      <4> QED
        BY <2>11, <4>1, <4>2
    <3>2. handler' = handler
      BY <3>1 DEF ReadCommand
    <3>3. j + 1 \in 0 .. 2 /\ read'[c] = e + (j + 1)
      BY <1>3, <2>2, <2>5, <2>11
    <3>4. At(c, n, j + 1)'
      BY <2>10, <3>3 DEF At
    <3>5. handler'[c] = NoHandler' /\ executed'[c] = SubSeq(program'[c], 1, n)
      BY <1>1, <2>1, <2>10, <3>2 DEF Between, NoHandler
    <3>6. Between(c, n)'
      BY <2>3, <2>4, <2>10, <3>3, <3>4, <3>5 DEF Between
    <3> QED
      BY <2>9, <3>6 DEF Somewhere
  <2>12. CASE j = 2
    <3>1. PICK w \in Names : w = NextLine(c) /\ w = Cmd(c, n)[1]
      <4>1. e + 2 + 1 = e + 3
        OBVIOUS
      <4> QED
        BY <2>7, <2>8, <2>12, <4>1
    <3>2. PICK h : h = [name |-> w, lines |-> <<>>]
      OBVIOUS
    <3>3. handler' = [handler EXCEPT ![c] = h]
      <4>1. c \notin refused'
        BY <1>4 DEF Dependable
      <4> QED
        BY <3>1, <3>2, <4>1 DEF ReadCommand
    <3>4. handler'[c] = h /\ h.name = w /\ h.lines = <<>> /\ Len(h.lines) = 0
      BY <3>2, <3>3, EmptySeq DEF TypeInv, HandlersOK
    <3>5. read'[c] = e + (3 + 0)
      BY <1>3, <2>2, <2>5, <2>12
    <3>6. At(c, n, 3 + Len(handler[c].lines))'
      BY <2>10, <3>4, <3>5 DEF At
    <3>7. ReadFrom(c, End(c, n) + 3)'
      BY <3>4 DEF ReadFrom
    <3>8. executed'[c] = SubSeq(program'[c], 1, n)
      BY <1>1, <2>1, <2>10 DEF Between
    <3>9. Len(handler'[c].lines) <= 2 * (Len(Cmd(c, n)) - 1) /\ Len(handler'[c].lines) <= 4
      BY <2>6, <3>4 DEF Complete
    <3>10. Reading(c, n)'
      BY <2>3, <2>4, <2>10, <3>1, <3>4, <3>6, <3>7, <3>8, <3>9 DEF Reading
    <3> QED
      BY <2>9, <3>10 DEF Somewhere
  <2> QED
    BY <2>11, <2>12
<1> QED
  BY <1>1, <1>4, ExactFrom

\* A handler that reads on reads the next line of its command.
LEMMA ExactReadArgument ==
  ASSUME TypeInv, WholeCommands, NEW c \in Conns, Exact(c), ReadArgument(c) PROVE Exact(c)'
<1>1. /\ program' = program /\ got' = got /\ executed' = executed /\ whole' = whole
      /\ refused' = refused /\ Busy(c) /\ More(c) /\ Buffered(c) > 0
  BY DEF ReadArgument
<1>2. program \in Programs
  BY DEF TypeInv, AccountOK
<1>3. read'[c] = read[c] + 1 /\ read[c] \in Nat
  BY DEF ReadArgument, TypeInv, StreamsOK
<1>4. PICK lines \in Seq(Token) : lines = handler[c].lines
  BY DEF TypeInv, HandlersOK, HandlerSet
<1>5. PICK m \in Nat : m = Len(lines)
  BY LenProperties
<1>6. PICK ls : ls = Append(lines, NextLine(c))
  OBVIOUS
<1>7. /\ handler'[c].name = handler[c].name /\ handler'[c].lines = ls
  <2>1. handler[c] \in HandlerSet
    BY DEF TypeInv, HandlersOK
  <2>2. handler' = [handler EXCEPT ![c].lines = ls]
    BY <1>4, <1>6 DEF ReadArgument
  <2> QED
    BY <2>1, <2>2 DEF TypeInv, HandlersOK, HandlerSet
<1>8. /\ Len(ls) = m + 1 /\ ls[m + 1] = NextLine(c)
      /\ \A i \in 1 .. m : ls[i] = lines[i]
  <2>1. NextLine(c) \in Token
    BY <1>1, NextLineType
  <2> QED
    BY <1>4, <1>5, <1>6, <2>1, AppendProperties
<1>9. NextLine(c) = Text(c)[read[c] + 1]
  BY DEF NextLine
\* Both kinds of handler read on from where they are.
<1>10. ASSUME NEW e \in Nat, NEW b \in Nat, read[c] = e + (b + m), ReadFrom(c, e + b)
       PROVE  /\ read'[c] = e + (b + (m + 1))
              /\ \A i \in 1 .. m + 1 : ls[i] = Text(c)[e + b + i]
  <2>1. read'[c] = e + (b + (m + 1))
    BY <1>3, <1>10
  <2>2. \A i \in 1 .. m : lines[i] = Text(c)[e + b + i]
    BY <1>4, <1>5, <1>10 DEF ReadFrom
  <2>3. ls[m + 1] = Text(c)[e + b + (m + 1)]
    <3>1. read[c] + 1 = e + b + (m + 1)
      BY <1>10
    <3> QED
      BY <1>8, <1>9, <3>1
  <2>4. ASSUME NEW i \in 1 .. m + 1 PROVE ls[i] = Text(c)[e + b + i]
    <3>1. i = m + 1 \/ i \in 1 .. m
      OBVIOUS
    <3> QED
      BY <1>8, <2>2, <2>3, <3>1
  <2> QED
    BY <2>1, <2>4
<1>11. ASSUME NEW n \in 0 .. Len(program[c]), Dependable(c), Somewhere(c, n)
       PROVE  Somewhere(c, n)'
  <2>1. WithinOne(c, n)' /\ WithinOne(c, n)
    BY <1>1, <1>11, WithinOneKept DEF Somewhere
  <2>2. /\ Len(program'[c]) = Len(program[c]) /\ program'[c] = program[c]
        /\ Text(c)' = Text(c) /\ End(c, n)' = End(c, n) /\ Cmd(c, n)' = Cmd(c, n)
    BY <1>1, SameProgram
  <2>3. CASE Reading(c, n)
    <3>1. PICK e \in Nat : e = End(c, n)
      BY <1>2, <2>3, CommandText DEF Reading
    <3>2. PICK l : l = Len(Cmd(c, n))
      OBVIOUS
    <3>3. l \in Nat \ {0}
      BY <1>11, <2>1, <2>3, <3>2, ReadingMore
    <3>4. m < 2 * (l - 1) /\ (handler[c].name = "SET" => m < 4)
      BY <1>1, <1>4, <1>5, <1>11, <2>1, <2>3, <3>2, ReadingMore
    <3>5. m + 1 <= 2 * (l - 1) /\ (handler[c].name = "SET" => m + 1 <= 4)
      BY <3>3, <3>4
    <3>6. read[c] = e + (3 + m) /\ ReadFrom(c, e + 3)
      BY <1>4, <1>5, <2>3, <3>1 DEF Reading, At
    <3>7. /\ read'[c] = e + (3 + (m + 1))
          /\ \A i \in 1 .. m + 1 : ls[i] = Text(c)[e + 3 + i]
      BY <1>10, <3>6
    <3>8. At(c, n, 3 + Len(handler[c].lines))'
      BY <1>7, <1>8, <2>2, <3>1, <3>7 DEF At
    <3>9. ReadFrom(c, End(c, n) + 3)'
      BY <1>7, <1>8, <2>2, <3>1, <3>7 DEF ReadFrom
    <3>10. /\ n < Len(program'[c]) /\ handler'[c].name = Cmd(c, n)'[1]
           /\ executed'[c] = SubSeq(program'[c], 1, n)
      BY <1>1, <1>7, <2>2, <2>3 DEF Reading
    <3>11. /\ Len(handler'[c].lines) <= 2 * (Len(Cmd(c, n)') - 1)
           /\ handler'[c].name = "SET" => Len(handler'[c].lines) <= 4
      BY <1>7, <1>8, <2>2, <3>2, <3>5
    <3>12. Reading(c, n)'
      BY <3>8, <3>9, <3>10, <3>11 DEF Reading
    <3> QED
      BY <2>1, <3>12 DEF Somewhere
  <2>4. CASE Option(c, n)
    <3>1. PICK e \in Nat : e = End(c, n)
      BY <1>2, <2>4, CommandText DEF Option
    <3>2. m < 2
      BY <1>1, <1>4, <1>5, <1>11, <2>1, <2>4, OptionMore
    <3>3. PICK b \in {7, 9} :
            /\ handler[c].name = (IF b = 7 THEN "SET-OPTION" ELSE "PX")
            /\ read[c] = e + (b + m) /\ ReadFrom(c, e + b)
      BY <1>4, <1>5, <2>4, <3>1 DEF Option, At
    <3>4. /\ read'[c] = e + (b + (m + 1))
          /\ \A i \in 1 .. m + 1 : ls[i] = Text(c)[e + b + i]
      BY <1>10, <3>3
    <3>5. At(c, n, b + Len(handler[c].lines))'
      BY <1>7, <1>8, <2>2, <3>1, <3>4 DEF At
    <3>6. ReadFrom(c, End(c, n) + b)'
      BY <1>7, <1>8, <2>2, <3>1, <3>4 DEF ReadFrom
    <3>7. /\ n < Len(program'[c]) /\ Cmd(c, n)'[1] = "SET" /\ Len(Cmd(c, n)') = 5
          /\ executed'[c] = Append(SubSeq(program'[c], 1, n), SubSeq(Cmd(c, n)', 1, 3))
      BY <1>1, <2>2, <2>4 DEF Option
    <3>8. Len(handler'[c].lines) <= 2
      BY <1>7, <1>8, <3>2
    <3>9. handler'[c].name = (IF b = 7 THEN "SET-OPTION" ELSE "PX")
      BY <1>7, <3>3
    <3>10. Option(c, n)'
      BY <3>5, <3>6, <3>7, <3>8, <3>9 DEF Option
    <3> QED
      BY <2>1, <3>10 DEF Somewhere
  <2>5. ~Between(c, n)
    BY <1>1 DEF Between, Busy
  <2> QED
    BY <1>11, <2>3, <2>4, <2>5 DEF Somewhere
<1> QED
  BY <1>1, <1>11, ExactFrom

\* End of file comes between two commands.
LEMMA ExactEndOfFile ==
  ASSUME TypeInv, WholeCommands, NEW c \in Conns, Exact(c), EndOfFile(c),
         c \in closed => sent[c] = Len(Text(c))
  PROVE  Exact(c)'
<1>1. /\ program' = program /\ got' = got /\ read' = read /\ executed' = executed /\ whole' = whole
      /\ refused' = refused /\ (Busy(c) => More(c)) /\ Buffered(c) = 0 /\ got[c] = Len(Text(c))
  BY DEF EndOfFile, Starved
<1>2. program \in Programs
  BY DEF TypeInv, AccountOK
<1>3. handler'[c] = NoHandler
  BY DEF EndOfFile, TypeInv, HandlersOK
<1>4. read[c] = Len(Text(c)) /\ read[c] \in Nat
  BY <1>1 DEF TypeInv, StreamsOK, Buffered
<1>5. ASSUME NEW n \in 0 .. Len(program[c]), Dependable(c), Somewhere(c, n)
      PROVE  Somewhere(c, n)'
  <2>1. PICK N \in Nat : N = Len(program[c])
    BY <1>2, TextFacts
  <2>2. n = N
    <3>1. SUFFICES ASSUME n < N PROVE FALSE
      BY <2>1
    <3>2. read[c] < End(c, n + 1) /\ End(c, n + 1) \in Nat
      BY <1>1, <1>5, <2>1, <3>1, NotAtEnd
    <3>3. n + 1 \in 0 .. N
      BY <2>1, <3>1
    <3>4. End(c, n + 1) <= Len(Text(c))
      BY <1>2, <2>1, <3>3, TextFacts
    <3> QED
      BY <1>4, <3>2, <3>4
  <2>3. Between(c, n)
    BY <1>1, <1>5, <2>1, <2>2, NotAtEnd
  <2>4. handler'[c] = handler[c]
    BY <1>3, <2>3 DEF Between
  <2>5. Between(c, n)' \/ Reading(c, n)' \/ Option(c, n)'
    BY <1>1, <2>3, <2>4, PlaceKept
  <2>6. WithinOne(c, n)'
    BY <1>1, <1>5, WithinOneKept DEF Somewhere
  <2> QED
    BY <2>5, <2>6 DEF Somewhere
<1> QED
  BY <1>1, <1>5, ExactFrom

\* The commands up to the one being read, and that one.
LEMMA OneMoreCommand ==
  ASSUME program \in Programs, NEW c \in Conns, NEW n \in 0 .. Len(program[c]), n < Len(program[c])
  PROVE  /\ n + 1 \in 0 .. Len(program[c])
         /\ Append(SubSeq(program[c], 1, n), Cmd(c, n)) = SubSeq(program[c], 1, n + 1)
<1>1. PICK p \in Seq(Seq(Token)) : p = program[c]
  BY TextFacts
<1>2. PICK N \in Nat : N = Len(p)
  BY LenProperties
<1>3. n \in Nat /\ n + 1 \in 0 .. N /\ n + 1 \in 1 .. N /\ 1 \in 1 .. N /\ (n + 1) - 1 = n
  BY <1>1, <1>2
<1>4. SubSeq(p, 1, n + 1) = SubSeq(p, 1, (n + 1) - 1) \o <<p[n + 1]>>
  BY <1>1, <1>2, <1>3, SubSeqRecursiveSecond
<1>5. SubSeq(p, 1, n) \in Seq(Seq(Token))
  <2>1. \A i \in 1 .. n : p[i] \in Seq(Token)
    BY <1>1, <1>2, <1>3, ElementOfSeq
  <2> QED
    BY <1>3, <2>1, SubSeqProperties
<1>6. p[n + 1] \in Seq(Token)
  BY <1>1, <1>2, <1>3, ElementOfSeq
<1>7. Append(SubSeq(p, 1, n), p[n + 1]) = SubSeq(p, 1, n) \o <<p[n + 1]>>
  BY <1>5, <1>6, AppendIsConcat
<1> QED
  BY <1>1, <1>2, <1>3, <1>4, <1>7 DEF Cmd

\* What a handler has read is the beginning of the command.
LEMMA CommandRead ==
  ASSUME TypeInv, WholeCommands, NEW c \in Conns, NEW n \in 0 .. Len(program[c]), Reading(c, n),
         NEW a \in Nat, Len(handler[c].lines) = 2 * a, a + 1 <= Len(Cmd(c, n))
  PROVE  <<handler[c].name>> \o Args(c) = SubSeq(Cmd(c, n), 1, a + 1)
<1>1. program \in Programs /\ n < Len(program[c])
  BY DEF TypeInv, AccountOK, Reading
<1>2. PICK cmd \in Seq(Token) : cmd = Cmd(c, n)
  BY <1>1, CommandText
<1>3. PICK l \in Nat : l = Len(cmd) /\ a + 1 <= l
  BY <1>2, LenProperties
<1>4. PICK e \in Nat : e = End(c, n)
  BY <1>1, CommandText
<1>5. PICK lines \in Seq(Token) : lines = handler[c].lines
  BY DEF TypeInv, HandlersOK, HandlerSet
<1>6. Len(lines) = 2 * a
  BY <1>5
<1>7. (2 * a) \div 2 = a
  OBVIOUS
<1>8. PICK as \in Seq(Token) : as = Args(c)
  BY <1>5, ArgsFacts
<1>9. Len(as) = a /\ \A i \in 1 .. a : as[i] = lines[2 * i]
  <2>1. Len(as) = Len(lines) \div 2 /\ \A i \in 1 .. Len(lines) \div 2 : as[i] = lines[2 * i]
    BY <1>5, <1>8, ArgsFacts
  <2> QED
    BY <1>6, <1>7, <2>1
<1>10. \A i \in 1 .. 2 * a : lines[i] = Text(c)[e + 3 + i]
  BY <1>4, <1>5, <1>6 DEF Reading, ReadFrom
<1>11. \A i \in 1 .. l : Text(c)[e + 1 + 2 * i] = cmd[i]
  BY <1>1, <1>2, <1>3, <1>4, CommandText
<1>12. ASSUME NEW i \in 1 .. a PROVE as[i] = cmd[i + 1]
  <2>1. 2 * i \in 1 .. 2 * a /\ i + 1 \in 1 .. l /\ e + 1 + 2 * (i + 1) = e + 3 + 2 * i
    BY <1>3
  <2>2. lines[2 * i] = Text(c)[e + 3 + 2 * i]
    BY <1>10, <2>1
  <2>3. Text(c)[e + 1 + 2 * (i + 1)] = cmd[i + 1]
    BY <1>11, <2>1
  <2> QED
    BY <1>9, <2>1, <2>2, <2>3
<1>13. PICK w \in Token : w = handler[c].name /\ w = cmd[1]
  <2>1. 1 \in 1 .. l
    BY <1>3
  <2>2. cmd[1] \in Token
    BY <1>3, <2>1, ElementOfSeq
  <2> QED
    BY <1>2, <2>2 DEF Reading
<1>14. PICK g : g = <<w>> \o as
  OBVIOUS
<1>15. g \in Seq(Token) /\ Len(g) = a + 1 /\ g[1] = w /\ \A i \in 1 .. a : g[i + 1] = as[i]
  <2>1. /\ <<w>> \o as \in Seq(Token) /\ Len(as) \in Nat
        /\ Len(<<w>> \o as) = Len(as) + 1
        /\ (<<w>> \o as)[1] = w
        /\ \A i \in 1 .. Len(as) : (<<w>> \o as)[i + 1] = as[i]
    BY WordFacts
  <2>2. Len(as) = a
    BY <1>9
  <2> QED
    BY <1>14, <2>1, <2>2
<1>16. PICK s : s = SubSeq(cmd, 1, a + 1)
  OBVIOUS
<1>17. s \in Seq(Token) /\ Len(s) = a + 1 /\ \A i \in 1 .. a + 1 : s[i] = cmd[i]
  <2>1. \A i \in 1 .. a + 1 : cmd[i] \in Token
    <3>1. \A i \in 1 .. a + 1 : i \in 1 .. l
      BY <1>3
    <3> QED
      BY <1>3, <3>1, ElementOfSeq
  <2>2. /\ SubSeq(cmd, 1, a + 1) \in Seq(Token)
        /\ Len(SubSeq(cmd, 1, a + 1)) = IF 1 <= a + 1 THEN (a + 1) - 1 + 1 ELSE 0
        /\ \A i \in 1 .. (a + 1) - 1 + 1 : SubSeq(cmd, 1, a + 1)[i] = cmd[1 + i - 1]
    <3>1. 1 \in Int /\ a + 1 \in Int
      OBVIOUS
    <3> QED
      BY <2>1, <3>1, SubSeqProperties
  <2>3. \A i \in 1 .. a + 1 : i \in 1 .. (a + 1) - 1 + 1 /\ 1 + i - 1 = i
    OBVIOUS
  <2>4. 1 <= a + 1 /\ (a + 1) - 1 + 1 = a + 1
    OBVIOUS
  <2>5. Len(SubSeq(cmd, 1, a + 1)) = a + 1
    BY <2>2, <2>4
  <2>6. \A i \in 1 .. a + 1 : SubSeq(cmd, 1, a + 1)[i] = cmd[i]
    BY <2>2, <2>3
  <2> QED
    BY <1>16, <2>2, <2>5, <2>6
<1>18. ASSUME NEW i \in 1 .. a + 1 PROVE g[i] = cmd[i]
  <2>1. CASE i = 1
    BY <1>13, <1>15, <2>1
  <2>2. CASE i # 1
    <3>1. i - 1 \in 1 .. a /\ (i - 1) + 1 = i
      BY <2>2
    <3>2. g[(i - 1) + 1] = as[i - 1] /\ as[i - 1] = cmd[(i - 1) + 1]
      BY <1>12, <1>15, <3>1
    <3> QED
      BY <3>1, <3>2
  <2> QED
    BY <2>1, <2>2
<1>19. g = s
  <2>1. \A i \in 1 .. a + 1 : g[i] = s[i]
    BY <1>17, <1>18
  <2> QED
    BY <1>15, <1>17, <2>1, SeqEqual
<1> QED
  BY <1>2, <1>8, <1>13, <1>14, <1>16, <1>19

\* A handler that returns with the reader at the end of its command.
LEMMA CommandOver ==
  ASSUME TypeInv, WholeCommands, NEW c \in Conns, NEW n \in 0 .. Len(program[c]), n < Len(program[c]),
         UNCHANGED <<program, got, read, whole>>, handler'[c] = NoHandler,
         executed'[c] = SubSeq(program[c], 1, n + 1),
         read[c] = End(c, n + 1), c \in whole => got[c] = End(c, n + 1)
  PROVE  n + 1 \in 0 .. Len(program[c]) /\ Somewhere(c, n + 1)'
<1>1. program \in Programs
  BY DEF TypeInv, AccountOK
<1>2. n + 1 \in 0 .. Len(program[c]) /\ End(c, n + 1) \in Nat
  BY <1>1, CommandText
<1>3. End(c, n + 1)' = End(c, n + 1) /\ NoHandler' = NoHandler
  BY SameProgram
<1>4. WithinOne(c, n + 1)'
  BY <1>3 DEF WithinOne
<1>5. At(c, n + 1, 0)'
  <2>1. read'[c] = End(c, n + 1) + 0
    BY <1>2
  <2> QED
    BY <1>3, <2>1 DEF At
<1>6. Between(c, n + 1)'
  <2>1. executed'[c] = SubSeq(program'[c], 1, n + 1)
    OBVIOUS
  <2>2. 0 \in 0 .. 2 /\ ~(0 > 0)
    OBVIOUS
  <2> QED
    BY <1>3, <1>5, <2>1, <2>2 DEF Between
<1> QED
  BY <1>2, <1>4, <1>6 DEF Somewhere

\* A handler that has read its whole command and carries it out.
LEMMA ReadingDone ==
  ASSUME TypeInv, WholeCommands, NEW c \in Conns, NEW n \in 0 .. Len(program[c]),
         Reading(c, n), Dependable(c), WithinOne(c, n),
         Len(handler[c].lines) = 2 * (Len(Cmd(c, n)) - 1),
         Done(c), handler'[c] = NoHandler, UNCHANGED <<program, got, read, whole>>
  PROVE  n + 1 \in 0 .. Len(program[c]) /\ Somewhere(c, n + 1)'
<1>1. program \in Programs /\ n < Len(program[c])
  BY DEF TypeInv, AccountOK, Reading
<1>2. PICK l : l = Len(Cmd(c, n))
  OBVIOUS
<1>3. PICK e : e = End(c, n)
  OBVIOUS
<1>4. /\ l \in Nat \ {0} /\ e \in Nat /\ End(c, n + 1) = e + 2 * (l - 1) + 3
      /\ c \in whole => got[c] = End(c, n + 1)
  <2>1. /\ Len(Cmd(c, n)) \in Nat \ {0} /\ End(c, n) \in Nat
        /\ End(c, n + 1) = End(c, n) + 2 * (Len(Cmd(c, n)) - 1) + 3
        /\ c \in whole => got[c] = End(c, n + 1)
    BY ReadingMore
  <2> QED
    BY <1>2, <1>3, <2>1
<1>5. PICK a \in Nat : a = l - 1 /\ a + 1 = l
  <2>1. l \in Nat \ {0}
    BY <1>4
  <2>2. l - 1 \in Nat /\ (l - 1) + 1 = l
    BY <2>1
  <2> QED
    BY <2>2
<1>6. Len(handler[c].lines) = 2 * a
  BY <1>2, <1>5
<1>7. <<handler[c].name>> \o Args(c) = Cmd(c, n)
  <2>1. a + 1 <= Len(Cmd(c, n))
    BY <1>2, <1>4, <1>5
  <2>2. <<handler[c].name>> \o Args(c) = SubSeq(Cmd(c, n), 1, a + 1)
    BY <1>6, <2>1, CommandRead
  <2>3. Cmd(c, n) \in Seq(Token)
    BY <1>1, CommandText
  <2>4. SubSeq(Cmd(c, n), 1, Len(Cmd(c, n))) = Cmd(c, n)
    BY <2>3, SubSeqFull
  <2> QED
    BY <1>2, <1>5, <2>2, <2>4
<1>8. executed'[c] = SubSeq(program[c], 1, n + 1)
  <2>1. executed'[c] = Append(executed[c], Cmd(c, n))
    BY <1>7 DEF Done, TypeInv, HandlersOK
  <2>2. executed[c] = SubSeq(program[c], 1, n)
    BY DEF Reading
  <2> QED
    BY <1>1, <2>1, <2>2, OneMoreCommand
<1>9. read[c] = End(c, n + 1)
  <2>1. read[c] = e + (3 + 2 * a)
    BY <1>3, <1>6 DEF Reading, At
  <2>2. End(c, n + 1) = e + 2 * a + 3
    BY <1>4, <1>5
  <2> QED
    BY <1>4, <1>5, <2>1, <2>2
<1> QED
  BY <1>1, <1>4, <1>8, <1>9, CommandOver

\* All handlers but SET's return when they have carried out what they have read.
LEMMA ExactDone ==
  ASSUME TypeInv, WholeCommands, NEW c \in Conns, Exact(c),
         handler[c].name \in Names \ {"SET"}, ~More(c), Done(c),
         handler' = [handler EXCEPT ![c] = NoHandler],
         UNCHANGED <<program, got, read, whole, refused>>
  PROVE  Exact(c)'
<1>1. handler'[c] = NoHandler
  BY HandlerOf
<1>2. ASSUME NEW n \in 0 .. Len(program[c]), Dependable(c), Somewhere(c, n)
      PROVE  \E k \in 0 .. Len(program[c]) : Somewhere(c, k)'
  <2>1. Reading(c, n) /\ WithinOne(c, n)
    BY <1>2, BetweenOnly DEF Somewhere
  <2>2. Len(handler[c].lines) = 2 * (Len(Cmd(c, n)) - 1)
    BY <1>2, <2>1, ReadingMore
  <2>3. n + 1 \in 0 .. Len(program[c]) /\ Somewhere(c, n + 1)'
    BY <1>1, <1>2, <2>1, <2>2, ReadingDone
  <2> QED
    BY <2>3
<1> QED
  BY <1>2, ExactFrom

\* SET answers, and looks for an option only where one has come with it.
LEMMA ExactSetAnswers ==
  ASSUME TypeInv, WholeCommands, NEW c \in Conns, Exact(c), SetAnswers(c)
  PROVE  Exact(c)'
<1>1. /\ handler[c].name = "SET" /\ ~More(c) /\ Done(c)
      /\ UNCHANGED <<program, got, read, whole, refused>>
  BY DEF SetAnswers, Ready
<1>2. PICK h : h = IF Buffered(c) > 0 THEN [name |-> "SET-OPTION", lines |-> <<>>] ELSE NoHandler
  OBVIOUS
<1>3. handler'[c] = h
  <2>1. handler' = [handler EXCEPT ![c] = h]
    BY <1>2 DEF SetAnswers
  <2> QED
    BY <2>1, HandlerOf
<1>4. ASSUME NEW n \in 0 .. Len(program[c]), Dependable(c), Somewhere(c, n)
      PROVE  \E k \in 0 .. Len(program[c]) : Somewhere(c, k)'
  <2>1. Reading(c, n) /\ WithinOne(c, n)
    BY <1>1, <1>4, BetweenOnly, NotNames DEF Somewhere
  <2>2. program \in Programs /\ n < Len(program[c])
    BY <2>1 DEF TypeInv, AccountOK, Reading
  <2>3. PICK l : l = Len(Cmd(c, n))
    OBVIOUS
  <2>4. PICK e : e = End(c, n)
    OBVIOUS
  <2>5. PICK m : m = Len(handler[c].lines)
    OBVIOUS
  <2>6. /\ l \in Nat \ {0} /\ m \in Nat /\ e \in Nat
        /\ End(c, n + 1) = e + 2 * (l - 1) + 3
        /\ m = 2 * (l - 1) \/ (m = 4 /\ l = 5)
    BY <1>1, <1>4, <2>1, <2>3, <2>4, <2>5, ReadingMore
  <2>7. c \in whole /\ got[c] = End(c, n + 1)
    <3>1. Cmd(c, n)[1] = "SET"
      BY <1>1, <2>1 DEF Reading
    <3> QED
      BY <1>4, <2>1, <3>1, ReadingMore
  <2>8. read[c] = e + (3 + m)
    BY <2>1, <2>4, <2>5 DEF Reading, At
  <2>9. m = 4 /\ (l = 3 \/ l = 5)
    <3>1. m <= 4
      BY <1>1, <2>1, <2>5 DEF Reading
    <3>2. l = 3 \/ l = 5
      <4>1. Complete(Cmd(c, n))
        BY <2>2, CommandText
      <4>2. Cmd(c, n)[1] = "SET"
        BY <1>1, <2>1 DEF Reading
      <4> QED
        BY <2>3, <4>1, <4>2 DEF Complete
    <3> QED
      BY <2>6, <3>1, <3>2
  <2>10. CASE l = 3
    <3>1. Buffered(c) = 0
      BY <2>6, <2>7, <2>8, <2>9, <2>10 DEF Buffered
    <3>2. handler'[c] = NoHandler
      BY <1>2, <1>3, <3>1
    <3>3. Len(handler[c].lines) = 2 * (Len(Cmd(c, n)) - 1)
      BY <2>3, <2>5, <2>9, <2>10
    <3>4. n + 1 \in 0 .. Len(program[c]) /\ Somewhere(c, n + 1)'
      BY <1>1, <1>4, <2>1, <3>2, <3>3, ReadingDone
    <3> QED
      BY <3>4
  <2>11. CASE l = 5
    <3>1. Buffered(c) > 0
      BY <2>6, <2>7, <2>8, <2>9, <2>11 DEF Buffered
    <3>2. handler'[c].name = "SET-OPTION" /\ handler'[c].lines = <<>>
      BY <1>2, <1>3, <3>1
    <3>3. Len(handler'[c].lines) = 0
      BY <3>2, EmptySeq
    <3>4. executed'[c] = Append(SubSeq(program[c], 1, n), SubSeq(Cmd(c, n), 1, 3))
      <4>1. Len(handler[c].lines) = 2 * 2 /\ 2 + 1 <= Len(Cmd(c, n))
        BY <2>3, <2>5, <2>9, <2>11
      <4>2. <<handler[c].name>> \o Args(c) = SubSeq(Cmd(c, n), 1, 2 + 1)
        BY <2>1, <4>1, CommandRead
      <4>3. 2 + 1 = 3
        OBVIOUS
      <4>4. executed'[c] = Append(executed[c], SubSeq(Cmd(c, n), 1, 3))
        BY <1>1, <4>2, <4>3 DEF Done, TypeInv, HandlersOK
      <4> QED
        BY <2>1, <4>4 DEF Reading
    <3>5. /\ Len(program'[c]) = Len(program[c]) /\ program'[c] = program[c]
          /\ Text(c)' = Text(c) /\ End(c, n)' = e /\ Cmd(c, n)' = Cmd(c, n)
      BY <1>1, <2>4, SameProgram
    <3>6. read'[c] = e + (7 + 0)
      BY <1>1, <2>6, <2>8, <2>9
    <3>7. At(c, n, 7 + Len(handler[c].lines))'
      BY <3>3, <3>5, <3>6 DEF At
    <3>8. ReadFrom(c, End(c, n) + 7)'
      BY <3>3 DEF ReadFrom
    <3>9. Cmd(c, n)[1] = "SET"
      BY <1>1, <2>1 DEF Reading
    <3>10. Option(c, n)'
      <4>1. /\ n < Len(program'[c]) /\ Cmd(c, n)'[1] = "SET" /\ Len(Cmd(c, n)') = 5
            /\ executed'[c] = Append(SubSeq(program'[c], 1, n), SubSeq(Cmd(c, n)', 1, 3))
        BY <2>2, <2>3, <2>11, <3>4, <3>5, <3>9
      <4>2. Len(handler'[c].lines) <= 2
        BY <3>3
      <4>3. 7 \in {7, 9} /\ handler'[c].name = IF 7 = 7 THEN "SET-OPTION" ELSE "PX"
        BY <3>2
      <4> QED
        BY <3>7, <3>8, <4>1, <4>2, <4>3 DEF Option
    <3>11. WithinOne(c, n)'
      BY <1>1, <2>1, WithinOneKept
    <3>12. Somewhere(c, n)'
      BY <3>10, <3>11 DEF Somewhere
    <3> QED
      BY <3>12
  <2> QED
    BY <2>9, <2>10, <2>11
<1> QED
  BY <1>1, <1>4, ExactFrom

\* The word a handler behind the answer of SET has read.
LEMMA OptionRead ==
  ASSUME TypeInv, WholeCommands, NEW c \in Conns, NEW n \in 0 .. Len(program[c]),
         Option(c, n), Dependable(c), WithinOne(c, n), ~More(c),
         NEW k \in {4, 5}, ReadFrom(c, End(c, n) + 2 * k - 1)
  PROVE  Args(c) = <<Cmd(c, n)[k]>> /\ Len(handler[c].lines) = 2
<1>1. program \in Programs /\ n < Len(program[c])
  BY DEF TypeInv, AccountOK, Option
<1>2. PICK cmd \in Seq(Token) : cmd = Cmd(c, n) /\ Len(cmd) = 5
  BY <1>1, CommandText DEF Option
<1>3. PICK e \in Nat : e = End(c, n)
  BY <1>1, CommandText
<1>4. PICK lines \in Seq(Token) : lines = handler[c].lines
  BY OptionMore
<1>5. Len(lines) = 2
  <2>1. PICK m : m = Len(handler[c].lines)
    OBVIOUS
  <2>2. m \in 0 .. 2 /\ (More(c) <=> m < 2)
    BY <2>1, OptionMore
  <2>3. m = 2
    BY <2>2
  <2> QED
    BY <1>4, <2>1, <2>3
<1>6. lines[2] = cmd[k]
  <2>1. \A i \in 1 .. 2 : lines[i] = Text(c)[e + 2 * k - 1 + i]
    BY <1>3, <1>4, <1>5 DEF ReadFrom
  <2>2. 2 \in 1 .. 2 /\ k \in 1 .. 5
    OBVIOUS
  <2>5. e + 2 * k - 1 + 2 = e + 1 + 2 * k
    OBVIOUS
  <2>3. lines[2] = Text(c)[e + 1 + 2 * k]
    BY <2>1, <2>2, <2>5
  <2>4. Text(c)[e + 1 + 2 * k] = cmd[k]
    <3>1. \A i \in 1 .. Len(cmd) : Text(c)[e + 1 + 2 * i] = cmd[i]
      BY <1>1, <1>2, <1>3, CommandText
    <3>2. \A i \in 1 .. 5 : Text(c)[e + 1 + 2 * i] = cmd[i]
      BY <1>2, <3>1
    <3> QED
      BY <2>2, <3>2
  <2> QED
    BY <2>3, <2>4
<1>7. cmd[k] \in Token
  <2>1. k \in 1 .. 5
    OBVIOUS
  <2> QED
    BY <1>2, <2>1, ElementOfSeq
<1>8. PICK as \in Seq(Token) : as = Args(c)
  BY <1>4, ArgsFacts
<1>9. Len(as) = 1 /\ as[1] = lines[2]
  <2>1. Len(as) = Len(lines) \div 2 /\ \A i \in 1 .. Len(lines) \div 2 : as[i] = lines[2 * i]
    BY <1>4, <1>8, ArgsFacts
  <2>2. 2 \div 2 = 1
    OBVIOUS
  <2>3. Len(lines) \div 2 = 1
    BY <1>5, <2>2, Zenon
  <2>4. Len(as) = 1 /\ \A i \in 1 .. 1 : as[i] = lines[2 * i]
    BY <2>1, <2>3
  <2>5. 1 \in 1 .. 1 /\ 2 * 1 = 2
    OBVIOUS
  <2> QED
    BY <2>4, <2>5
<1>10. as = <<cmd[k]>>
  <2>1. PICK w : w = cmd[k]
    OBVIOUS
  <2>2. <<w>> \in Seq(Token) /\ Len(<<w>>) = 1 /\ <<w>>[1] = w
    BY <1>7, <2>1
  <2>3. \A i \in 1 .. Len(as) : as[i] = <<w>>[i]
    <3>1. as[1] = w
      BY <1>6, <1>9, <2>1
    <3>2. \A i \in 1 .. Len(as) : i = 1
      BY <1>9
    <3> QED
      BY <2>2, <3>1, <3>2
  <2>4. as = <<w>>
    BY <1>9, <2>2, <2>3, SeqEqual
  <2> QED
    BY <2>1, <2>4
<1> QED
  BY <1>2, <1>4, <1>5, <1>8, <1>10

\* The option is PX, whose deadline is read next.
LEMMA ExactSetOption ==
  ASSUME TypeInv, WholeCommands, NEW c \in Conns, Exact(c), SetOption(c)
  PROVE  Exact(c)'
<1>1. /\ handler[c].name = "SET-OPTION" /\ ~More(c)
      /\ UNCHANGED <<program, got, read, whole, refused, executed>>
  BY DEF SetOption, Ready
<1>2. ASSUME NEW n \in 0 .. Len(program[c]), Dependable(c), Somewhere(c, n)
      PROVE  Somewhere(c, n)'
  <2>1. Option(c, n) /\ WithinOne(c, n)
    BY <1>1, <1>2, BetweenOnly DEF Somewhere
  <2>2. program \in Programs /\ n < Len(program[c])
    BY <2>1 DEF TypeInv, AccountOK, Option
  <2>3. PICK e \in Nat : e = End(c, n)
    BY <2>2, CommandText
  <2>4. PICK b \in {7, 9} : /\ handler[c].name = (IF b = 7 THEN "SET-OPTION" ELSE "PX")
                            /\ read[c] = e + (b + Len(handler[c].lines)) /\ ReadFrom(c, e + b)
    BY <2>1, <2>3 DEF Option, At
  <2>5. b = 7
    BY <1>1, <2>4
  <2>6. ReadFrom(c, End(c, n) + 2 * 4 - 1)
    <3>1. e + 2 * 4 - 1 = e + 7
      OBVIOUS
    <3> QED
      BY <2>3, <2>4, <2>5, <3>1
  <2>7. Args(c) = <<Cmd(c, n)[4]>> /\ Len(handler[c].lines) = 2
    BY <1>1, <1>2, <2>1, <2>6, OptionRead
  <2>8. Cmd(c, n)[4] = "PX"
    <3>1. Complete(Cmd(c, n))
      BY <2>2, CommandText
    <3>2. Cmd(c, n)[1] = "SET" /\ Len(Cmd(c, n)) = 5
      BY <2>1 DEF Option
    <3> QED
      BY <3>1, <3>2 DEF Complete
  <2>9. PICK h : h = [name |-> "PX", lines |-> <<>>]
    OBVIOUS
  <2>10. handler'[c] = h
    <3>1. Args(c) = <<"PX">>
      BY <2>7, <2>8
    <3>2. handler' = [handler EXCEPT ![c] = h]
      BY <2>9, <3>1 DEF SetOption
    <3> QED
      BY <3>2, HandlerOf
  <2>11. handler'[c].name = "PX" /\ handler'[c].lines = <<>> /\ Len(handler'[c].lines) = 0
    BY <2>9, <2>10, EmptySeq
  <2>12. /\ Len(program'[c]) = Len(program[c]) /\ program'[c] = program[c]
         /\ Text(c)' = Text(c) /\ End(c, n)' = e /\ Cmd(c, n)' = Cmd(c, n)
    BY <1>1, <2>3, SameProgram
  <2>13. At(c, n, 9 + Len(handler[c].lines))'
    <3>1. read'[c] = e + (9 + 0)
      BY <1>1, <2>4, <2>5, <2>7
    <3> QED
      BY <2>11, <2>12, <3>1 DEF At
  <2>14. ReadFrom(c, End(c, n) + 9)'
    BY <2>11 DEF ReadFrom
  <2>15. /\ n < Len(program'[c]) /\ Cmd(c, n)'[1] = "SET" /\ Len(Cmd(c, n)') = 5
         /\ executed'[c] = Append(SubSeq(program'[c], 1, n), SubSeq(Cmd(c, n)', 1, 3))
    BY <1>1, <2>1, <2>12 DEF Option
  <2>16. Len(handler'[c].lines) <= 2
    BY <2>11
  <2>17. 9 \in {7, 9} /\ handler'[c].name = IF 9 = 7 THEN "SET-OPTION" ELSE "PX"
    BY <2>11
  <2>18. Option(c, n)'
    BY <2>13, <2>14, <2>15, <2>16, <2>17 DEF Option
  <2>19. WithinOne(c, n)'
    BY <1>1, <2>1, WithinOneKept
  <2> QED
    BY <2>18, <2>19 DEF Somewhere
<1> QED
  BY <1>1, <1>2, ExactFrom

\* A SET with an option is its first three words, and two more.
LEMMA SetInParts ==
  ASSUME NEW cmd \in Seq(Token), Len(cmd) = 5, cmd[4] = "PX"
  PROVE  SubSeq(cmd, 1, 3) \o <<"PX">> \o <<cmd[5]>> = cmd
<1>1. 1 \in 1 .. Len(cmd) /\ 4 \in 1 .. Len(cmd) /\ 5 \in 1 .. Len(cmd) /\ 4 - 1 = 3 /\ 5 - 1 = 4
  OBVIOUS
<1>2. SubSeq(cmd, 1, 4) = SubSeq(cmd, 1, 4 - 1) \o <<cmd[4]>>
  BY <1>1, SubSeqRecursiveSecond
<1>3. SubSeq(cmd, 1, 5) = SubSeq(cmd, 1, 5 - 1) \o <<cmd[5]>>
  BY <1>1, SubSeqRecursiveSecond
<1>4. SubSeq(cmd, 1, 5) = cmd
  BY SubSeqFull
<1>5. SubSeq(cmd, 1, 4) = SubSeq(cmd, 1, 3) \o <<"PX">>
  BY <1>1, <1>2
<1>6. SubSeq(cmd, 1, 5) = SubSeq(cmd, 1, 4) \o <<cmd[5]>>
  BY <1>1, <1>3
<1> QED
  BY <1>4, <1>5, <1>6

\* The deadline completes the SET that was answered.
LEMMA ExactSetDeadline ==
  ASSUME TypeInv, WholeCommands, NEW c \in Conns, Exact(c), SetDeadline(c)
  PROVE  Exact(c)'
<1>1. /\ handler[c].name = "PX" /\ ~More(c)
      /\ UNCHANGED <<program, got, read, whole, refused>> /\ handler'[c] = NoHandler
  <2>1. handler' = [handler EXCEPT ![c] = NoHandler]
    BY DEF SetDeadline, Returns
  <2> QED
    BY <2>1, HandlerOf DEF SetDeadline, Ready
<1>2. ASSUME NEW n \in 0 .. Len(program[c]), Dependable(c), Somewhere(c, n)
      PROVE  \E k \in 0 .. Len(program[c]) : Somewhere(c, k)'
  <2>1. Option(c, n) /\ WithinOne(c, n)
    BY <1>1, <1>2, BetweenOnly DEF Somewhere
  <2>2. program \in Programs /\ n < Len(program[c]) /\ n \in Nat
    BY <2>1 DEF TypeInv, AccountOK, Option
  <2>3. PICK e \in Nat : e = End(c, n)
    BY <2>2, CommandText
  <2>4. PICK b \in {7, 9} : /\ handler[c].name = (IF b = 7 THEN "SET-OPTION" ELSE "PX")
                            /\ read[c] = e + (b + Len(handler[c].lines)) /\ ReadFrom(c, e + b)
    BY <2>1, <2>3 DEF Option, At
  <2>5. b = 9
    BY <1>1, <2>4
  <2>6. ReadFrom(c, End(c, n) + 2 * 5 - 1)
    <3>1. e + 2 * 5 - 1 = e + 9
      OBVIOUS
    <3> QED
      BY <2>3, <2>4, <2>5, <3>1
  <2>7. Args(c) = <<Cmd(c, n)[5]>> /\ Len(handler[c].lines) = 2
    BY <1>1, <1>2, <2>1, <2>6, OptionRead
  <2>8. PICK cmd \in Seq(Token) : cmd = Cmd(c, n)
    BY <2>2, CommandText
  <2>9. Len(cmd) = 5 /\ cmd[4] = "PX"
    <3>1. Complete(cmd)
      BY <2>2, <2>8, CommandText
    <3>2. cmd[1] = "SET" /\ Len(cmd) = 5
      BY <2>1, <2>8 DEF Option
    <3> QED
      BY <3>1, <3>2 DEF Complete
  <2>10. PICK first : first = SubSeq(program[c], 1, n)
    OBVIOUS
  <2>11. first \in Seq(Seq(Token)) /\ Len(first) = n
    <3>1. PICK p \in Seq(Seq(Token)) : p = program[c]
      BY <2>2, TextFacts
    <3>2. PICK N \in Nat : N = Len(p)
      BY LenProperties
    <3>3. \A i \in 1 .. n : p[i] \in Seq(Token)
      <4>1. \A i \in 1 .. n : i \in 1 .. Len(p)
        BY <3>1, <3>2
      <4> QED
        BY <4>1, ElementOfSeq
    <3>4. 1 \in Int /\ n \in Int
      BY <2>2
    <3>5. SubSeq(p, 1, n) \in Seq(Seq(Token)) /\ Len(SubSeq(p, 1, n)) = IF 1 <= n THEN n - 1 + 1 ELSE 0
      BY <3>3, <3>4, SubSeqProperties
    <3>6. (IF 1 <= n THEN n - 1 + 1 ELSE 0) = n
      BY <2>2
    <3> QED
      BY <2>10, <3>1, <3>5, <3>6
  <2>12. PICK set \in Seq(Token) : set = SubSeq(cmd, 1, 3)
    <3>1. \A i \in 1 .. 3 : i \in 1 .. Len(cmd)
      BY <2>9
    <3>2. \A i \in 1 .. 3 : cmd[i] \in Token
      BY <3>1, ElementOfSeq
    <3>3. 1 \in Int /\ 3 \in Int
      OBVIOUS
    <3> QED
      BY <3>2, <3>3, SubSeqProperties
  <2>13. executed[c] = Append(first, set)
    BY <2>1, <2>8, <2>10, <2>12 DEF Option
  <2>14. PICK after : after = executed'[c]
    OBVIOUS
  <2>15. /\ Len(executed[c]) = n + 1 /\ executed[c][n + 1] = set
         /\ \A i \in 1 .. n : executed[c][i] = first[i]
    BY <2>11, <2>13, AppendProperties
  <2>16. /\ after \in Seq(Seq(Token)) /\ Len(after) = n + 1
         /\ \A i \in 1 .. (n + 1) - 1 : after[i] = executed[c][i]
         /\ after[n + 1] = set \o <<"PX">> \o Args(c)
    BY <2>14, <2>15, DeadlineAdded
  <2>17. after[n + 1] = cmd
    BY <2>7, <2>8, <2>9, <2>12, <2>16, SetInParts
  <2>18. (n + 1) - 1 = n
    BY <2>2
  <2>19. PICK all : all = Append(first, cmd)
    OBVIOUS
  <2>20. /\ all \in Seq(Seq(Token)) /\ Len(all) = n + 1 /\ all[n + 1] = cmd
         /\ \A i \in 1 .. n : all[i] = first[i]
    BY <2>11, <2>19, AppendProperties
  <2>21. after = all
    <3>1. ASSUME NEW i \in 1 .. n + 1 PROVE after[i] = all[i]
      <4>1. i \in 1 .. n \/ i = n + 1
        BY <2>2
      <4> QED
        BY <2>15, <2>16, <2>17, <2>18, <2>20, <4>1
    <3>2. \A i \in 1 .. Len(after) : after[i] = all[i]
      BY <2>16, <3>1
    <3>3. Len(after) = Len(all)
      BY <2>16, <2>20
    <3> QED
      BY <2>16, <2>20, <3>2, <3>3, SeqEqual
  <2>22. executed'[c] = SubSeq(program[c], 1, n + 1)
    BY <2>2, <2>8, <2>10, <2>14, <2>19, <2>21, OneMoreCommand
  <2>23. End(c, n + 1) = e + 11 /\ c \in whole /\ got[c] = End(c, n + 1)
    BY <1>2, <2>1, <2>3, OptionMore
  <2>24. read[c] = End(c, n + 1)
    BY <2>4, <2>5, <2>7, <2>23
  <2>25. n + 1 \in 0 .. Len(program[c]) /\ Somewhere(c, n + 1)'
    BY <1>1, <2>2, <2>22, <2>23, <2>24, CommandOver
  <2> QED
    BY <2>25
<1> QED
  BY <1>1, <1>2, ExactFrom

\* What each handler leaves the connection that runs it with.
LEMMA ExactHandle ==
  ASSUME TypeInv, UpdatesOK, WholeCommands, NEW c \in Conns, Exact(c), Handle(c) PROVE Exact(c)'
<1>1. CASE Simple(c) \/ AclReads(c)
  <2>1. /\ handler[c].name \in Names \ {"SET"} /\ ~More(c) /\ Done(c)
        /\ UNCHANGED <<program, got, read, whole, refused>>
    BY <1>1 DEF Simple, AclReads, Ready, Names
  <2>2. handler' = [handler EXCEPT ![c] = NoHandler]
    BY <1>1 DEF Simple, AclReads, Returns
  <2> QED
    BY <2>1, <2>2, ExactDone
<1>2. CASE Auth(c)
  <2>1. /\ handler[c].name \in Names \ {"SET"} /\ ~More(c)
        /\ UNCHANGED <<program, got, read, whole, refused>>
    BY <1>2 DEF Auth, Ready, Names, TwoArguments
  <2>2. CASE Args(c)[1] # Default
    <3>1. UNCHANGED <<handler, executed>>
      BY <1>2, <2>2 DEF Auth
    <3> QED
      BY <2>1, <3>1, ExactFrame
  <2>3. CASE Args(c)[1] = Default
    <3>1. Done(c) /\ handler' = [handler EXCEPT ![c] = NoHandler]
      BY <1>2, <2>3 DEF Auth, Returns
    <3> QED
      BY <2>1, <3>1, ExactDone
  <2> QED
    BY <2>2, <2>3
<1>3. CASE SetUserReads(c) \/ SetUserAppends(c)
  <2>1. UNCHANGED <<program, got, read, whole, refused, handler, executed>>
    BY <1>3 DEF SetUserReads, SetUserAppends, stream
  <2> QED
    BY <2>1, ExactFrame
<1>4. CASE SetUserScans(c) \/ SetUserCuts(c)
  <2>1. update[c] # NoUpdate
    BY <1>4, NoUpdateType DEF SetUserScans, SetUserCuts
  <2>2. handler[c].name \in Names \ {"SET"} /\ ~More(c)
    <3>1. GivesPassword(c)
      BY <2>1 DEF UpdatesOK
    <3>2. handler[c].name = "ACL"
      BY <3>1 DEF GivesPassword
    <3> QED
      BY <3>1, <3>2, GiverWaitsForNothing DEF Names
  <2>3. UNCHANGED <<program, got, read, whole, refused>>
    BY <1>4 DEF SetUserScans, SetUserCuts
  <2>4. \/ UNCHANGED <<handler, executed>>
        \/ Done(c) /\ handler' = [handler EXCEPT ![c] = NoHandler]
    BY <1>4 DEF SetUserScans, SetUserCuts, Returns
  <2> QED
    BY <2>2, <2>3, <2>4, ExactFrame, ExactDone
<1> QED
  BY <1>1, <1>2, <1>3, <1>4, ExactSetAnswers, ExactSetOption, ExactSetDeadline DEF Handle

\* A connection's own steps are the only ones that move it.
LEMMA OthersStay ==
  ASSUME TypeInv, NEW c \in Conns, Accept(c) \/ Client(c) \/ Serve(c), NEW d \in Conns, d # c
  PROVE  /\ program' = program /\ got'[d] = got[d] /\ read'[d] = read[d]
         /\ handler'[d] = handler[d] /\ executed'[d] = executed[d]
         /\ d \in refused => d \in refused'
         /\ d \in whole' => d \in whole
<1> USE DEF TypeInv, StreamsOK, HandlersOK
<1>1. CASE Accept(c) \/ Send(c) \/ Close(c)
  BY <1>1 DEF Accept, Send, Close
<1>2. CASE \E n \in 1 .. Len(Text(c)) : Fill(c, n)
  BY <1>2 DEF Fill
<1>3. CASE ReadCommand(c)
  BY <1>3 DEF ReadCommand
<1>4. CASE ReadArgument(c)
  BY <1>4 DEF ReadArgument
<1>5. CASE EndOfFile(c)
  BY <1>5 DEF EndOfFile
<1>6. CASE Simple(c) \/ AclReads(c) \/ SetUserScans(c) \/ SetUserCuts(c)
  BY <1>6 DEF Simple, AclReads, SetUserScans, SetUserCuts, Done, Returns
<1>7. CASE SetAnswers(c) \/ SetOption(c) \/ SetDeadline(c)
  BY <1>7 DEF SetAnswers, SetOption, SetDeadline, Done, Returns
<1>8. CASE Auth(c)
  BY <1>8 DEF Auth, Done, Returns
<1>9. CASE SetUserReads(c) \/ SetUserAppends(c)
  BY <1>9 DEF SetUserReads, SetUserAppends, stream
<1> QED
  BY <1>1, <1>2, <1>3, <1>4, <1>5, <1>6, <1>7, <1>8, <1>9 DEF Client, Serve, Handle

\* A client that has closed its end has sent everything, and sends no more.
LEMMA ClosedStep ==
  ASSUME TypeInv, \A c \in closed : sent[c] = Len(Text(c)), [Next]_vars
  PROVE  \A c \in closed' : sent'[c] = Len(Text(c)')
<1>1. program' = program
  <2>1. CASE UNCHANGED vars
    BY <2>1 DEF vars
  <2>2. ASSUME NEW c \in Conns, Accept(c) \/ Client(c) \/ Serve(c) PROVE program' = program
    <3>1. CASE Accept(c) \/ Client(c)
      BY <3>1 DEF Accept, Client, Send, Close
    <3>2. CASE (\E n \in 1 .. Len(Text(c)) : Fill(c, n)) \/ ReadCommand(c) \/ ReadArgument(c) \/ EndOfFile(c)
      BY <3>2 DEF Fill, ReadCommand, ReadArgument, EndOfFile
    <3>3. CASE Handle(c)
      BY <3>3 DEF stream, Handle, Simple, SetAnswers, SetOption, SetDeadline, Auth, AclReads,
             SetUserReads, SetUserAppends, SetUserScans, SetUserCuts
    <3> QED
      BY <2>2, <3>1, <3>2, <3>3 DEF Serve
  <2> QED
    BY <2>1, <2>2 DEF Next
<1>2. \A c : Text(c)' = Text(c)
  BY <1>1, SameProgram
<1>3. CASE UNCHANGED <<closed, sent>>
  BY <1>2, <1>3
<1>4. ASSUME NEW c \in Conns, Send(c) PROVE \A d \in closed' : sent'[d] = Len(Text(d)')
  <2>1. c \notin closed /\ closed' = closed /\ \A d \in closed : d # c => sent'[d] = sent[d]
    BY <1>4 DEF Send, TypeInv, StreamsOK
  <2> QED
    BY <1>2, <2>1
<1>5. ASSUME NEW c \in Conns, Close(c) PROVE \A d \in closed' : sent'[d] = Len(Text(d)')
  BY <1>2, <1>5 DEF Close
<1>6. ASSUME NEW c \in Conns, Accept(c) \/ Serve(c) PROVE UNCHANGED <<closed, sent>>
  BY <1>6 DEF stream, Accept, Serve, Fill, ReadCommand, ReadArgument,
         EndOfFile, Handle, Simple, SetAnswers, SetOption, SetDeadline, Auth, AclReads,
         SetUserReads, SetUserAppends, SetUserScans, SetUserCuts
<1>7. CASE UNCHANGED vars
  BY <1>3, <1>7 DEF vars, stream
<1> QED
  BY <1>3, <1>4, <1>5, <1>6, <1>7 DEF Next, Client

\* No step takes a dependable connection off its program.
LEMMA ExactStep ==
  ASSUME TypeInv, UpdatesOK, WholeCommands, ExactInv, [Next]_vars PROVE ExactInv'
<1>1. \A c \in closed' : sent'[c] = Len(Text(c)')
  BY ClosedStep DEF ExactInv
<1>2. CASE UNCHANGED vars
  <2>1. \A d \in Conns : Exact(d)'
    BY <1>2, ExactFrame DEF ExactInv, vars, stream
  <2> QED
    BY <1>1, <2>1 DEF ExactInv
<1>3. ASSUME NEW c \in Conns, Accept(c) \/ Client(c) \/ Serve(c), NEW d \in Conns PROVE Exact(d)'
  <2>1. CASE d # c
    BY <1>3, <2>1, OthersStay, ExactFrame DEF ExactInv
  <2>2. Exact(c)'
    <3>1. Exact(c)
      BY DEF ExactInv
    <3>2. CASE Accept(c) \/ Send(c) \/ Close(c)
      <4>1. UNCHANGED <<program, got, read, whole, refused, handler, executed>>
        BY <3>2 DEF Accept, Send, Close
      <4> QED
        BY <3>1, <4>1, ExactFrame
    <3>3. CASE \E n \in 1 .. Len(Text(c)) : Fill(c, n)
      BY <3>1, <3>3, ExactFill
    <3>4. CASE EndOfFile(c)
      BY <3>1, <3>4, ExactEndOfFile DEF ExactInv
    <3>5. CASE ReadCommand(c) \/ ReadArgument(c) \/ Handle(c)
      BY <3>1, <3>5, ExactReadCommand, ExactReadArgument, ExactHandle
    <3> QED
      BY <1>3, <3>2, <3>3, <3>4, <3>5 DEF Client, Serve
  <2> QED
    BY <2>1, <2>2
<1> QED
  BY <1>1, <1>2, <1>3 DEF Next, ExactInv

\* Nothing is sent, and no command is done.
LEMMA ExactInit == Init => ExactInv
<1> SUFFICES ASSUME Init PROVE ExactInv
  OBVIOUS
<1>1. program \in Programs /\ closed = {}
  BY DEF Init
<1>2. ASSUME NEW c \in Conns PROVE Exact(c)
  <2>1. got[c] = 0 /\ read[c] = 0 /\ handler[c] = NoHandler /\ executed[c] = <<>>
    BY DEF Init
  <2>2. End(c, 0) = 0 /\ Len(program[c]) \in Nat
    BY <1>1, TextFacts
  <2>3. SubSeq(program[c], 1, 0) = <<>>
    <3>1. 1 \in Int /\ 0 \in Int /\ 0 < 1
      OBVIOUS
    <3> QED
      BY <3>1, SubSeqEmpty
  <2>4. 0 \in 0 .. Len(program[c]) /\ 0 \in 0 .. 2 /\ 0 + 0 = 0 /\ ~(0 > 0)
    BY <2>2
  <2>5. Between(c, 0)
    BY <2>1, <2>2, <2>3, <2>4 DEF Between, At
  <2>6. WithinOne(c, 0)
    BY <2>1, <2>2 DEF WithinOne
  <2> QED
    BY <2>4, <2>5, <2>6 DEF Exact, Somewhere
<1> QED
  BY <1>1, <1>2 DEF ExactInv

\* A connection that is at rest where a command ends has carried out the commands
\* up to there.
LEMMA ExactIsExact ==
  ASSUME TypeInv, WholeCommands, ExactInv PROVE CommandsExact
<1>1. SUFFICES ASSUME NEW c \in Conns, Dependable(c), Quiet(c)
               PROVE  /\ executed[c] = SubSeq(program[c], 1, Len(executed[c]))
                      /\ read[c] \in Ends(c) => read[c] = End(c, Len(executed[c]))
  BY DEF CommandsExact
<1>2. program \in Programs
  BY DEF TypeInv, AccountOK
<1>3. PICK N \in Nat : N = Len(program[c])
  BY <1>2, TextFacts
<1>4. PICK n \in 0 .. N : Between(c, n)
  BY <1>1, <1>3, BetweenOnly DEF ExactInv, Exact, Quiet, Busy
<1>5. executed[c] = SubSeq(program[c], 1, n)
  BY <1>4 DEF Between
<1>6. Len(executed[c]) = n
  <2>1. PICK p \in Seq(Seq(Token)) : p = program[c]
    BY <1>2, TextFacts
  <2>2. \A i \in 1 .. n : p[i] \in Seq(Token)
    <3>1. \A i \in 1 .. n : i \in 1 .. Len(p)
      BY <1>3, <2>1
    <3> QED
      BY <3>1, ElementOfSeq
  <2>3. 1 \in Int /\ n \in Int /\ n \in Nat
    OBVIOUS
  <2>4. Len(SubSeq(p, 1, n)) = IF 1 <= n THEN n - 1 + 1 ELSE 0
    BY <2>2, <2>3, SubSeqProperties
  <2>5. (IF 1 <= n THEN n - 1 + 1 ELSE 0) = n
    BY <2>3
  <2> QED
    BY <1>5, <2>1, <2>4, <2>5
<1>7. ASSUME read[c] \in Ends(c) PROVE read[c] = End(c, n)
  <2>1. PICK j \in 0 .. 2 : read[c] = End(c, n) + j /\ (j > 0 => n < N)
    BY <1>3, <1>4 DEF Between, At
  <2>2. PICK m \in 0 .. N : read[c] = End(c, m)
    BY <1>3, <1>7 DEF Ends
  <2>3. /\ \A k \in 0 .. N : End(c, k) \in Nat
        /\ \A k \in 0 .. N : \A i \in 0 .. k : End(c, i) <= End(c, k)
    BY <1>2, <1>3, TextFacts
  <2>4. PICK e \in Nat : e = End(c, n)
    BY <2>3
  <2>5. SUFFICES ASSUME j > 0 PROVE FALSE
    BY <2>1, <2>4
  <2>6. n < N /\ n + 1 \in 0 .. N
    BY <2>1, <2>5
  <2>7. End(c, n + 1) \in Nat /\ End(c, n + 1) >= e + 3
    <3>1. PICK l \in Nat : l = Len(Cmd(c, n)) /\ l > 0
      BY <1>2, <1>3, <2>6, CommandText DEF Complete
    <3>2. End(c, n + 1) = e + 2 * l + 1
      BY <1>2, <1>3, <2>4, <2>6, <3>1, CommandText
    <3> QED
      BY <3>1, <3>2
  <2>8. CASE m <= n
    <3>1. End(c, m) <= e
      <4>1. m \in 0 .. n
        BY <2>8
      <4> QED
        BY <2>3, <2>4, <4>1
    <3> QED
      BY <2>1, <2>2, <2>3, <2>4, <2>5, <3>1
  <2>9. CASE m > n
    <3>1. End(c, n + 1) <= End(c, m)
      <4>1. n + 1 \in 0 .. m
        BY <2>9
      <4> QED
        BY <2>3, <4>1
    <3>2. End(c, m) \in Nat
      BY <2>3
    <3> QED
      BY <2>1, <2>2, <2>4, <2>7, <3>1, <3>2
  <2> QED
    BY <2>8, <2>9
<1> QED
  BY <1>5, <1>6, <1>7

\* If clients send whole commands, what a connection has carried out when it is
\* quiet is what its client sent, command for command: for commands with a fixed
\* number of arguments however the bytes are cut and joined, with RPUSH, GEOPOS,
\* LPOP and SET where every command arrives alone and in one piece.  For any
\* connections and programs.
THEOREM CommandByCommand == ASSUME WholeCommands PROVE Spec => []CommandsExact
<1>1. Init => TypeInv /\ UpdatesOK /\ ExactInv
  BY TypeInvInit, ExactInit
<1>2. TypeInv /\ UpdatesOK /\ ExactInv /\ [Next]_vars => (TypeInv /\ UpdatesOK /\ ExactInv)'
  BY TypeInvStep, UpdatesStep, ExactStep
<1>3. TypeInv /\ UpdatesOK /\ ExactInv => CommandsExact
  BY ExactIsExact
<1> QED
  BY <1>1, <1>2, <1>3, PTL DEF Spec
=============================================================================
