----------------------------- MODULE BufferProofs -----------------------------
(***************************************************************************)
(* What the code that handles text and bytes promises: string2ll() is      *)
(* exact for any digits, growing strings hold the text they are given, and *)
(* the calls on descriptors handle buffers of any length with any time-out *)
(* and any number of failures, signals and delays.                         *)
(***************************************************************************)
EXTENDS Stringop, VString, Iostuff, DataLemmas

(***************************************************************************)
(* Numbers in text.                                                        *)
(***************************************************************************)
LEMMA ModulusLemma == Modulus \in Nat /\ Modulus > 10
BY StringopAssumption DEF StringopAssumption, Modulus

(* A character is what it looks like.                                       *)
LEMMA CharacterLemma ==
    /\ \A c \in Characters : /\ c[2] \in 0..9
                             /\ c = Digit(0) <=> IsDigit(c) /\ c[2] = 0
                             /\ ~ (IsDigit(c) /\ c = Minus)
    /\ ~IsDigit(Minus) /\ IsDigit(Digit(0)) /\ Digit(0) \in Characters /\ Minus \in Characters
    /\ Digit(0)[2] = 0 /\ Digit(0) # Minus
BY DEF Characters, Digit, Minus, IsDigit

LEMMA TenTimes ==
    ASSUME NEW v \in Nat, NEW d \in 0..9
    PROVE  /\ 10 * v + d \in Nat /\ v <= 10 * v + d
           /\ \A m \in Nat : (10 * v + d < m => 10 * v + d \in 0..m-1) /\ (v < m <=> v \in 0..m-1)
OBVIOUS

(* The number that is written, as the values of the prefixes.               *)
LEMMA NumberLemma ==
    ASSUME NEW s \in Seq(Characters)
    PROVE  \E value \in [0..Len(s) -> Nat] :
              /\ value[0] = 0
              /\ \A k \in 1..Len(s) : value[k] = 10 * value[k - 1] + s[k][2]
              /\ Number(s) = value[Len(s)]
<1>1. Len(s) \in Nat /\ \A k \in 1..Len(s) : s[k] \in Characters /\ s[k][2] \in Nat
  BY LenProperties, ElementOfSeq, CharacterLemma
<1> DEFINE Body(f) == f = [i \in 0..Len(s) |-> IF i = 0 THEN 0 ELSE 10 * f[i - 1] + s[i][2]]
           step == [i \in 0..Len(s) |-> [x \in Nat |-> IF i = 0 THEN x ELSE 10 * x + s[i][2]]]
           value == CHOOSE f : Body(f)
<1>2. \A j \in 0..Len(s) : \A x \in Nat : step[j][x] \in Nat
  BY <1>1
<1>3. PICK g : Recursive(g, 0, Len(s), Nat, 0, step)
  <2>1. 0 \in Int /\ Len(s) \in Int /\ 0 <= Len(s) /\ 0 \in Nat
    BY <1>1
  <2> HIDE DEF step
  <2>2. QED
    BY <1>2, <2>1, RecursionLemma
<1>4. \A i \in 0..Len(s) : i # 0 => g[i] = 10 * g[i - 1] + s[i][2]
  <2> SUFFICES ASSUME NEW i \in 0..Len(s), i # 0 PROVE g[i] = 10 * g[i - 1] + s[i][2]
    OBVIOUS
  <2>1. i - 1 \in 0..Len(s)
    BY <1>1
  <2>2. QED
    BY <1>3, <2>1 DEF Recursive
<1>5. Body(g)
  BY <1>3, <1>4 DEF Recursive
<1>6. Body(value)
  <2> HIDE DEF Body
  <2>1. QED
    BY <1>5
<1> HIDE DEF value
<1>7. value[0] = 0 /\ \A k \in 1..Len(s) : value[k] = 10 * value[k - 1] + s[k][2]
  BY <1>1, <1>6
<1> DEFINE T == {k \in Nat : k <= Len(s) => value[k] \in Nat}
<1>8. 0 \in T
  BY <1>7
<1>9. ASSUME NEW k \in Nat, k \in T PROVE k + 1 \in T
  <2> SUFFICES ASSUME k + 1 <= Len(s) PROVE value[k + 1] \in Nat
    OBVIOUS
  <2>1. k + 1 \in 1..Len(s) /\ k + 1 - 1 = k /\ value[k] \in Nat
    BY <1>1, <1>9
  <2>2. value[k + 1] = 10 * value[k] + s[k + 1][2] /\ s[k + 1][2] \in Nat
    BY <1>1, <1>7, <2>1
  <2>3. QED
    BY <2>1, <2>2
<1>10. Nat \subseteq T
  <2> HIDE DEF T
  <2>1. QED
    BY <1>8, <1>9, SetInduction
<1>11. value \in [0..Len(s) -> Nat]
  <2>1. value = [i \in 0..Len(s) |-> value[i]]
    BY <1>6
  <2>2. \A i \in 0..Len(s) : value[i] \in Nat
    BY <1>1, <1>10
  <2>3. QED
    BY <2>1, <2>2
<1>12. Number(s) = value[Len(s)]
  BY DEF Number, value
<1>13. QED
  BY <1>7, <1>11, <1>12

(* One digit more, or a failure: the checks of the loop are exact.          *)
LEMMA AccumulateLemma ==
    ASSUME NEW v \in 0..Modulus-1, NEW d \in 0..9
    PROVE  Accumulate(v, d) = IF 10 * v + d < Modulus THEN [ok |-> TRUE, v |-> 10 * v + d]
                              ELSE [ok |-> FALSE, v |-> v]
<1>1. Modulus \in Nat /\ Modulus > 10
  BY ModulusLemma
<1> DEFINE m == Modulus
<1> HIDE DEF m
<1>2. m \in Nat /\ m > 10 /\ v \in 0..m-1
  BY <1>1 DEF m
<1>3. (m - 1) \div 10 \in Nat /\ 10 * ((m - 1) \div 10) <= m - 1 /\ m - 1 < 10 * ((m - 1) \div 10) + 10
  BY <1>2
<1>4. v > (m - 1) \div 10 => 10 * v > m - 1
  BY <1>2, <1>3
<1>5. v <= (m - 1) \div 10 => 10 * v <= m - 1
  BY <1>2, <1>3
<1>6. 10 * v <= m - 1 => (v * 10) % m = 10 * v
  BY <1>2
<1>7. Accumulate(v, d) = IF v > (m - 1) \div 10 \/ (v * 10) % m > m - 1 - d THEN [ok |-> FALSE, v |-> v]
                         ELSE [ok |-> TRUE, v |-> ((v * 10) % m) + d]
  BY DEF Accumulate, ULLONG_MAX, m
<1>8. CASE v > (m - 1) \div 10
  <2>1. ~ (10 * v + d < m)
    BY <1>2, <1>4, <1>8
  <2>2. QED
    BY <1>7, <1>8, <2>1 DEF m
<1>9. CASE ~ (v > (m - 1) \div 10)
  <2>1. (v * 10) % m = 10 * v
    BY <1>2, <1>3, <1>5, <1>6, <1>9
  <2>2. 10 * v > m - 1 - d <=> ~ (10 * v + d < m)
    BY <1>2
  <2>3. QED
    BY <1>7, <1>9, <2>1, <2>2 DEF m
<1>10. QED
  BY <1>8, <1>9

Results == [ok : BOOLEAN, v : 0..Modulus-1]

LEMMA DigitsLemma ==
    ASSUME NEW s \in Seq(Characters), NEW i \in 1..Len(s)+1
    PROVE  \E loop \in [i..Len(s)+1 -> Results] :
              /\ loop[i] = [ok |-> TRUE, v |-> 0]
              /\ \A j \in i..Len(s)+1 : j # i =>
                    loop[j] = IF ~loop[j - 1].ok \/ ~IsDigit(s[j - 1]) THEN [ok |-> FALSE, v |-> 0]
                              ELSE Accumulate(loop[j - 1].v, s[j - 1][2])
              /\ Digits(s, i) = loop[Len(s) + 1]
<1> DEFINE n == Len(s) + 1
           init == [ok |-> TRUE, v |-> 0]
           none == [ok |-> FALSE, v |-> 0]
           Turn(x, c) == IF ~x.ok \/ ~IsDigit(c) THEN none ELSE Accumulate(x.v, c[2])
           Body(f) == f = [j \in i..n |-> IF j = i THEN init ELSE Turn(f[j - 1], s[j - 1])]
           step == [j \in i..n |-> [x \in Results |-> IF j = i THEN x ELSE Turn(x, s[j - 1])]]
           loop == CHOOSE f : Body(f)
<1>1. /\ n \in Int /\ i \in Int /\ i <= n
      /\ \A j \in i..n : j # i => j - 1 \in i..n /\ s[j - 1] \in Characters /\ s[j - 1][2] \in 0..9
  <2>1. Len(s) \in Nat
    BY LenProperties
  <2>2. ASSUME NEW j \in i..n, j # i
        PROVE  j - 1 \in i..n /\ s[j - 1] \in Characters /\ s[j - 1][2] \in 0..9
    <3>1. j - 1 \in i..n /\ j - 1 \in 1..Len(s)
      BY <2>1, <2>2
    <3>2. s[j - 1] \in Characters
      BY <3>1, ElementOfSeq
    <3>3. QED
      BY <3>1, <3>2, CharacterLemma
  <2>3. QED
    BY <2>1, <2>2
<1>2. init \in Results /\ none \in Results
  BY ModulusLemma DEF Results
<1> HIDE DEF n, init, none
<1>3. \A x \in Results, c \in Characters : Turn(x, c) \in Results
  <2> SUFFICES ASSUME NEW x \in Results, NEW c \in Characters, x.ok /\ IsDigit(c)
               PROVE  Accumulate(x.v, c[2]) \in Results
    BY <1>2
  <2>1. x.v \in 0..Modulus-1 /\ c[2] \in 0..9 /\ Modulus \in Nat
    BY CharacterLemma, ModulusLemma DEF Results
  <2>2. CASE 10 * x.v + c[2] < Modulus
    <3>1. 10 * x.v + c[2] \in 0..Modulus-1
      <4>1. x.v \in Nat
        BY <2>1
      <4>2. QED
        BY <2>1, <2>2, <4>1, TenTimes
    <3>2. Accumulate(x.v, c[2]) = [ok |-> TRUE, v |-> 10 * x.v + c[2]]
      BY <2>1, <2>2, AccumulateLemma
    <3>3. QED
      BY <3>1, <3>2 DEF Results
  <2>3. CASE ~ (10 * x.v + c[2] < Modulus)
    <3>1. Accumulate(x.v, c[2]) = [ok |-> FALSE, v |-> x.v]
      BY <2>1, <2>3, AccumulateLemma
    <3>2. QED
      BY <2>1, <3>1 DEF Results
  <2>4. QED
    BY <2>2, <2>3
<1> HIDE DEF Turn
<1>4. \A j \in i..n : \A x \in Results : step[j][x] \in Results
  BY <1>1, <1>3
<1>5. PICK g : Recursive(g, i, n, Results, init, step)
  <2> HIDE DEF step
  <2>1. QED
    BY <1>1, <1>2, <1>4, RecursionLemma
<1>6. g \in [i..n -> Results] /\ g[i] = init
  BY <1>5 DEF Recursive
<1>7. \A j \in i..n : j # i => g[j] = Turn(g[j - 1], s[j - 1])
  <2> SUFFICES ASSUME NEW j \in i..n, j # i PROVE g[j] = Turn(g[j - 1], s[j - 1])
    OBVIOUS
  <2>1. g[j - 1] \in Results
    BY <1>1, <1>6
  <2>2. g[j] = step[j][g[j - 1]]
    BY <1>5 DEF Recursive
  <2>3. QED
    BY <2>1, <2>2
<1>8. Body(g)
  BY <1>6, <1>7
<1>9. Body(loop)
  <2> HIDE DEF Body
  <2>1. QED
    BY <1>8
<1> HIDE DEF loop
<1>10. /\ loop = [j \in i..n |-> loop[j]] /\ loop[i] = init
       /\ \A j \in i..n : j # i => loop[j] = Turn(loop[j - 1], s[j - 1])
  <2>1. loop = [j \in i..n |-> loop[j]]
    BY <1>9
  <2>2. \A j \in i..n : loop[j] = IF j = i THEN init ELSE Turn(loop[j - 1], s[j - 1])
    BY <1>9
  <2>3. loop[i] = init
    <3>1. i \in i..n
      BY <1>1
    <3>2. QED
      BY <2>2, <3>1
  <2>4. \A j \in i..n : j # i => loop[j] = Turn(loop[j - 1], s[j - 1])
    BY <2>2
  <2> HIDE DEF Turn
  <2>5. QED
    BY <2>1, <2>3, <2>4, Zenon
<1> DEFINE T == {k \in Nat : i + k <= n => loop[i + k] \in Results}
<1>11. 0 \in T
  BY <1>1, <1>2, <1>10
<1>12. ASSUME NEW k \in Nat, k \in T PROVE k + 1 \in T
  <2> SUFFICES ASSUME i + (k + 1) <= n PROVE loop[i + (k + 1)] \in Results
    OBVIOUS
  <2> DEFINE j == i + (k + 1)
  <2>1. j \in i..n /\ j # i /\ j - 1 = i + k /\ loop[i + k] \in Results
    BY <1>1, <1>12
  <2> HIDE DEF j
  <2>2. loop[j] = Turn(loop[j - 1], s[j - 1]) /\ loop[j - 1] \in Results /\ s[j - 1] \in Characters
    BY <1>1, <1>10, <2>1
  <2>3. loop[j] \in Results
    BY <1>3, <2>2
  <2>4. QED
    BY <2>3 DEF j
<1>13. Nat \subseteq T
  <2> HIDE DEF T
  <2>1. QED
    BY <1>11, <1>12, SetInduction
<1>14. loop \in [i..n -> Results]
  <2>1. ASSUME NEW j \in i..n PROVE loop[j] \in Results
    <3>1. PICK k \in Nat : i + k = j /\ i + k <= n
      <4>1. j - i \in Nat /\ i + (j - i) = j /\ j <= n
        BY <1>1
      <4>2. QED
        BY <4>1
    <3>2. QED
      BY <1>13, <3>1
  <2>2. QED
    BY <1>10, <2>1
<1>15. Digits(s, i) = loop[n]
  BY DEF Digits, loop, n, init, none, Turn
<1>16. QED
  BY <1>10, <1>14, <1>15 DEF n, init, none, Turn

(* The loop reads a number that fits, when there are digits only.           *)
LEMMA DigitsExact ==
    ASSUME NEW s \in Seq(Characters), NEW i \in 1..Len(s)+1,
           NEW t \in Seq(Characters), Len(t) = Len(s) + 1 - i,
           \A k \in 1..Len(t) : t[k] = s[k + (i - 1)]
    PROVE  /\ Digits(s, i).ok <=> (\A k \in 1..Len(t) : IsDigit(t[k])) /\ Number(t) < Modulus
           /\ Digits(s, i).ok => Digits(s, i).v = Number(t)
           /\ Number(t) \in Nat
           /\ Len(t) >= 1 /\ t[1][2] >= 1 => Number(t) >= 1
<1>1. PICK value \in [0..Len(t) -> Nat] :
         /\ value[0] = 0
         /\ \A k \in 1..Len(t) : value[k] = 10 * value[k - 1] + t[k][2]
         /\ Number(t) = value[Len(t)]
  BY NumberLemma
<1>2. PICK loop \in [i..Len(s)+1 -> Results] :
         /\ loop[i] = [ok |-> TRUE, v |-> 0]
         /\ \A j \in i..Len(s)+1 : j # i =>
               loop[j] = IF ~loop[j - 1].ok \/ ~IsDigit(s[j - 1]) THEN [ok |-> FALSE, v |-> 0]
                         ELSE Accumulate(loop[j - 1].v, s[j - 1][2])
         /\ Digits(s, i) = loop[Len(s) + 1]
  BY DigitsLemma
<1>3. /\ Len(s) \in Nat /\ i \in Nat /\ i >= 1 /\ i <= Len(s) + 1 /\ Len(t) \in Nat
      /\ i + Len(t) = Len(s) + 1
      /\ \A k \in 1..Len(t) : t[k] \in Characters /\ t[k][2] \in 0..9
  BY LenProperties, ElementOfSeq, CharacterLemma
<1>4. Modulus \in Nat /\ Modulus > 10
  BY ModulusLemma
<1> DEFINE Read(k) == LET r == loop[i + k]
                      IN  /\ r.ok <=> (\A j \in 1..k : IsDigit(t[j])) /\ value[k] < Modulus
                          /\ r.ok => r.v = value[k]
                          /\ k >= 1 /\ t[1][2] >= 1 => value[k] >= 1
           T == {k \in Nat : k <= Len(t) => Read(k)}
<1>5. 0 \in T
  BY <1>1, <1>2, <1>3, <1>4
<1>6. ASSUME NEW k \in Nat, k \in T PROVE k + 1 \in T
  <2> SUFFICES ASSUME k + 1 <= Len(t) PROVE Read(k + 1)
    <3> HIDE DEF Read
    <3> QED OBVIOUS
  <2> DEFINE c == t[k + 1]
             j == i + (k + 1)
  <2>1. /\ k \in 0..Len(t) /\ k + 1 \in 1..Len(t) /\ k + 1 - 1 = k
        /\ j \in i..Len(s)+1 /\ j # i /\ j - 1 = i + k /\ i + k \in i..Len(s)+1
        /\ k + 1 + (i - 1) = j - 1
    <3>1. k \in 0..Len(t) /\ k + 1 \in 1..Len(t) /\ k + 1 - 1 = k
      BY <1>3
    <3>2. j \in i..Len(s)+1 /\ j # i /\ i + k \in i..Len(s)+1
      BY <1>3
    <3>3. j - 1 = i + k /\ k + 1 + (i - 1) = j - 1
      BY <1>3
    <3>4. QED
      BY <3>1, <3>2, <3>3
  <2>2. s[j - 1] = c /\ c \in Characters /\ c[2] \in 0..9
    BY <1>3, <2>1
  <2>3. Read(k)
    BY <1>6, <2>1
  <2>4. value[k] \in Nat /\ value[k + 1] = 10 * value[k] + c[2]
    <3>1. value[k] \in Nat
      BY <2>1
    <3>2. value[k + 1] = 10 * value[k + 1 - 1] + t[k + 1][2]
      BY <1>1, <2>1
    <3>3. QED
      BY <2>1, <3>1, <3>2
  <2>5. loop[i + k] \in Results
    BY <2>1
  <2>6. loop[j] = IF ~loop[i + k].ok \/ ~IsDigit(c) THEN [ok |-> FALSE, v |-> 0]
                  ELSE Accumulate(loop[i + k].v, c[2])
    BY <1>2, <2>1, <2>2
  <2>7. (\A x \in 1..k+1 : IsDigit(t[x])) <=> (\A x \in 1..k : IsDigit(t[x])) /\ IsDigit(c)
    <3>1. 1..k+1 = 1..k \cup {k + 1}
      OBVIOUS
    <3> HIDE DEF IsDigit
    <3>2. QED
      BY <3>1
  <2> HIDE DEF c, j
  <2>8. k + 1 >= 1 /\ t[1][2] >= 1 => value[k + 1] >= 1
    <3>1. CASE k = 0
      BY <1>1, <2>2, <2>4, <3>1 DEF c
    <3>2. CASE k >= 1
      <4>1. t[1][2] >= 1 => value[k] >= 1
        BY <2>3, <3>2
      <4>2. value[k] >= 1 => value[k + 1] >= 1
        <5>1. value[k + 1] \in Nat /\ value[k] <= value[k + 1]
          BY <2>2, <2>4, TenTimes
        <5>2. QED
          BY <2>4, <5>1
      <4>3. QED
        BY <4>1, <4>2
    <3>3. QED
      BY <3>1, <3>2
  <2>9. CASE ~loop[i + k].ok \/ ~IsDigit(c)
    <3>1. ~loop[j].ok
      BY <2>6, <2>9
    <3>2. ~ ((\A x \in 1..k+1 : IsDigit(t[x])) /\ value[k + 1] < Modulus)
      <4>1. value[k + 1] < Modulus => value[k] < Modulus
        <5>1. value[k + 1] \in Nat /\ value[k] <= value[k + 1]
          BY <2>2, <2>4, TenTimes
        <5>2. QED
          BY <1>4, <2>4, <5>1
      <4>2. loop[i + k].ok <=> (\A x \in 1..k : IsDigit(t[x])) /\ value[k] < Modulus
        BY <2>3
      <4>3. QED
        BY <2>7, <2>9, <4>1, <4>2
    <3>3. QED
      BY <2>8, <3>1, <3>2 DEF j
  <2>10. CASE loop[i + k].ok /\ IsDigit(c)
    <3>1. loop[i + k].v = value[k] /\ value[k] \in 0..Modulus-1
      BY <1>4, <2>3, <2>4, <2>10
    <3>2. loop[j] = IF value[k + 1] < Modulus THEN [ok |-> TRUE, v |-> value[k + 1]]
                    ELSE [ok |-> FALSE, v |-> value[k]]
      <4>1. loop[j] = Accumulate(value[k], c[2])
        BY <2>6, <2>10, <3>1
      <4>2. c[2] \in 0..9
        BY <2>2
      <4> HIDE DEF Read, T
      <4>3. Accumulate(value[k], c[2]) = IF 10 * value[k] + c[2] < Modulus
                                         THEN [ok |-> TRUE, v |-> 10 * value[k] + c[2]]
                                         ELSE [ok |-> FALSE, v |-> value[k]]
        BY <3>1, <4>2, AccumulateLemma
      <4>4. QED
        BY <2>4, <4>1, <4>3
    <3>3. (loop[j].ok <=> value[k + 1] < Modulus) /\ (loop[j].ok => loop[j].v = value[k + 1])
      BY <3>2
    <3>4. \A x \in 1..k+1 : IsDigit(t[x])
      BY <2>3, <2>7, <2>10
    <3>5. QED
      BY <2>8, <3>3, <3>4 DEF j
  <2>11. QED
    BY <2>9, <2>10
<1>7. Nat \subseteq T
  <2> HIDE DEF T
  <2>1. QED
    BY <1>5, <1>6, SetInduction
<1>8. Read(Len(t))
  BY <1>3, <1>7
<1>9. Digits(s, i) = loop[i + Len(t)]
  BY <1>2, <1>3
<1>10. value[Len(t)] \in Nat
  BY <1>3
<1>11. QED
  BY <1>1, <1>8, <1>9, <1>10

(* The range of a long long, and the conversion of its values.              *)
LEMMA RangeLemma ==
    ASSUME NEW v \in Nat
    PROVE  /\ LLONG_MIN <= v /\ -v <= LLONG_MAX /\ LLONG_MIN <= 0 /\ 0 <= LLONG_MAX
           /\ LLONG_MIN <= -v <=> v <= LLONG_MAX + 1
           /\ v <= LLONG_MAX + 1 => v < Modulus
           /\ v <= LLONG_MAX => ToSigned(v) = v
           /\ v >= 1 /\ v <= LLONG_MAX + 1 => ToSigned((Modulus - v) % Modulus) = -v
<1> DEFINE m == Modulus
           h == m \div 2
<1>1. m \in Nat /\ m > 10
  BY ModulusLemma
<1> HIDE DEF m
<1>2. h \in Nat /\ 2 * h <= m /\ m <= 2 * h + 1 /\ h >= 5
  BY <1>1
<1> HIDE DEF h
<1>3. LLONG_MAX = h - 1 /\ LLONG_MIN = -h
  BY DEF LLONG_MAX, LLONG_MIN, h, m
<1>4. v >= 1 /\ v <= h => (m - v) % m = m - v
  BY <1>1, <1>2
<1>5. v >= 1 /\ v <= h => m - v > h - 1
  BY <1>1, <1>2
<1>6. \A x : ToSigned(x) = IF x > h - 1 THEN x - m ELSE x
  BY <1>3 DEF ToSigned, m
<1>7. v >= 1 /\ v <= h => ToSigned((m - v) % m) = -v
  <2> SUFFICES ASSUME v >= 1, v <= h PROVE ToSigned((m - v) % m) = -v
    OBVIOUS
  <2>1. ToSigned((m - v) % m) = m - v - m
    BY <1>4, <1>5, <1>6
  <2>2. QED
    BY <1>1, <2>1
<1>8. v <= h - 1 => ToSigned(v) = v
  BY <1>2, <1>6
<1>9. /\ -h <= v /\ -v <= h - 1 /\ -h <= 0 /\ 0 <= h - 1
      /\ -h <= -v <=> v <= h - 1 + 1
      /\ v <= h - 1 + 1 => v < m
      /\ v <= h - 1 + 1 => v <= h
  BY <1>1, <1>2
<1>10. QED
  BY <1>3, <1>7, <1>8, <1>9 DEF m

(* A text without a minus.                                                  *)
LEMMA ParsesUnsigned ==
    ASSUME NEW s \in Seq(Characters), s # <<>>, s[1] # Minus
    PROVE  string2ll(s) = IF Canonical(s) /\ LLONG_MIN <= Number(s) /\ Number(s) <= LLONG_MAX
                          THEN Success(Number(s)) ELSE Failure
<1> DEFINE r == Digits(s, 1)
           n == Number(s)
<1>1. Len(s) \in Nat /\ Len(s) >= 1 /\ s[1] \in Characters
  BY EmptySeq, LenProperties, ElementOfSeq
<1>2. /\ r.ok <=> (\A k \in 1..Len(s) : IsDigit(s[k])) /\ n < Modulus
      /\ r.ok => r.v = n
      /\ n \in Nat
  <2>1. 1 \in 1..Len(s)+1 /\ Len(s) = Len(s) + 1 - 1 /\ \A k \in 1..Len(s) : s[k] = s[k + (1 - 1)]
    BY <1>1
  <2>2. QED
    BY <2>1, DigitsExact
<1> HIDE DEF r, n
<1>3. string2ll(s) =
         IF s = <<Digit(0)>> THEN Success(0)
         ELSE IF 1 > Len(s) \/ ~IsDigit(s[1]) \/ s[1] = Digit(0) THEN Failure
         ELSE IF ~r.ok \/ r.v > LLONG_MAX THEN Failure
         ELSE Success(ToSigned(r.v))
  BY DEF string2ll, r
<1>4. LLONG_MIN <= n /\ (n <= LLONG_MAX => ToSigned(n) = n) /\ LLONG_MIN <= 0 /\ 0 <= LLONG_MAX
      /\ (n <= LLONG_MAX => n < Modulus) /\ LLONG_MAX \in Int
  <2>1. LLONG_MAX \in Int
    BY ModulusLemma DEF LLONG_MAX
  <2>2. n <= LLONG_MAX => n <= LLONG_MAX + 1
    BY <1>2, <2>1
  <2>3. QED
    BY <1>2, <2>1, <2>2, RangeLemma
<1>5. CASE s = <<Digit(0)>>
  <2>1. Len(s) = 1 /\ s[1] = Digit(0) /\ IsDigit(Digit(0)) /\ s[1][2] = 0
    BY <1>5, CharacterLemma
  <2>2. PICK value \in [0..Len(s) -> Nat] :
           /\ value[0] = 0
           /\ \A k \in 1..Len(s) : value[k] = 10 * value[k - 1] + s[k][2]
           /\ n = value[Len(s)]
    BY NumberLemma DEF n
  <2>3. n = 10 * value[1 - 1] + s[1][2]
    BY <2>1, <2>2
  <2>4. n = 0
    BY <2>1, <2>2, <2>3
  <2>5. Canonical(s)
    BY <1>1, <1>5, <2>1 DEF Canonical
  <2>6. QED
    BY <1>3, <1>4, <1>5, <2>4, <2>5 DEF n
<1>6. CASE s # <<Digit(0)>> /\ (~IsDigit(s[1]) \/ s[1] = Digit(0))
  <2>1. ~Canonical(s)
    <3>1. CASE ~IsDigit(s[1])
      BY <1>1, <3>1 DEF Canonical
    <3>2. CASE s[1] = Digit(0)
      <4>1. Len(s) # 1
        <5> SUFFICES ASSUME Len(s) = 1 PROVE FALSE
          OBVIOUS
        <5>1. <<Digit(0)>> \in Seq(Characters) /\ Len(<<Digit(0)>>) = 1 /\ <<Digit(0)>>[1] = Digit(0)
          BY CharacterLemma
        <5>2. s = <<Digit(0)>>
          BY <3>2, <5>1, SeqEqual
        <5>3. QED
          BY <1>6, <5>2
      <4>2. QED
        BY <3>2, <4>1 DEF Canonical
    <3>3. QED
      BY <1>6, <3>1, <3>2
  <2>2. QED
    BY <1>3, <1>6, <2>1
<1>7. CASE s # <<Digit(0)>> /\ IsDigit(s[1]) /\ s[1] # Digit(0)
  <2>1. Canonical(s) <=> \A k \in 1..Len(s) : IsDigit(s[k])
    BY <1>7 DEF Canonical
  <2>2. string2ll(s) = IF ~r.ok \/ r.v > LLONG_MAX THEN Failure ELSE Success(ToSigned(r.v))
    BY <1>1, <1>3, <1>7
  <2>3. CASE r.ok
    BY <1>2, <1>4, <2>1, <2>2, <2>3 DEF n
  <2>4. CASE ~r.ok
    BY <1>2, <1>4, <2>1, <2>2, <2>4 DEF n
  <2>5. QED
    BY <2>3, <2>4
<1>8. QED
  BY <1>5, <1>6, <1>7

(* A text that begins with a minus.                                         *)
LEMMA ParsesNegative ==
    ASSUME NEW s \in Seq(Characters), s # <<>>, s[1] = Minus
    PROVE  /\ string2ll(s) = IF Tail(s) # <<Digit(0)>> /\ Canonical(Tail(s))
                                /\ LLONG_MIN <= -Number(Tail(s)) /\ -Number(Tail(s)) <= LLONG_MAX
                             THEN Success(-Number(Tail(s))) ELSE Failure
           /\ ~Canonical(s)
<1> DEFINE r == Digits(s, 2)
           t == Tail(s)
           n == Number(t)
<1>1. /\ Len(s) \in Nat /\ Len(s) >= 1 /\ s[1] \in Characters
      /\ t \in Seq(Characters) /\ Len(t) = Len(s) - 1
      /\ \A k \in 1..Len(t) : t[k] = s[k + 1]
  BY EmptySeq, LenProperties, ElementOfSeq, HeadTailProperties
<1> HIDE DEF t
<1>2. /\ r.ok <=> (\A k \in 1..Len(t) : IsDigit(t[k])) /\ n < Modulus
      /\ r.ok => r.v = n
      /\ n \in Nat
      /\ Len(t) >= 1 /\ t[1][2] >= 1 => n >= 1
  <2>1. 2 \in 1..Len(s)+1 /\ Len(t) = Len(s) + 1 - 2 /\ \A k \in 1..Len(t) : t[k] = s[k + (2 - 1)]
    BY <1>1
  <2>2. QED
    BY <1>1, <2>1, DigitsExact
<1> HIDE DEF r, n
<1>3. ~IsDigit(Minus) /\ Minus # Digit(0)
  BY CharacterLemma
<1>4. ~Canonical(s)
  BY <1>1, <1>3 DEF Canonical
<1>5. s # <<Digit(0)>>
  BY <1>3
<1>6. string2ll(s) =
         IF 2 > Len(s) \/ ~IsDigit(s[2]) \/ s[2] = Digit(0) THEN Failure
         ELSE IF ~r.ok \/ r.v > LLONG_MAX + 1 THEN Failure
         ELSE Success(ToSigned((Modulus - r.v) % Modulus))
  BY <1>5 DEF string2ll, r
<1>7. CASE Len(s) = 1
  <2>1. ~Canonical(t)
    <3>1. Len(t) = 0
      BY <1>1, <1>7
    <3>2. t = <<>>
      BY <1>1, <3>1, EmptySeq
    <3>3. QED
      BY <3>2 DEF Canonical
  <2>2. QED
    BY <1>4, <1>6, <1>7, <2>1 DEF t
<1>8. CASE Len(s) > 1 /\ (~IsDigit(t[1]) \/ t[1] = Digit(0))
  <2>1. Len(t) >= 1 /\ s[2] = t[1]
    BY <1>1, <1>8
  <2>2. t # <<Digit(0)>> => ~Canonical(t)
    <3>1. CASE ~IsDigit(t[1])
      BY <1>1, <2>1, <3>1 DEF Canonical
    <3>2. CASE t[1] = Digit(0)
      <4> SUFFICES ASSUME Len(t) = 1 PROVE t = <<Digit(0)>>
        BY <3>2 DEF Canonical
      <4>1. <<Digit(0)>> \in Seq(Characters) /\ Len(<<Digit(0)>>) = 1 /\ <<Digit(0)>>[1] = Digit(0)
        BY CharacterLemma
      <4>2. QED
        BY <1>1, <3>2, <4>1, SeqEqual
    <3>3. QED
      BY <1>8, <3>1, <3>2
  <2>3. string2ll(s) = Failure
    BY <1>6, <1>8, <2>1
  <2>4. QED
    BY <1>4, <2>2, <2>3 DEF t
<1>9. CASE Len(s) > 1 /\ IsDigit(t[1]) /\ t[1] # Digit(0)
  <2>1. Len(t) >= 1 /\ s[2] = t[1] /\ t[1] \in Characters
    <3>1. Len(t) >= 1 /\ s[2] = t[1] /\ 1 \in 1..Len(t)
      BY <1>1, <1>9
    <3>2. QED
      BY <1>1, <3>1, ElementOfSeq
  <2>2. n >= 1
    <3>1. t[1][2] \in 0..9 /\ t[1][2] # 0
      BY <1>9, <2>1, CharacterLemma
    <3>2. QED
      BY <1>2, <2>1, <3>1
  <2>3. t # <<Digit(0)>>
    BY <1>9
  <2>4. Canonical(t) <=> \A k \in 1..Len(t) : IsDigit(t[k])
    <3>1. t # <<>>
      BY <2>1, EmptySeq
    <3>2. QED
      BY <1>9, <3>1 DEF Canonical
  <2>5. string2ll(s) = IF ~r.ok \/ r.v > LLONG_MAX + 1 THEN Failure
                       ELSE Success(ToSigned((Modulus - r.v) % Modulus))
    BY <1>1, <1>6, <1>9, <2>1
  <2>6. /\ -n <= LLONG_MAX
        /\ LLONG_MIN <= -n <=> n <= LLONG_MAX + 1
        /\ n <= LLONG_MAX + 1 => n < Modulus
        /\ n <= LLONG_MAX + 1 => ToSigned((Modulus - n) % Modulus) = -n
    BY <1>2, <2>2, RangeLemma
  <2>7. LLONG_MAX \in Int
    BY ModulusLemma DEF LLONG_MAX
  <2>8. CASE r.ok
    BY <1>2, <2>3, <2>4, <2>5, <2>6, <2>7, <2>8, <1>4 DEF n, t
  <2>9. CASE ~r.ok
    BY <1>2, <2>3, <2>4, <2>5, <2>6, <2>9, <1>4 DEF n, t
  <2>10. QED
    BY <2>8, <2>9
<1>10. Len(s) = 1 \/ Len(s) > 1
  BY <1>1
<1>11. QED
  BY <1>7, <1>8, <1>9, <1>10

(* string2ll() reads exactly the decimal numbers that a long long holds, at *)
(* any width, from texts of any length.                                     *)
THEOREM NumbersAreParsed == StringopSpec => []ParsesExactly
<1> DEFINE TextInv == text \in Seq(Characters)
<1>1. StringopInit => TextInv
  BY EmptySeq DEF StringopInit
<1>2. TextInv /\ [StringopNext]_text => TextInv'
  <2> SUFFICES ASSUME TextInv, [StringopNext]_text PROVE TextInv'
    OBVIOUS
  <2>1. ASSUME NEW c \in Characters, text' = Append(text, c) PROVE TextInv'
    BY <2>1, AppendProperties
  <2>2. CASE text' = <<>>
    BY <2>2, EmptySeq
  <2>3. CASE UNCHANGED text
    BY <2>3
  <2>4. QED
    BY <2>1, <2>2, <2>3 DEF StringopNext
<1>3. TextInv => ParsesExactly
  <2> SUFFICES ASSUME text \in Seq(Characters) PROVE ParsesExactly
    OBVIOUS
  <2>1. CASE text = <<>>
    BY <2>1 DEF ParsesExactly, string2ll, Canonical
  <2>2. CASE text # <<>> /\ text[1] # Minus
    BY <2>2, ParsesUnsigned DEF ParsesExactly
  <2>3. CASE text # <<>> /\ text[1] = Minus
    BY <2>3, ParsesNegative DEF ParsesExactly
  <2>4. QED
    BY <2>1, <2>2, <2>3
<1>4. QED
  BY <1>1, <1>2, <1>3, PTL DEF StringopSpec

-----------------------------------------------------------------------------
(***************************************************************************)
(* Growing strings.                                                        *)
(***************************************************************************)
Contents == Bytes \cup {FILLER}

Buffers == {d \in Seq(Contents) : Len(d) >= 1}

(* A string whose count is exact and that has been written inside only.     *)
Strings == {v \in VBUF : /\ ~v.wild
                         /\ v.cnt = Len(v.data) - v.ptr /\ v.cnt >= 0
                         /\ v.data \in Buffers}

Str(d, p) == [data |-> d, ptr |-> p, cnt |-> Len(d) - p, wild |-> FALSE]

LEMMA BufferLemma ==
    ASSUME NEW d \in Buffers
    PROVE  /\ d \in Seq(Contents) /\ Len(d) \in Nat /\ Len(d) >= 1
           /\ \A i \in 1..Len(d) : d[i] \in Contents
BY LenProperties, ElementOfSeq DEF Buffers

LEMMA StrIsString ==
    ASSUME NEW d \in Buffers, NEW p \in 0..Len(d)
    PROVE  Str(d, p) \in Strings
<1>1. d \in Seq(Contents) /\ Len(d) \in Nat /\ p \in Nat
  BY BufferLemma
<1>2. Len(d) - p \in Int /\ Len(d) - p >= 0
  BY <1>1
<1>3. QED
  BY <1>1, <1>2 DEF Str, Strings, VBUF, Contents

LEMMA StringIsStr ==
    ASSUME NEW v \in Strings
    PROVE  v.data \in Buffers /\ v.ptr \in 0..Len(v.data) /\ v = Str(v.data, v.ptr)
<1>1. v \in [data : Seq(Contents), ptr : Nat, cnt : Int, wild : BOOLEAN]
  BY DEF Strings, VBUF, Contents
<1>2. v.data \in Buffers /\ v.wild = FALSE /\ v.cnt = Len(v.data) - v.ptr /\ v.cnt >= 0 /\ v.ptr \in Nat
  BY <1>1 DEF Strings
<1>3. v.ptr \in 0..Len(v.data)
  BY <1>2, BufferLemma
<1>4. v = [data |-> v.data, ptr |-> v.ptr, cnt |-> v.cnt, wild |-> v.wild]
  BY <1>1
<1>5. QED
  BY <1>2, <1>3, <1>4 DEF Str

LEMMA MoveLemma ==
    ASSUME NEW d \in Buffers, NEW p \in 0..Len(d), NEW q \in 0..Len(d)
    PROVE  [Str(d, p) EXCEPT !.ptr = q, !.cnt = Len(d) - q] = Str(d, q)
<1> DEFINE v == Str(d, p)
           n == Len(d) - q
           w == [v EXCEPT !.ptr = q, !.cnt = n]
           Record == [data : Seq(Contents), ptr : Nat, cnt : Int, wild : BOOLEAN]
<1>1. q \in Nat /\ n \in Int
  BY BufferLemma
<1>2. v \in Record /\ v.data = d /\ v.wild = FALSE
  <2>1. v \in Record
    BY StrIsString DEF Strings, VBUF, Contents
  <2>2. QED
    BY <2>1 DEF Str
<1> HIDE DEF n, v
<1>3. w \in Record
  BY <1>1, <1>2
<1>4. w.data = d /\ w.ptr = q /\ w.cnt = n /\ w.wild = FALSE
  BY <1>1, <1>2
<1> HIDE DEF w
<1>5. w = [data |-> w.data, ptr |-> w.ptr, cnt |-> w.cnt, wild |-> w.wild]
  BY <1>3
<1>6. w = Str(d, q)
  BY <1>4, <1>5 DEF Str, n
<1>7. QED
  BY <1>6 DEF w, v, n

(* Bytes that fit are written where they should be, and nothing else is.    *)
LEMMA WriteLemma ==
    ASSUME NEW d \in Buffers, NEW p \in 0..Len(d), NEW k \in Nat, NEW s \in Seq(Contents),
           k + Len(s) <= Len(d)
    PROVE  \E e \in Buffers :
              /\ Len(e) = Len(d) /\ Write(Str(d, p), k, s) = Str(e, p)
              /\ Agree(e, d, k)
              /\ Placed(e, k, s)
<1> DEFINE n == Len(d)
           q == k + Len(s)
           e == Spliced(d, s, k, q)
<1>1. /\ d \in Seq(Contents) /\ n \in Nat /\ n >= 1 /\ Len(s) \in Nat
      /\ q \in Nat /\ q <= n /\ q = k + Len(s) /\ n = Len(d)
  BY BufferLemma, LenProperties
<1>2. Write(Str(d, p), k, s) = [data |-> e, ptr |-> p, cnt |-> n - p, wild |-> FALSE]
  <2>1. ~ (q > n)
    BY <1>1
  <2>2. QED
    BY <2>1 DEF Write, Str, Spliced
<1> HIDE DEF n, q
<1>3. /\ e \in Seq(Contents) /\ Len(e) = n
      /\ Agree(e, d, k)
      /\ Placed(e, k, s)
  BY <1>1, SpliceLemma
<1> HIDE DEF e
<1>4. e \in Buffers
  BY <1>1, <1>3 DEF Buffers
<1>5. Write(Str(d, p), k, s) = Str(e, p)
  BY <1>2, <1>3 DEF Str
<1>6. QED
  BY <1>3, <1>4, <1>5 DEF n

(* Growth keeps the bytes and makes room for incr more, for one at least.   *)
LEMMA ExtendLemma ==
    ASSUME NEW d \in Buffers, NEW p \in 0..Len(d), NEW incr \in Nat
    PROVE  \E e \in Buffers :
              /\ Len(e) >= Len(d) + incr /\ Len(e) >= Len(d) + 1
              /\ vstring_extend(Str(d, p), incr) = Str(e, p)
              /\ Agree(e, d, Len(d))
<1> DEFINE m == IF Len(d) > incr THEN Len(d) ELSE incr
           e == d \o Fill(m)
<1>1. d \in Seq(Contents) /\ Len(d) \in Nat /\ Len(d) >= 1
  BY BufferLemma
<1>2. m \in Nat /\ m >= incr /\ m >= 1
  BY <1>1
<1>3. vstring_extend(Str(d, p), incr) = Str(e, p)
  <2>1. Str(d, p).data = d /\ Str(d, p).ptr = p
    BY DEF Str
  <2>2. vstring_extend(Str(d, p), incr) = [Str(d, p) EXCEPT !.data = e, !.cnt = Len(e) - p]
    BY <2>1 DEF vstring_extend
  <2> HIDE DEF e
  <2>3. QED
    BY <2>2 DEF Str
<1> HIDE DEF m
<1>4. Fill(m) \in Seq(Contents) /\ Len(Fill(m)) = m
  <2>1. Fill(m) \in [1..m -> Contents]
    BY DEF Fill, Contents
  <2>2. QED
    BY <1>2, <2>1
<1>5. e \in Seq(Contents) /\ Len(e) = Len(d) + m /\ Agree(e, d, Len(d))
  <2>1. /\ e \in Seq(Contents) /\ Len(e) = Len(d) + Len(Fill(m))
        /\ \A i \in 1..Len(d)+Len(Fill(m)) : e[i] = IF i <= Len(d) THEN d[i] ELSE Fill(m)[i - Len(d)]
    BY <1>1, <1>4, ConcatProperties
  <2> HIDE DEF e
  <2>2. ASSUME NEW i \in 1..Len(d) PROVE e[i] = d[i]
    <3>1. i \in 1..Len(d)+Len(Fill(m)) /\ i <= Len(d)
      BY <1>1, <1>2, <1>4
    <3>2. QED
      BY <2>1, <3>1
  <2>3. QED
    BY <1>4, <2>1, <2>2 DEF Agree
<1> HIDE DEF e
<1>6. e \in Buffers /\ Len(e) >= Len(d) + incr /\ Len(e) >= Len(d) + 1
  BY <1>1, <1>2, <1>5 DEF Buffers
<1>7. QED
  BY <1>3, <1>5, <1>6

LEMMA SpaceLemma ==
    ASSUME NEW d \in Buffers, NEW p \in 0..Len(d), NEW n \in Nat
    PROVE  \E e \in Buffers :
              /\ Len(e) >= p + n /\ Len(e) >= Len(d)
              /\ VSTRING_SPACE(Str(d, p), n) = Str(e, p)
              /\ Agree(e, d, Len(d))
<1>1. Len(d) \in Nat /\ p \in Nat /\ p <= Len(d)
  BY BufferLemma
<1>2. Str(d, p).cnt = Len(d) - p
  BY DEF Str
<1>3. CASE n > Len(d) - p
  <2> DEFINE incr == n - (Len(d) - p)
  <2>1. incr \in Nat
    BY <1>1, <1>3
  <2> HIDE DEF incr
  <2>2. PICK e \in Buffers : /\ Len(e) >= Len(d) + incr /\ Len(e) >= Len(d) + 1
                             /\ vstring_extend(Str(d, p), incr) = Str(e, p)
                             /\ Agree(e, d, Len(d))
    BY <2>1, ExtendLemma
  <2>3. VSTRING_SPACE(Str(d, p), n) = Str(e, p)
    BY <1>2, <1>3, <2>2 DEF VSTRING_SPACE, incr
  <2>4. Len(e) \in Nat
    BY BufferLemma
  <2>5. Len(e) >= p + n /\ Len(e) >= Len(d)
    BY <1>1, <2>2, <2>4 DEF incr
  <2>6. QED
    BY <2>2, <2>3, <2>5
<1>4. CASE ~ (n > Len(d) - p)
  <2>1. VSTRING_SPACE(Str(d, p), n) = Str(d, p)
    BY <1>2, <1>4 DEF VSTRING_SPACE
  <2>2. Len(d) >= p + n /\ Len(d) >= Len(d)
    BY <1>1, <1>4
  <2>3. QED
    BY <2>1, <2>2 DEF Agree
<1>5. QED
  BY <1>3, <1>4

LEMMA AddchLemma ==
    ASSUME NEW d \in Buffers, NEW p \in 0..Len(d), NEW c \in Contents
    PROVE  \E e \in Buffers :
              /\ p + 1 <= Len(e) /\ VSTRING_ADDCH(Str(d, p), c) = Str(e, p + 1)
              /\ Agree(e, d, p)
              /\ e[p + 1] = c
<1> DEFINE v == Str(d, p)
           w == IF v.cnt > 0 THEN v ELSE vstring_extend(v, 0)
<1>1. Len(d) \in Nat /\ p \in Nat /\ p <= Len(d)
  BY BufferLemma
<1>2. PICK f \in Buffers : w = Str(f, p) /\ p + 1 <= Len(f) /\ Agree(f, d, p)
  <2>1. v.cnt = Len(d) - p
    BY DEF Str
  <2>2. CASE Len(d) - p > 0
    <3>1. w = Str(d, p) /\ p + 1 <= Len(d)
      BY <1>1, <2>1, <2>2
    <3>2. QED
      BY <3>1 DEF Agree
  <2>3. CASE ~ (Len(d) - p > 0)
    <3>1. PICK f \in Buffers : /\ Len(f) >= Len(d) + 0 /\ Len(f) >= Len(d) + 1
                               /\ vstring_extend(Str(d, p), 0) = Str(f, p)
                               /\ Agree(f, d, Len(d))
      <4>1. 0 \in Nat
        OBVIOUS
      <4>2. QED
        BY <4>1, ExtendLemma
    <3>2. Len(f) \in Nat
      BY BufferLemma
    <3>3. w = Str(f, p)
      BY <2>1, <2>3, <3>1
    <3>4. p + 1 <= Len(f) /\ \A i \in 1..p : i \in 1..Len(d)
      BY <1>1, <3>1, <3>2
    <3>5. QED
      BY <3>1, <3>3, <3>4 DEF Agree
  <2>4. QED
    BY <2>2, <2>3
<1>3. Len(f) \in Nat
  BY BufferLemma
<1>4. <<c>> \in Seq(Contents) /\ Len(<<c>>) = 1 /\ <<c>>[1] = c
  OBVIOUS
<1>5. p \in 0..Len(f) /\ p + Len(<<c>>) <= Len(f)
  BY <1>1, <1>2, <1>3, <1>4
<1>6. PICK e \in Buffers : /\ Len(e) = Len(f) /\ Write(Str(f, p), p, <<c>>) = Str(e, p)
                           /\ Agree(e, f, p)
                           /\ Placed(e, p, <<c>>)
  BY <1>1, <1>4, <1>5, WriteLemma
<1>7. VSTRING_ADDCH(v, c) = [Str(e, p) EXCEPT !.ptr = @ + 1, !.cnt = @ - 1]
  <2>1. w.ptr = p
    BY <1>2 DEF Str
  <2>2. VSTRING_ADDCH(v, c) = [Write(w, w.ptr, <<c>>) EXCEPT !.ptr = @ + 1, !.cnt = @ - 1]
    BY DEF VSTRING_ADDCH
  <2> HIDE DEF w
  <2>3. QED
    BY <1>2, <1>6, <2>1, <2>2
<1>8. [Str(e, p) EXCEPT !.ptr = @ + 1, !.cnt = @ - 1] = Str(e, p + 1)
  <2>1. Str(e, p).ptr = p /\ Str(e, p).cnt = Len(e) - p
    BY DEF Str
  <2>2. p \in 0..Len(e) /\ p + 1 \in 0..Len(e) /\ Len(e) - p - 1 = Len(e) - (p + 1)
    BY <1>1, <1>2, <1>3, <1>6
  <2>3. [Str(e, p) EXCEPT !.ptr = p + 1, !.cnt = Len(e) - (p + 1)] = Str(e, p + 1)
    BY <2>2, MoveLemma
  <2>4. QED
    BY <2>1, <2>2, <2>3
<1>9. e[p + 1] = c
  BY <1>4, <1>6 DEF Placed
<1>10. QED
  BY <1>2, <1>3, <1>5, <1>4, <1>6, <1>7, <1>8, <1>9 DEF Agree

(* w is the string with contents d and length p and the first k bytes of s  *)
(* added to it.                                                             *)
Added(d, p, s, k, w) ==
    \E e \in Buffers :
       /\ p + k <= Len(e) /\ w = Str(e, p + k)
       /\ Agree(e, d, p)
       /\ \A i \in 1..k : e[p + i] = s[i]

LEMMA AddStringLemma ==
    ASSUME NEW d \in Buffers, NEW p \in 0..Len(d), NEW s \in Seq(Contents)
    PROVE  Added(d, p, s, Len(s), AddString(Str(d, p), s))
<1>1. Len(s) \in Nat /\ p \in Nat /\ Str(d, p) \in Strings /\ \A k \in 1..Len(s) : s[k] \in Contents
  BY LenProperties, ElementOfSeq, StrIsString, BufferLemma
<1> DEFINE Body(f) == f = [n \in 0..Len(s) |-> IF n = 0 THEN Str(d, p) ELSE VSTRING_ADDCH(f[n - 1], s[n])]
           step == [n \in 0..Len(s) |-> [w \in Strings |-> IF n = 0 THEN w ELSE VSTRING_ADDCH(w, s[n])]]
           added == CHOOSE f : Body(f)
<1>2. \A n \in 0..Len(s) : \A w \in Strings : step[n][w] \in Strings
  <2> SUFFICES ASSUME NEW n \in 0..Len(s), NEW w \in Strings, n # 0
               PROVE  VSTRING_ADDCH(w, s[n]) \in Strings
    OBVIOUS
  <2>1. s[n] \in Contents
    BY <1>1
  <2>2. PICK b \in Buffers : \E q \in 0..Len(b) : w = Str(b, q)
    BY StringIsStr
  <2>5. PICK q \in 0..Len(b) : w = Str(b, q)
    BY <2>2
  <2>3. PICK e \in Buffers : q + 1 <= Len(e) /\ VSTRING_ADDCH(Str(b, q), s[n]) = Str(e, q + 1)
    BY <2>1, AddchLemma
  <2>4. q + 1 \in 0..Len(e)
    BY <2>3, BufferLemma
  <2>6. QED
    BY <2>5, <2>3, <2>4, StrIsString
<1>3. PICK g : Recursive(g, 0, Len(s), Strings, Str(d, p), step)
  <2> HIDE DEF step
  <2>1. 0 \in Int /\ Len(s) \in Int /\ 0 <= Len(s)
    BY <1>1
  <2>2. QED
    BY <1>1, <1>2, <2>1, RecursionLemma
<1>4. \A n \in 0..Len(s) : n # 0 => g[n] = VSTRING_ADDCH(g[n - 1], s[n])
  <2> SUFFICES ASSUME NEW n \in 0..Len(s), n # 0 PROVE g[n] = VSTRING_ADDCH(g[n - 1], s[n])
    OBVIOUS
  <2>1. n - 1 \in 0..Len(s)
    BY <1>1
  <2>2. QED
    BY <1>3, <2>1 DEF Recursive
<1>5. Body(g)
  BY <1>3, <1>4 DEF Recursive
<1>6. Body(added)
  <2> HIDE DEF Body
  <2>1. QED
    BY <1>5
<1> HIDE DEF added
<1>7. added[0] = Str(d, p) /\ \A k \in 1..Len(s) : added[k] = VSTRING_ADDCH(added[k - 1], s[k])
  BY <1>1, <1>6
<1> DEFINE T == {k \in Nat : k <= Len(s) => Added(d, p, s, k, added[k])}
<1>8. 0 \in T
  <2>1. p + 0 = p /\ p <= Len(d) /\ 1..0 = {}
    BY <1>1
  <2>2. Added(d, p, s, 0, added[0])
    BY <1>7, <2>1 DEF Added, Agree
  <2>3. QED
    BY <2>2
<1>9. ASSUME NEW k \in Nat, k \in T PROVE k + 1 \in T
  <2> SUFFICES ASSUME k + 1 <= Len(s) PROVE Added(d, p, s, k + 1, added[k + 1])
    OBVIOUS
  <2>1. k <= Len(s) /\ k + 1 \in 1..Len(s) /\ k + 1 - 1 = k /\ p + k \in Nat
    BY <1>1
  <2>2. PICK e \in Buffers : /\ p + k <= Len(e) /\ added[k] = Str(e, p + k)
                             /\ Agree(e, d, p)
                             /\ \A i \in 1..k : e[p + i] = s[i]
    BY <1>9, <2>1 DEF Added
  <2>3. p + k \in 0..Len(e) /\ s[k + 1] \in Contents
    BY <1>1, <2>1, <2>2, BufferLemma
  <2>4. PICK f \in Buffers : /\ (p + k) + 1 <= Len(f) /\ VSTRING_ADDCH(Str(e, p + k), s[k + 1]) = Str(f, (p + k) + 1)
                             /\ Agree(f, e, p+k)
                             /\ f[(p + k) + 1] = s[k + 1]
    BY <2>3, AddchLemma
  <2>5. added[k + 1] = Str(f, p + (k + 1)) /\ p + (k + 1) <= Len(f)
    <3>1. (p + k) + 1 = p + (k + 1)
      BY <1>1
    <3>2. QED
      BY <1>7, <2>1, <2>2, <2>4, <3>1
  <2>6. ASSUME NEW i \in 1..p PROVE f[i] = d[i]
    <3>1. i \in 1..p+k
      BY <1>1
    <3>2. QED
      BY <2>2, <2>4, <3>1 DEF Agree
  <2>7. ASSUME NEW i \in 1..k+1 PROVE f[p + i] = s[i]
    <3>1. CASE i = k + 1
      <4>1. p + i = (p + k) + 1
        BY <1>1, <3>1
      <4>2. QED
        BY <2>4, <3>1, <4>1
    <3>2. CASE i # k + 1
      <4>1. i \in 1..k /\ p + i \in 1..p+k
        BY <1>1, <3>2
      <4>2. QED
        BY <2>2, <2>4, <4>1 DEF Agree
    <3>3. QED
      BY <3>1, <3>2
  <2>8. QED
    BY <2>5, <2>6, <2>7 DEF Added, Agree
<1>10. Nat \subseteq T
  <2> HIDE DEF T
  <2>1. QED
    BY <1>8, <1>9, SetInduction
<1>11. AddString(Str(d, p), s) = added[Len(s)]
  BY DEF AddString, added
<1>12. QED
  BY <1>1, <1>10, <1>11

(* v is a sound string with the text t; Terminated, with a zero byte behind *)
(* it.                                                                      *)
Holds(v, t) ==
    /\ t \in Seq(Contents)
    /\ \E e \in Buffers : /\ Len(t) <= Len(e) /\ v = Str(e, Len(t))
                          /\ Agree(e, t, Len(t))

Terminated(v, t) ==
    /\ t \in Seq(Contents)
    /\ \E e \in Buffers : /\ Len(t) + 1 <= Len(e) /\ v = Str(e, Len(t))
                          /\ Agree(e, t, Len(t))
                          /\ e[Len(t) + 1] = NUL

LEMMA PrefixIsText ==
    ASSUME NEW e \in Buffers, NEW t \in Seq(Contents), Len(t) <= Len(e),
           Agree(e, t, Len(t))
    PROVE  SubSeq(e, 1, Len(t)) = t
<1> DEFINE u == SubSeq(e, 1, Len(t))
<1>1. Len(t) \in Nat /\ Len(e) \in Nat /\ \A i \in 1..Len(e) : e[i] \in Contents
  BY BufferLemma, LenProperties
<1>2. \A i \in 1..Len(t) : e[i] \in Contents
  BY <1>1
<1>3. u \in Seq(Contents) /\ Len(u) = Len(t) /\ \A i \in 1..Len(t) : u[i] = e[i]
  BY <1>1, <1>2, SubSeqProperties
<1> HIDE DEF u
<1>4. u = t
  BY <1>3, SeqEqual DEF Agree
<1>5. QED
  BY <1>4 DEF u

LEMMA HoldsLemma ==
    ASSUME NEW v, NEW t, Holds(v, t)
    PROVE  v \in Strings /\ Text(v) = t /\ t \in Seq(Contents) /\ Len(t) \in Nat /\ VSTRING_LEN(v) = Len(t)
<1>1. PICK e \in Buffers : Len(t) <= Len(e) /\ v = Str(e, Len(t)) /\ Agree(e, t, Len(t))
  BY DEF Holds
<1>2. t \in Seq(Contents) /\ Len(t) \in Nat /\ Len(e) \in Nat
  BY BufferLemma, LenProperties DEF Holds
<1>3. Len(t) \in 0..Len(e)
  BY <1>1, <1>2
<1>4. v \in Strings
  BY <1>1, <1>3, StrIsString
<1>5. v.data = e /\ v.ptr = Len(t)
  BY <1>1 DEF Str
<1>6. Text(v) = t
  BY <1>1, <1>2, <1>5, PrefixIsText DEF Text
<1>7. QED
  BY <1>2, <1>4, <1>5, <1>6 DEF VSTRING_LEN

LEMMA TextHolds ==
    ASSUME NEW v \in Strings
    PROVE  Holds(v, Text(v))
<1> DEFINE e == v.data
           p == v.ptr
           t == SubSeq(e, 1, p)
<1>1. e \in Buffers /\ p \in 0..Len(e) /\ v = Str(e, p)
  BY StringIsStr
<1> HIDE DEF e, p
<1>2. e \in Seq(Contents) /\ Len(e) \in Nat /\ p \in Nat /\ p <= Len(e) /\ \A i \in 1..Len(e) : e[i] \in Contents
  BY <1>1, BufferLemma
<1>3. \A i \in 1..p : e[i] \in Contents
  BY <1>2
<1>4. t \in Seq(Contents) /\ Len(t) = p /\ \A i \in 1..p : t[i] = e[i]
  BY <1>2, <1>3, SubSeqProperties
<1> HIDE DEF t
<1>5. Holds(v, t)
  BY <1>1, <1>2, <1>4 DEF Holds, Agree
<1>6. QED
  BY <1>5 DEF Text, t, e, p

LEMMA TerminatedHolds ==
    ASSUME NEW v, NEW t, Terminated(v, t)
    PROVE  Holds(v, t)
<1>1. PICK e \in Buffers : Len(t) + 1 <= Len(e) /\ v = Str(e, Len(t)) /\ Agree(e, t, Len(t))
  BY DEF Terminated
<1>2. Len(t) \in Nat /\ Len(e) \in Nat
  BY BufferLemma, LenProperties DEF Terminated
<1>3. Len(t) <= Len(e)
  BY <1>1, <1>2
<1>4. QED
  BY <1>1, <1>3 DEF Holds, Terminated

LEMMA AddedHolds ==
    ASSUME NEW d \in Buffers, NEW t \in Seq(Contents), Len(t) <= Len(d), Agree(d, t, Len(t)),
           NEW s \in Seq(Contents), NEW w, Added(d, Len(t), s, Len(s), w)
    PROVE  Holds(w, t \o s)
<1>1. Len(t) \in Nat /\ Len(s) \in Nat
  BY LenProperties
<1>2. PICK e \in Buffers : /\ Len(t) + Len(s) <= Len(e) /\ w = Str(e, Len(t) + Len(s))
                           /\ Agree(e, d, Len(t))
                           /\ Placed(e, Len(t), s)
  BY DEF Added, Placed
<1> DEFINE u == t \o s
<1>3. /\ u \in Seq(Contents) /\ Len(u) = Len(t) + Len(s)
      /\ \A i \in 1..Len(t)+Len(s) : u[i] = IF i <= Len(t) THEN t[i] ELSE s[i - Len(t)]
  BY ConcatProperties
<1> HIDE DEF u
<1>4. ASSUME NEW i \in 1..Len(u) PROVE e[i] = u[i]
  <2>1. CASE i <= Len(t)
    <3>1. i \in 1..Len(t)
      BY <1>1, <1>3, <2>1
    <3>2. QED
      BY <1>2, <1>3, <2>1, <3>1 DEF Agree
  <2>2. CASE ~ (i <= Len(t))
    <3>1. i - Len(t) \in 1..Len(s) /\ Len(t) + (i - Len(t)) = i
      BY <1>1, <1>3, <2>2
    <3>2. e[i] = s[i - Len(t)]
      BY <1>2, <3>1 DEF Placed
    <3>3. QED
      BY <1>3, <2>2, <3>2
  <2>3. QED
    BY <2>1, <2>2
<1>5. Holds(w, u)
  BY <1>2, <1>3, <1>4 DEF Holds, Agree
<1>6. QED
  BY <1>5 DEF u

LEMMA TerminateLemma ==
    ASSUME NEW v, NEW t, Holds(v, t)
    PROVE  Terminated(VSTRING_TERMINATE(v), t)
<1> DEFINE p == Len(t)
<1>1. PICK d \in Buffers : p <= Len(d) /\ v = Str(d, p) /\ Agree(d, t, p)
  BY DEF Holds
<1>2. p \in Nat /\ p \in 0..Len(d) /\ t \in Seq(Contents)
  BY <1>1, HoldsLemma, BufferLemma
<1>3. PICK e \in Buffers : /\ Len(e) >= p + 1 /\ Len(e) >= Len(d)
                           /\ VSTRING_SPACE(Str(d, p), 1) = Str(e, p)
                           /\ Agree(e, d, Len(d))
  BY <1>2, SpaceLemma
<1>4. <<NUL>> \in Seq(Contents) /\ Len(<<NUL>>) = 1 /\ <<NUL>>[1] = NUL
  BY DEF Contents, Bytes
<1>5. p \in 0..Len(e) /\ p + Len(<<NUL>>) <= Len(e)
  BY <1>2, <1>3, <1>4, BufferLemma
<1>6. PICK f \in Buffers : /\ Len(f) = Len(e) /\ Write(Str(e, p), p, <<NUL>>) = Str(f, p)
                           /\ Agree(f, e, p)
                           /\ Placed(f, p, <<NUL>>)
  BY <1>2, <1>4, <1>5, WriteLemma
<1>7. v.ptr = p
  BY <1>1 DEF Str
<1>8. VSTRING_TERMINATE(v) = Str(f, p)
  BY <1>1, <1>3, <1>6, <1>7 DEF VSTRING_TERMINATE
<1>9. f[p + 1] = NUL /\ p + 1 <= Len(f)
  BY <1>4, <1>5, <1>6 DEF Placed
<1>10. ASSUME NEW i \in 1..p PROVE f[i] = t[i]
  <2>1. i \in 1..Len(d)
    BY <1>2, BufferLemma
  <2>2. QED
    BY <1>1, <1>3, <1>6, <2>1 DEF Agree
<1>11. QED
  BY <1>2, <1>8, <1>9, <1>10 DEF Terminated, Agree

LEMMA CStringLemma ==
    ASSUME NEW v, NEW t, Terminated(v, t), \A i \in 1..Len(t) : t[i] # NUL
    PROVE  CString(v) = t
<1>1. PICK e \in Buffers : /\ Len(t) + 1 <= Len(e) /\ v = Str(e, Len(t))
                           /\ Agree(e, t, Len(t))
                           /\ e[Len(t) + 1] = NUL
  BY DEF Terminated
<1>2. t \in Seq(Contents) /\ Len(t) \in Nat /\ Len(e) \in Nat
  BY BufferLemma, LenProperties DEF Terminated
<1> DEFINE I == {i \in 1..Len(e) : e[i] = NUL}
           p == Len(t)
<1>3. p + 1 \in I /\ \A i \in I : p + 1 <= i
  <2>1. p + 1 \in I
    BY <1>1, <1>2
  <2>2. ASSUME NEW i \in I PROVE p + 1 <= i
    <3>1. ~ (i \in 1..p)
      BY <1>1 DEF Agree
    <3>2. QED
      BY <1>2, <3>1
  <2>3. QED
    BY <2>1, <2>2
<1>4. Min(I) = p + 1
  <2>1. I \in SUBSET Nat /\ I # {}
    BY <1>3
  <2>2. Min(I) \in I /\ \A m \in I : Min(I) <= m
    <3> HIDE DEF I
    <3>1. QED
      BY <2>1, MinLemma
  <2>3. Min(I) \in Nat /\ p + 1 \in Nat
    BY <2>1, <2>2, <1>2
  <2>4. Min(I) <= p + 1 /\ p + 1 <= Min(I)
    BY <1>3, <2>2
  <2>5. QED
    BY <2>3, <2>4
<1>6. p + 1 - 1 = p /\ p <= Len(e)
  BY <1>1, <1>2
<1>7. v.data = e
  BY <1>1 DEF Str
<1>8. CString(v) = SubSeq(e, 1, p)
  <2> DEFINE x == IF I # {} THEN Min(I) ELSE 0
  <2>1. CString(v) = SubSeq(v.data, 1, x - 1)
    BY <1>7, Zenon DEF CString, SelectInSeq
  <2>2. x = p + 1
    BY <1>3, <1>4
  <2> HIDE DEF x
  <2>3. QED
    BY <1>6, <1>7, <2>1, <2>2
<1>9. QED
  BY <1>1, <1>2, <1>6, <1>8, PrefixIsText

LEMMA AtOffsetLemma ==
    ASSUME NEW d \in Buffers, NEW p \in 0..Len(d), NEW q \in 0..Len(d)
    PROVE  VSTRING_AT_OFFSET(Str(d, p), q) = Str(d, q)
<1>1. Str(d, p).data = d
  BY DEF Str
<1>2. [Str(d, p) EXCEPT !.ptr = q, !.cnt = Len(d) - q] = Str(d, q)
  BY MoveLemma
<1>3. QED
  BY <1>1, <1>2, Zenon DEF VSTRING_AT_OFFSET

LEMMA ResetLemma ==
    ASSUME NEW v \in Strings
    PROVE  Holds(VSTRING_RESET(v), <<>>)
<1>1. PICK d \in Buffers : \E p \in 0..Len(d) : v = Str(d, p)
  BY StringIsStr
<1>2. PICK p \in 0..Len(d) : v = Str(d, p)
  BY <1>1
<1>3. 0 \in 0..Len(d) /\ Len(d) - 0 = Len(d)
  BY BufferLemma
<1>4. v.data = d
  BY <1>2 DEF Str
<1>5. VSTRING_RESET(v) = Str(d, 0)
  <2>1. [Str(d, p) EXCEPT !.ptr = 0, !.cnt = Len(d) - 0] = Str(d, 0)
    BY <1>3, MoveLemma
  <2>2. QED
    BY <1>2, <1>3, <1>4, <2>1, Zenon DEF VSTRING_RESET
<1>6. <<>> \in Seq(Contents) /\ Len(<<>>) = 0 /\ 0 <= Len(d)
  BY <1>3
<1>7. \A i \in 1..Len(<<>>) : d[i] = <<>>[i]
  BY <1>6
<1>8. VSTRING_RESET(v) = Str(d, Len(<<>>))
  BY <1>5, <1>6
<1> HIDE DEF Holds
<1>9. QED
  BY <1>6, <1>7, <1>8, Zenon DEF Holds, Agree

LEMMA AddHolds ==
    ASSUME NEW v, NEW t, Holds(v, t), NEW s \in Seq(Contents)
    PROVE  Holds(AddString(v, s), t \o s)
<1>1. PICK d \in Buffers : Len(t) <= Len(d) /\ v = Str(d, Len(t)) /\ Agree(d, t, Len(t))
  BY DEF Holds
<1>2. t \in Seq(Contents) /\ Len(t) \in 0..Len(d)
  BY <1>1, HoldsLemma, BufferLemma
<1>3. Added(d, Len(t), s, Len(s), AddString(v, s))
  BY <1>1, <1>2, AddStringLemma
<1>4. QED
  BY <1>1, <1>2, <1>3, AddedHolds

(* What fits behind the text is written there; the length is as before.     *)
LEMMA WriteBehind ==
    ASSUME NEW v, NEW t, Holds(v, t), NEW s \in Seq(Contents), NEW n \in Nat, Len(s) <= n
    PROVE  \E e \in Buffers :
              /\ Len(t) + n <= Len(e)
              /\ VSTRING_SPACE(v, n).ptr = Len(t)
              /\ Write(VSTRING_SPACE(v, n), Len(t), s) = Str(e, Len(t))
              /\ Agree(e, t, Len(t))
              /\ Placed(e, Len(t), s)
<1> DEFINE p == Len(t)
<1>1. PICK d \in Buffers : p <= Len(d) /\ v = Str(d, p) /\ Agree(d, t, p)
  BY DEF Holds
<1>2. p \in Nat /\ p \in 0..Len(d) /\ Len(d) \in Nat /\ Len(s) \in Nat
  BY <1>1, HoldsLemma, BufferLemma, LenProperties
<1>3. PICK f \in Buffers : /\ Len(f) >= p + n /\ Len(f) >= Len(d)
                           /\ VSTRING_SPACE(Str(d, p), n) = Str(f, p)
                           /\ Agree(f, d, Len(d))
  BY <1>2, SpaceLemma
<1>4. p \in 0..Len(f) /\ p + Len(s) <= Len(f)
  BY <1>2, <1>3, BufferLemma
<1>5. PICK e \in Buffers : /\ Len(e) = Len(f) /\ Write(Str(f, p), p, s) = Str(e, p)
                           /\ Agree(e, f, p)
                           /\ Placed(e, p, s)
  <2> HIDE DEF p
  <2>1. QED
    BY <1>2, <1>4, WriteLemma
<1>6. p + n <= Len(e)
  BY <1>2, <1>3, <1>5, BufferLemma
<1>7. Str(f, p).ptr = p
  BY DEF Str
<1>8. ASSUME NEW i \in 1..p PROVE e[i] = t[i]
  <2>1. i \in 1..Len(d)
    BY <1>2
  <2>2. QED
    BY <1>1, <1>3, <1>5, <2>1 DEF Agree
<1>9. QED
  BY <1>1, <1>3, <1>5, <1>6, <1>7, <1>8 DEF Agree

LEMMA MemcatLemma ==
    ASSUME NEW v, NEW t, Holds(v, t), NEW s \in Seq(Contents)
    PROVE  Holds(vstring_memcat(v, s), t \o s)
<1> DEFINE p == Len(t)
           w == VSTRING_SPACE(v, Len(s))
<1>1. t \in Seq(Contents) /\ p \in Nat /\ Len(s) \in Nat
  BY HoldsLemma, LenProperties
<1>2. PICK e \in Buffers : /\ p + Len(s) <= Len(e) /\ w.ptr = p /\ Write(w, p, s) = Str(e, p)
                           /\ Agree(e, t, p)
                           /\ Placed(e, p, s)
  <2>1. Len(s) <= Len(s)
    BY <1>1
  <2>2. \A n \in Nat : Len(s) <= n =>
           \E e \in Buffers :
              /\ Len(t) + n <= Len(e)
              /\ VSTRING_SPACE(v, n).ptr = Len(t)
              /\ Write(VSTRING_SPACE(v, n), Len(t), s) = Str(e, Len(t))
              /\ Agree(e, t, Len(t))
              /\ Placed(e, Len(t), s)
    BY WriteBehind
  <2>3. QED
    BY <1>1, <2>1, <2>2
<1>3. Len(e) \in Nat /\ p \in 0..Len(e) /\ p + Len(s) \in 0..Len(e) /\ p <= Len(e)
  BY <1>1, <1>2, BufferLemma
<1>4. vstring_memcat(v, s) = VSTRING_AT_OFFSET(Write(w, w.ptr, s), w.ptr + Len(s))
  BY DEF vstring_memcat
<1> HIDE DEF w, p
<1>5. vstring_memcat(v, s) = Str(e, p + Len(s))
  BY <1>2, <1>3, <1>4, AtOffsetLemma
<1>6. Added(e, p, s, Len(s), vstring_memcat(v, s))
  <2>1. Agree(e, e, p)
    BY DEF Agree
  <2>2. QED
    BY <1>2, <1>5, <2>1 DEF Added, Placed
<1>7. QED
  BY <1>1, <1>2, <1>3, <1>6, AddedHolds DEF p

LEMMA MemcpyLemma ==
    ASSUME NEW v \in Strings, NEW s \in Seq(Contents)
    PROVE  Holds(vstring_memcpy(v, s), s)
<1> DEFINE r == VSTRING_RESET(v)
           w == VSTRING_SPACE(r, Len(s))
           t == <<>>
<1>1. Holds(r, t)
  BY ResetLemma
<1>2. Len(s) \in Nat /\ Len(s) <= Len(s)
  BY LenProperties
<1> HIDE DEF r
<1>3. PICK e \in Buffers : /\ Len(t) + Len(s) <= Len(e) /\ w.ptr = Len(t)
                           /\ Write(w, Len(t), s) = Str(e, Len(t))
                           /\ Agree(e, t, Len(t)) /\ Placed(e, Len(t), s)
  <2> HIDE DEF t
  <2>1. QED
    BY <1>1, <1>2, WriteBehind
<1>4. Len(t) = 0
  OBVIOUS
<1>5. Len(e) \in Nat /\ 0 \in 0..Len(e) /\ Len(s) \in 0..Len(e) /\ Len(s) <= Len(e)
  BY <1>2, <1>3, <1>4, BufferLemma
<1>6. vstring_memcpy(v, s) = VSTRING_AT_OFFSET(Write(w, 0, s), Len(s))
  BY DEF vstring_memcpy, r
<1> HIDE DEF w, t
<1>7. vstring_memcpy(v, s) = Str(e, Len(s))
  BY <1>3, <1>4, <1>5, <1>6, AtOffsetLemma
<1>8. Agree(e, s, Len(s))
  <2>1. \A i \in 1..Len(s) : e[0 + i] = s[i]
    BY <1>3, <1>4 DEF Placed
  <2>2. \A i \in 1..Len(s) : 0 + i = i
    OBVIOUS
  <2>3. QED
    BY <2>1, <2>2 DEF Agree
<1>9. QED
  BY <1>5, <1>7, <1>8 DEF Holds

LEMMA PrefixLemma ==
    ASSUME NEW S, NEW s \in Seq(S), NEW n \in Nat
    PROVE  /\ Prefix(s, n) \in Seq(S) /\ Agree(Prefix(s, n), s, Len(Prefix(s, n)))
           /\ Len(Prefix(s, n)) = IF n < Len(s) THEN n ELSE Len(s)
<1> DEFINE m == IF n < Len(s) THEN n ELSE Len(s)
           t == SubSeq(s, 1, m)
<1>1. Len(s) \in Nat /\ m \in Nat /\ m <= Len(s) /\ \A i \in 1..Len(s) : s[i] \in S
  BY LenProperties, ElementOfSeq
<1> HIDE DEF m
<1>2. \A i \in 1..m : s[i] \in S
  BY <1>1
<1>3. t \in Seq(S) /\ Len(t) = m /\ \A i \in 1..m : t[i] = s[i]
  BY <1>1, <1>2, SubSeqProperties
<1> HIDE DEF t
<1>4. Agree(t, s, Len(t))
  BY <1>3 DEF Agree
<1>5. QED
  BY <1>3, <1>4 DEF Prefix, t, m

LEMMA TruncateLemma ==
    ASSUME NEW v, NEW t, Holds(v, t), NEW n \in Nat
    PROVE  Holds(vstring_truncate(v, n), Prefix(t, n))
<1> DEFINE p == Len(t)
           u == Prefix(t, n)
<1>1. PICK d \in Buffers : p <= Len(d) /\ v = Str(d, p) /\ Agree(d, t, p)
  BY DEF Holds
<1>2. p \in Nat /\ Len(d) \in Nat /\ p \in 0..Len(d) /\ t \in Seq(Contents) /\ VSTRING_LEN(v) = p
  BY <1>1, HoldsLemma, BufferLemma
<1>3. u \in Seq(Contents) /\ Agree(u, t, Len(u)) /\ Len(u) = IF n < p THEN n ELSE p
  BY <1>2, PrefixLemma
<1> HIDE DEF u, p
<1>4. Len(u) \in Nat /\ Len(u) <= p /\ Len(u) \in 0..Len(d) /\ Len(u) <= Len(d)
  BY <1>2, <1>3
<1>5. vstring_truncate(v, n) = Str(d, Len(u))
  <2>1. CASE n < p
    BY <1>1, <1>2, <1>3, <1>4, <2>1, AtOffsetLemma DEF vstring_truncate
  <2>2. CASE ~ (n < p)
    BY <1>1, <1>2, <1>3, <2>2 DEF vstring_truncate
  <2>3. QED
    BY <2>1, <2>2
<1>6. Agree(d, u, Len(u))
  <2>1. \A i \in 1..Len(u) : i \in 1..p
    BY <1>2, <1>4
  <2>2. QED
    BY <1>1, <1>3, <2>1 DEF Agree
<1>7. QED
  BY <1>3, <1>4, <1>5, <1>6 DEF Holds, u

(* The zero byte that sprintf() leaves is the first one behind the text.    *)
LEMMA SkipLemma ==
    ASSUME NEW e \in Buffers, NEW p \in Nat, NEW s \in Seq(Contents), p + Len(s) + 1 <= Len(e),
           Placed(e, p, s), \A i \in 1..Len(s) : s[i] # NUL, e[p + Len(s) + 1] = NUL
    PROVE  VBUF_SKIP(Str(e, p)) = Str(e, p + Len(s))
<1> DEFINE c == Len(e) - p
           k == Len(s)
           Chosen(n) == /\ n = c \/ e[p + n + 1] = NUL
                        /\ \A m \in 0..n-1 : e[p + m + 1] # NUL
<1>1. Len(e) \in Nat /\ k \in Nat /\ c \in Nat /\ k \in 0..c /\ k < c
  BY BufferLemma, LenProperties
<1>2. ASSUME NEW m \in 0..k-1 PROVE e[p + m + 1] # NUL
  <2>1. m + 1 \in 1..Len(s) /\ p + (m + 1) = p + m + 1
    BY <1>1
  <2>2. e[p + (m + 1)] = s[m + 1] /\ s[m + 1] # NUL
    BY <2>1 DEF Placed
  <2>3. QED
    BY <2>1, <2>2
<1>3. Chosen(k)
  BY <1>2
<1>4. ASSUME NEW n \in 0..c, Chosen(n) PROVE n = k
  <2>1. CASE n < k
    <3>1. n \in 0..k-1 /\ n # c
      BY <1>1, <2>1
    <3>2. QED
      BY <1>2, <1>4, <3>1
  <2>2. CASE k < n
    <3>1. k \in 0..n-1
      BY <1>1, <2>2
    <3>2. QED
      BY <1>4, <3>1
  <2>3. QED
    BY <1>1, <2>1, <2>2
<1>5. (CHOOSE n \in 0..c : Chosen(n)) = k
  <2> HIDE DEF Chosen, c, k
  <2>1. QED
    BY <1>1, <1>3, <1>4
<1>6. Str(e, p).ptr = p /\ Str(e, p).cnt = c /\ Str(e, p).data = e
  BY DEF Str
<1>7. VBUF_SKIP(Str(e, p)) = [Str(e, p) EXCEPT !.ptr = p + k, !.cnt = c - k]
  <2> DEFINE n == CHOOSE n \in 0..c : Chosen(n)
  <2>1. VBUF_SKIP(Str(e, p)) = [Str(e, p) EXCEPT !.ptr = p + n, !.cnt = c - n]
    <3> HIDE DEF c
    <3>1. QED
      BY <1>6, Zenon DEF VBUF_SKIP
  <2> HIDE DEF n, c
  <2>2. n = k
    BY <1>5 DEF n
  <2>3. QED
    BY <2>1, <2>2
<1>8. c - k = Len(e) - (p + k) /\ p \in 0..Len(e) /\ p + k \in 0..Len(e)
  BY <1>1
<1>9. [Str(e, p) EXCEPT !.ptr = p + k, !.cnt = Len(e) - (p + k)] = Str(e, p + k)
  BY <1>8, MoveLemma
<1>10. QED
  BY <1>7, <1>8, <1>9

LEMMA PieceLemma ==
    ASSUME NEW v, NEW t, Holds(v, t), NEW s \in Seq(Contents), \A i \in 1..Len(s) : s[i] # NUL,
           NEW space \in Nat, Len(s) + 1 <= space
    PROVE  Holds(AddPiece(v, [text |-> s, space |-> space]), t \o s)
<1> DEFINE p == Len(t)
           u == s \o <<NUL>>
           w == VSTRING_SPACE(v, space)
           piece == [text |-> s, space |-> space]
<1>1. t \in Seq(Contents) /\ p \in Nat /\ Len(s) \in Nat
  BY HoldsLemma, LenProperties
<1>2. /\ u \in Seq(Contents) /\ Len(u) = Len(s) + 1
      /\ \A i \in 1..Len(s) : u[i] = s[i]
      /\ u[Len(s) + 1] = NUL
  <2>1. <<NUL>> \in Seq(Contents) /\ Len(<<NUL>>) = 1 /\ <<NUL>>[1] = NUL
    BY DEF Contents, Bytes
  <2>2. /\ u \in Seq(Contents) /\ Len(u) = Len(s) + Len(<<NUL>>)
        /\ \A i \in 1..Len(s)+Len(<<NUL>>) : u[i] = IF i <= Len(s) THEN s[i] ELSE <<NUL>>[i - Len(s)]
    BY <2>1, ConcatProperties
  <2> HIDE DEF u
  <2>3. Len(s) + 1 \in 1..Len(s)+Len(<<NUL>>) /\ ~ (Len(s) + 1 <= Len(s)) /\ Len(s) + 1 - Len(s) = 1
    BY <1>1, <2>1
  <2>4. u[Len(s) + 1] = NUL
    BY <2>1, <2>2, <2>3
  <2>5. ASSUME NEW i \in 1..Len(s) PROVE u[i] = s[i]
    <3>1. i \in 1..Len(s)+Len(<<NUL>>) /\ i <= Len(s)
      BY <1>1, <2>1
    <3>2. QED
      BY <2>2, <3>1
  <2>6. QED
    BY <2>1, <2>2, <2>4, <2>5
<1> HIDE DEF u
<1>3. PICK e \in Buffers : /\ Len(t) + space <= Len(e) /\ w.ptr = Len(t)
                           /\ Write(w, Len(t), u) = Str(e, Len(t))
                           /\ Agree(e, t, Len(t)) /\ Placed(e, Len(t), u)
  <2>1. Len(u) <= space
    BY <1>2
  <2>2. QED
    BY <1>2, <2>1, WriteBehind
<1>4. Len(e) \in Nat /\ p + Len(s) + 1 <= Len(e) /\ p + Len(s) <= Len(e) /\ p <= Len(e)
  <2>1. Len(e) \in Nat
    BY BufferLemma
  <2>2. QED
    BY <1>1, <1>3, <2>1
<1>5. Placed(e, p, s)
  <2> SUFFICES ASSUME NEW i \in 1..Len(s) PROVE e[p + i] = s[i]
    BY DEF Placed
  <2>1. i \in 1..Len(u)
    BY <1>1, <1>2
  <2>2. QED
    BY <1>2, <1>3, <2>1 DEF Placed
<1>6. e[p + Len(s) + 1] = NUL
  <2>1. Len(s) + 1 \in 1..Len(u) /\ p + (Len(s) + 1) = p + Len(s) + 1
    BY <1>1, <1>2
  <2>2. e[p + (Len(s) + 1)] = u[Len(s) + 1]
    BY <1>3, <2>1 DEF Placed
  <2>3. QED
    BY <1>2, <2>1, <2>2
<1> HIDE DEF p, w
<1>7. VBUF_SKIP(Str(e, p)) = Str(e, p + Len(s))
  BY <1>1, <1>4, <1>5, <1>6, SkipLemma
<1>8. AddPiece(v, piece) = Str(e, p + Len(s))
  <2>1. piece.space # 0 /\ piece.space = space /\ piece.text = s
    BY <1>1
  <2> HIDE DEF piece
  <2>2. AddPiece(v, piece) = VBUF_SKIP(Write(w, w.ptr, u))
    BY <2>1, Zenon DEF AddPiece, w, u
  <2>3. QED
    BY <1>3, <1>7, <2>2 DEF p
<1>9. Added(e, p, s, Len(s), AddPiece(v, piece))
  <2>1. Agree(e, e, p)
    BY DEF Agree
  <2>2. QED
    BY <1>4, <1>5, <1>8, <2>1 DEF Added, Placed
<1>10. QED
  BY <1>1, <1>3, <1>4, <1>9, AddedHolds DEF p

LEMMA PrintLemma ==
    ASSUME NEW v, NEW t, Holds(v, t), NEW s \in Seq(Contents), NEW u \in Seq(Contents),
           \A i \in 1..Len(u) : u[i] # NUL, NEW space \in Nat, Len(u) + 1 <= space
    PROVE  Holds(vbuf_print(v, <<[text |-> s, space |-> 0], [text |-> u, space |-> space]>>), (t \o s) \o u)
<1> DEFINE a == [text |-> s, space |-> 0]
           b == [text |-> u, space |-> space]
           pieces == <<a, b>>
           Body(f) == f = [n \in 0..Len(pieces) |-> IF n = 0 THEN v ELSE AddPiece(f[n - 1], pieces[n])]
           g == [n \in 0..2 |-> IF n = 0 THEN v ELSE IF n = 1 THEN AddPiece(v, a)
                                ELSE AddPiece(AddPiece(v, a), b)]
           printed == CHOOSE f : Body(f)
<1>1. Holds(AddPiece(v, a), t \o s)
  <2>1. a.space = 0 /\ a.text = s
    OBVIOUS
  <2> HIDE DEF a
  <2>2. AddPiece(v, a) = AddString(v, s)
    BY <2>1 DEF AddPiece
  <2>3. QED
    BY <2>2, AddHolds
<1>2. Holds(AddPiece(AddPiece(v, a), b), (t \o s) \o u)
  BY <1>1, PieceLemma
<1> HIDE DEF a, b
<1>3. Len(pieces) = 2 /\ pieces[1] = a /\ pieces[2] = b
  OBVIOUS
<1> HIDE DEF pieces
<1>4. Body(g)
  <2>1. g[0] = v /\ g[1] = AddPiece(v, a)
    OBVIOUS
  <2>2. ASSUME NEW n \in 0..2
        PROVE  g[n] = IF n = 0 THEN v ELSE AddPiece(g[n - 1], pieces[n])
    <3>1. CASE n = 0
      BY <2>1, <3>1
    <3>2. CASE n = 1
      <4>1. n - 1 = 0
        BY <3>2
      <4>2. QED
        BY <1>3, <2>1, <3>2, <4>1
    <3>3. CASE n = 2
      <4>1. n - 1 = 1 /\ g[n] = AddPiece(AddPiece(v, a), b)
        BY <3>3
      <4>2. QED
        BY <1>3, <2>1, <3>3, <4>1
    <3>4. QED
      BY <3>1, <3>2, <3>3
  <2>3. g = [n \in 0..2 |-> g[n]]
    OBVIOUS
  <2> HIDE DEF g
  <2>4. QED
    BY <1>3, <2>2, <2>3
<1>5. Body(printed)
  <2> HIDE DEF Body
  <2>1. QED
    BY <1>4
<1> HIDE DEF printed
<1>6. printed[2] = AddPiece(AddPiece(v, a), b)
  <2>1. printed[0] = v
    BY <1>3, <1>5
  <2>2. printed[1] = AddPiece(v, a)
    BY <1>3, <1>5, <2>1
  <2>3. QED
    BY <1>3, <1>5, <2>2
<1>7. vbuf_print(v, pieces) = printed[Len(pieces)]
  BY DEF vbuf_print, printed
<1>8. QED
  BY <1>2, <1>3, <1>6, <1>7 DEF pieces, a, b

(* Whatever the bounds of a range, the string stays sound.                  *)
LEMMA CutLemma ==
    ASSUME NEW v \in Strings, NEW i \in Int, NEW j \in Int
    PROVE  vstring_range(v, i, j) \in Strings
<1> DEFINE length == VSTRING_LEN(v)
           Offset(k) == IF k >= 0 THEN k ELSE IF length + k >= 0 THEN length + k ELSE 0
           first == Offset(i)
           last == IF Offset(j) < length THEN Offset(j) ELSE length - 1
           s == SubSeq(v.data, first + 1, last + 1)
           w == [Write(v, 0, s) EXCEPT !.ptr = @ - first, !.cnt = @ + first]
<1>1. v.data \in Buffers /\ v.ptr \in 0..Len(v.data) /\ v = Str(v.data, v.ptr) /\ length = v.ptr
  BY StringIsStr DEF VSTRING_LEN
<1>2. /\ length \in Nat /\ Len(v.data) \in Nat /\ length <= Len(v.data)
      /\ \A k \in 1..Len(v.data) : v.data[k] \in Contents
  BY <1>1, BufferLemma
<1>3. vstring_range(v, i, j) = IF length = 0 THEN v
                               ELSE VSTRING_TERMINATE(IF 0 < first /\ first <= last THEN w ELSE VSTRING_RESET(v))
  BY Zenon DEF vstring_range
<1>4. CASE length = 0
  BY <1>3, <1>4
<1>5. ASSUME NEW x \in Strings PROVE VSTRING_TERMINATE(x) \in Strings
  BY TextHolds, TerminateLemma, TerminatedHolds, HoldsLemma
<1>6. VSTRING_RESET(v) \in Strings
  BY ResetLemma, HoldsLemma
<1>7. ASSUME length # 0, 0 < first, first <= last PROVE w \in Strings
  <2>1. first \in Nat /\ last \in Nat /\ last <= length - 1
    BY <1>2, <1>7
  <2> HIDE DEF first, last, length
  <2>2. \A k \in first+1..last+1 : v.data[k] \in Contents
    BY <1>2, <2>1
  <2>3. s \in Seq(Contents) /\ Len(s) = last - first + 1
    <3>1. /\ s \in Seq(Contents)
          /\ Len(s) = IF first + 1 <= last + 1 THEN (last + 1) - (first + 1) + 1 ELSE 0
      BY <2>1, <2>2, SubSeqProperties
    <3> HIDE DEF s
    <3>2. QED
      BY <1>7, <2>1, <3>1
  <2> HIDE DEF s
  <2>4. 0 + Len(s) <= Len(v.data) /\ 0 \in Nat
    BY <1>2, <1>7, <2>1, <2>3
  <2>5. PICK e \in Buffers : Len(e) = Len(v.data) /\ Write(v, 0, s) = Str(e, v.ptr)
    <3> DEFINE d == v.data
               p == v.ptr
    <3>1. d \in Buffers /\ p \in 0..Len(d) /\ v = Str(d, p)
      BY <1>1
    <3>2. 0 + Len(s) <= Len(d)
      BY <2>4
    <3> HIDE DEF d, p
    <3>3. PICK e \in Buffers : /\ Write(Str(d, p), 0, s) = Str(e, p) /\ Len(e) = Len(d)
                               /\ Agree(e, d, 0) /\ Placed(e, 0, s)
      BY <2>3, <2>4, <3>1, <3>2, WriteLemma
    <3>4. QED
      BY <3>1, <3>3 DEF d, p
  <2> DEFINE p == v.ptr
             n == Len(e)
  <2>6. n \in Nat /\ p \in 0..n /\ p - first \in 0..n /\ (n - p) + first = n - (p - first)
    BY <1>1, <1>2, <1>7, <2>1, <2>5
  <2>7. [Str(e, p) EXCEPT !.ptr = p - first, !.cnt = n - (p - first)] = Str(e, p - first)
    BY <2>6, MoveLemma
  <2>8. Str(e, p).ptr = p /\ Str(e, p).cnt = n - p
    BY DEF Str
  <2>9. w = Str(e, p - first)
    <3>1. w = [Str(e, p) EXCEPT !.ptr = p - first, !.cnt = (n - p) + first]
      <4> HIDE DEF p, n
      <4>1. Write(v, 0, s) = Str(e, p)
        BY <2>5 DEF p
      <4>2. QED
        BY <2>8, <4>1
    <3>2. QED
      BY <2>6, <2>7, <3>1
  <2>10. QED
    BY <2>6, <2>9, StrIsString
<1> HIDE DEF first, last, w
<1>8. CASE length # 0
  BY <1>3, <1>5, <1>6, <1>7, <1>8
<1>9. QED
  BY <1>4, <1>8

LEMMA BoundedLemma ==
    ASSUME NEW S \in SUBSET Contents, NEW n \in Nat, NEW s \in SeqOf(S, n)
    PROVE  s \in Seq(Contents) /\ Len(s) \in Nat /\ Len(s) <= n /\ \A i \in 1..Len(s) : s[i] \in S
<1>1. PICK m \in 0..n : s \in [1..m -> S]
  BY DEF SeqOf
<1>2. s \in Seq(S) /\ Len(s) = m
  BY <1>1
<1>3. s \in Seq(Contents)
  BY <1>2, SeqMonotonic
<1>4. QED
  BY <1>1, <1>2, <1>3

LEMMA ContentsLemma ==
    /\ Chars \in SUBSET Contents /\ Bytes \in SUBSET Contents /\ NUL \notin Chars
    /\ MaxText \in Nat /\ MaxLiteral \in Nat /\ MaxLen \in Nat
    /\ \A s \in SeqOf(Chars, MaxText) : s \in Seq(Contents) /\ \A i \in 1..Len(s) : s[i] # NUL
    /\ \A s \in SeqOf(Bytes, MaxText) : s \in Seq(Contents)
<1>1. /\ Chars \in SUBSET Contents /\ Bytes \in SUBSET Contents /\ NUL \notin Chars
      /\ MaxText \in Nat /\ MaxLiteral \in Nat /\ MaxLen \in Nat
  BY VStringAssumption DEF VStringAssumption, Contents, Bytes
<1>2. ASSUME NEW s \in SeqOf(Chars, MaxText)
      PROVE  s \in Seq(Contents) /\ \A i \in 1..Len(s) : s[i] # NUL
  <2>1. s \in Seq(Contents) /\ \A i \in 1..Len(s) : s[i] \in Chars
    BY <1>1, BoundedLemma
  <2>2. QED
    BY <1>1, <2>1
<1>3. ASSUME NEW s \in SeqOf(Bytes, MaxText) PROVE s \in Seq(Contents)
  BY <1>1, BoundedLemma
<1>4. QED
  BY <1>1, <1>2, <1>3

LEMMA StrcatLemma ==
    ASSUME NEW v, NEW t, Holds(v, t), NEW s \in Seq(Contents)
    PROVE  Terminated(vstring_strcat(v, s), t \o s)
BY AddHolds, TerminateLemma DEF vstring_strcat

LEMMA StrcpyLemma ==
    ASSUME NEW v \in Strings, NEW s \in Seq(Contents)
    PROVE  Terminated(vstring_strcpy(v, s), s)
<1>1. Holds(AddString(VSTRING_RESET(v), s), <<>> \o s)
  BY ResetLemma, AddHolds
<1>2. <<>> \o s = s
  BY ConcatEmptySeq
<1>3. QED
  BY <1>1, <1>2, TerminateLemma DEF vstring_strcpy

(* A piece of literal text and a number: the text of the one and the digits *)
(* of the other.                                                            *)
LEMMA SprintfLemma ==
    ASSUME NEW v \in Strings, NEW pieces \in Pieces
    PROVE  /\ Terminated(vstring_vsprintf(v, pieces), pieces[1].text \o pieces[2].text)
           /\ \A i \in 1..Len(pieces[1].text \o pieces[2].text) : (pieces[1].text \o pieces[2].text)[i] # NUL
<1>1. PICK width \in 0..1 :
         \E s \in SeqOf(Chars, MaxLiteral), t \in SeqOf(Chars, INT_SPACE + width - 1) :
            pieces = <<[text |-> s, space |-> 0], [text |-> t, space |-> INT_SPACE + width]>>
  BY DEF Pieces
<1>2. PICK s \in SeqOf(Chars, MaxLiteral), t \in SeqOf(Chars, INT_SPACE + width - 1) :
         pieces = <<[text |-> s, space |-> 0], [text |-> t, space |-> INT_SPACE + width]>>
  BY <1>1
<1> DEFINE space == INT_SPACE + width
<1>3. space \in Nat /\ space - 1 \in Nat /\ INT_SPACE + width - 1 = space - 1
  BY VStringAssumption DEF VStringAssumption
<1>4. pieces[1].text = s /\ pieces[2].text = t
  BY <1>2
<1> HIDE DEF space
<1>5. s \in Seq(Contents) /\ Len(s) \in Nat /\ \A i \in 1..Len(s) : s[i] \in Chars
  BY ContentsLemma, BoundedLemma
<1>6. t \in Seq(Contents) /\ Len(t) \in Nat /\ Len(t) + 1 <= space /\ \A i \in 1..Len(t) : t[i] \in Chars
  <2>1. t \in SeqOf(Chars, space - 1)
    BY <1>2, <1>3
  <2>2. t \in Seq(Contents) /\ Len(t) \in Nat /\ Len(t) <= space - 1 /\ \A i \in 1..Len(t) : t[i] \in Chars
    BY <1>3, <2>1, ContentsLemma, BoundedLemma
  <2>3. QED
    BY <1>3, <2>2
<1>7. \A i \in 1..Len(t) : t[i] # NUL
  BY <1>6, ContentsLemma
<1>8. Holds(vbuf_print(VSTRING_RESET(v), pieces), (<<>> \o s) \o t)
  <2>1. pieces = <<[text |-> s, space |-> 0], [text |-> t, space |-> space]>>
    BY <1>2 DEF space
  <2>2. Holds(VSTRING_RESET(v), <<>>)
    BY ResetLemma
  <2>3. Holds(vbuf_print(VSTRING_RESET(v), <<[text |-> s, space |-> 0], [text |-> t, space |-> space]>>),
              (<<>> \o s) \o t)
    BY <1>3, <1>5, <1>6, <1>7, <2>2, PrintLemma
  <2>4. QED
    BY <2>1, <2>3
<1>9. <<>> \o s = s
  BY <1>5, ConcatEmptySeq
<1>10. Terminated(vstring_vsprintf(v, pieces), s \o t)
  BY <1>8, <1>9, TerminateLemma DEF vstring_vsprintf
<1>11. ASSUME NEW i \in 1..Len(s \o t) PROVE (s \o t)[i] # NUL
  <2> DEFINE u == s \o t
  <2>1. /\ Len(u) = Len(s) + Len(t)
        /\ \A k \in 1..Len(s)+Len(t) : u[k] = IF k <= Len(s) THEN s[k] ELSE t[k - Len(s)]
    BY <1>5, <1>6, ConcatProperties
  <2>2. i \in 1..Len(u)
    OBVIOUS
  <2> HIDE DEF u
  <2>3. u[i] \in Chars
    <3>1. CASE i <= Len(s)
      <4>1. i \in 1..Len(s)
        BY <1>5, <2>1, <2>2, <3>1
      <4>2. QED
        BY <1>5, <2>1, <2>2, <3>1, <4>1
    <3>2. CASE ~ (i <= Len(s))
      <4>1. i - Len(s) \in 1..Len(t)
        BY <1>5, <1>6, <2>1, <2>2, <3>2
      <4>2. QED
        BY <1>6, <2>1, <2>2, <3>2, <4>1
    <3>3. QED
      BY <3>1, <3>2
  <2>4. QED
    BY <2>3, ContentsLemma DEF u
<1>12. QED
  BY <1>4, <1>10, <1>11

LEMMA StringInit == VStringInit => vp \in Strings
<1> SUFFICES ASSUME NEW n \in 1..2, vp = vstring_alloc(n) PROVE vp \in Strings
  BY DEF VStringInit
<1> DEFINE m == n - 1
           d == <<NUL>> \o Fill(m)
<1>1. m \in Nat /\ n \in Nat /\ m + 1 = n
  OBVIOUS
<1> HIDE DEF m
<1>2. Fill(m) \in Seq(Contents) /\ Len(Fill(m)) = m
  <2>1. Fill(m) \in [1..m -> Contents]
    BY DEF Fill, Contents
  <2>2. QED
    BY <1>1, <2>1
<1>3. d \in Seq(Contents) /\ Len(d) = 1 + m
  <2>1. <<NUL>> \in Seq(Contents) /\ Len(<<NUL>>) = 1
    BY DEF Contents, Bytes
  <2>2. QED
    BY <1>2, <2>1, ConcatProperties
<1>4. vp = [data |-> d, ptr |-> 0, cnt |-> n, wild |-> FALSE]
  BY DEF vstring_alloc, m
<1> HIDE DEF d
<1>5. d \in Buffers /\ 0 \in 0..Len(d) /\ Len(d) - 0 = n
  BY <1>1, <1>3 DEF Buffers
<1>6. vp = Str(d, 0)
  BY <1>4, <1>5 DEF Str
<1>7. QED
  BY <1>5, <1>6, StrIsString

LEMMA StringNext ==
    ASSUME vp \in Strings, VStringNext
    PROVE  vp' \in Strings
<1> DEFINE t == Text(vp)
<1>1. Holds(vp, t)
  BY TextHolds
<1>2. ASSUME NEW s \in Seq(Contents)
      PROVE  /\ vstring_strcpy(vp, s) \in Strings /\ vstring_strcat(vp, s) \in Strings
             /\ vstring_memcpy(vp, s) \in Strings /\ vstring_memcat(vp, s) \in Strings
  <2>1. Terminated(vstring_strcpy(vp, s), s) /\ Terminated(vstring_strcat(vp, s), t \o s)
    BY <1>1, StrcpyLemma, StrcatLemma
  <2>2. Holds(vstring_memcpy(vp, s), s) /\ Holds(vstring_memcat(vp, s), t \o s)
    BY <1>1, MemcpyLemma, MemcatLemma
  <2>3. QED
    BY <2>1, <2>2, TerminatedHolds, HoldsLemma
<1>3. ASSUME NEW s \in Seq(Contents), NEW n \in 0..Len(s)
      PROVE  vstring_strncpy(vp, s, n) \in Strings /\ vstring_strncat(vp, s, n) \in Strings
  <2>1. n \in Nat
    BY LenProperties
  <2>2. Prefix(s, n) \in Seq(Contents)
    BY <2>1, PrefixLemma
  <2>3. QED
    BY <1>2, <2>2 DEF vstring_strncpy, vstring_strncat
<1>4. CASE \E s \in SeqOf(Chars, MaxText) :
              \/ vp' = vstring_strcpy(vp, s)
              \/ VSTRING_LEN(vp) + Len(s) <= MaxLen /\ vp' = vstring_strcat(vp, s)
              \/ \E n \in 0..Len(s) :
                    \/ vp' = vstring_strncpy(vp, s, n)
                    \/ VSTRING_LEN(vp) + n <= MaxLen /\ vp' = vstring_strncat(vp, s, n)
  BY <1>2, <1>3, <1>4, ContentsLemma
<1>5. CASE \E s \in SeqOf(Bytes, MaxText) :
              \/ vp' = vstring_memcpy(vp, s)
              \/ VSTRING_LEN(vp) + Len(s) <= MaxLen /\ vp' = vstring_memcat(vp, s)
  BY <1>2, <1>5, ContentsLemma
<1>6. ASSUME NEW pieces \in Pieces, vp' = vstring_vsprintf(vp, pieces) PROVE vp' \in Strings
  BY <1>6, SprintfLemma, TerminatedHolds, HoldsLemma
<1>7. ASSUME NEW n \in 0..MaxLen, vp' = vstring_truncate(vp, n) PROVE vp' \in Strings
  <2>1. n \in Nat
    BY ContentsLemma
  <2>2. QED
    BY <1>1, <1>7, <2>1, TruncateLemma, HoldsLemma
<1>8. ASSUME NEW i \in -MaxLen..MaxLen, NEW j \in -MaxLen..MaxLen, vp' = vstring_range(vp, i, j)
      PROVE  vp' \in Strings
  <2>1. i \in Int /\ j \in Int
    BY ContentsLemma
  <2>2. QED
    BY <1>8, <2>1, CutLemma
<1>9. QED
  BY <1>4, <1>5, <1>6, <1>7, <1>8 DEF VStringNext

(* The invariant of every string of vstring.c: its buffer is never empty    *)
(* and the write position stays inside.                                     *)
THEOREM StringsAreSound == VStringSpec => [](vp \in Strings)
<1>1. VStringInit => vp \in Strings
  BY StringInit
<1>2. vp \in Strings /\ [VStringNext]_vp => (vp \in Strings)'
  <2>1. CASE VStringNext
    BY <2>1, StringNext
  <2>2. CASE UNCHANGED vp
    BY <2>2
  <2>3. QED
    BY <2>1, <2>2
<1>3. QED
  BY <1>1, <1>2, PTL DEF VStringSpec

(* The operations of vstring.c and vbuf_print.c keep the count of bytes left *)
(* exact and write inside the buffer only, for texts of any length.          *)
THEOREM BuffersAreSound == VStringSpec => []BufferSound
<1>1. vp \in Strings => BufferSound
  BY DEF Strings, BufferSound
<1>2. QED
  BY <1>1, StringsAreSound, PTL

(* Copying, appending, truncating and formatting (vstring.c, vbuf_print.c)  *)
(* make the text they are named for from every sound string, for texts of   *)
(* any length and formats of one literal text and one number.               *)
THEOREM TextIsMade == VStringSpec => []OperationsOnText
<1>1. ASSUME vp \in Strings PROVE OperationsOnText
  <2> DEFINE t == Text(vp)
  <2>1. Holds(vp, t)
    BY <1>1, TextHolds
  <2>2. ASSUME NEW s \in SeqOf(Chars, MaxText)
        PROVE  /\ Text(vstring_strcpy(vp, s)) = s
               /\ CString(vstring_strcpy(vp, s)) = s
               /\ Text(vstring_strcat(vp, s)) = t \o s
               /\ ~Contains(t, NUL) => CString(vstring_strcat(vp, s)) = t \o s
    <3>1. s \in Seq(Contents) /\ \A i \in 1..Len(s) : s[i] # NUL
      BY ContentsLemma
    <3>2. Terminated(vstring_strcpy(vp, s), s)
      BY <1>1, <3>1, StrcpyLemma
    <3>3. Terminated(vstring_strcat(vp, s), t \o s)
      BY <2>1, <3>1, StrcatLemma
    <3>4. Text(vstring_strcpy(vp, s)) = s /\ Text(vstring_strcat(vp, s)) = t \o s
      BY <3>2, <3>3, TerminatedHolds, HoldsLemma
    <3>5. CString(vstring_strcpy(vp, s)) = s
      BY <3>1, <3>2, CStringLemma
    <3>6. ASSUME ~Contains(t, NUL) PROVE CString(vstring_strcat(vp, s)) = t \o s
      <4> DEFINE u == t \o s
      <4>1. t \in Seq(Contents) /\ Len(t) \in Nat /\ Len(s) \in Nat /\ \A i \in 1..Len(t) : t[i] # NUL
        BY <2>1, <3>1, <3>6, HoldsLemma, LenProperties DEF Contains
      <4>2. /\ Len(u) = Len(t) + Len(s)
            /\ \A k \in 1..Len(t)+Len(s) : u[k] = IF k <= Len(t) THEN t[k] ELSE s[k - Len(t)]
        BY <3>1, <4>1, ConcatProperties
      <4> HIDE DEF u
      <4>3. ASSUME NEW i \in 1..Len(u) PROVE u[i] # NUL
        <5>1. CASE i <= Len(t)
          <6>1. i \in 1..Len(t) /\ i \in 1..Len(t)+Len(s)
            BY <4>1, <4>2, <5>1
          <6>2. QED
            BY <4>1, <4>2, <5>1, <6>1
        <5>2. CASE ~ (i <= Len(t))
          <6>1. i - Len(t) \in 1..Len(s) /\ i \in 1..Len(t)+Len(s)
            BY <4>1, <4>2, <5>2
          <6>2. QED
            BY <3>1, <4>2, <5>2, <6>1
        <5>3. QED
          BY <5>1, <5>2
      <4>4. QED
        BY <3>3, <4>3, CStringLemma DEF u
    <3>7. QED
      BY <3>4, <3>5, <3>6
  <2>3. ASSUME NEW s \in SeqOf(Bytes, MaxText)
        PROVE  Text(vstring_memcpy(vp, s)) = s /\ Text(vstring_memcat(vp, s)) = t \o s
    <3>1. s \in Seq(Contents)
      BY ContentsLemma
    <3>2. Holds(vstring_memcpy(vp, s), s) /\ Holds(vstring_memcat(vp, s), t \o s)
      BY <1>1, <2>1, <3>1, MemcpyLemma, MemcatLemma
    <3>3. QED
      BY <3>2, HoldsLemma
  <2>4. ASSUME NEW pieces \in Pieces
        PROVE  /\ Text(vstring_vsprintf(vp, pieces)) = pieces[1].text \o pieces[2].text
               /\ CString(vstring_vsprintf(vp, pieces)) = Text(vstring_vsprintf(vp, pieces))
    <3> DEFINE w == vstring_vsprintf(vp, pieces)
               u == pieces[1].text \o pieces[2].text
    <3>1. Terminated(w, u) /\ \A i \in 1..Len(u) : u[i] # NUL
      BY <1>1, SprintfLemma
    <3> HIDE DEF w, u
    <3>2. Text(w) = u /\ CString(w) = u
      BY <3>1, TerminatedHolds, HoldsLemma, CStringLemma
    <3>3. QED
      BY <3>2 DEF w, u
  <2>5. ASSUME NEW n \in 0..MaxLen PROVE Text(vstring_truncate(vp, n)) = Prefix(t, n)
    <3>1. n \in Nat
      BY ContentsLemma
    <3>2. QED
      BY <2>1, <3>1, TruncateLemma, HoldsLemma
  <2>6. QED
    BY <2>2, <2>3, <2>4, <2>5 DEF OperationsOnText
<1>2. QED
  BY <1>1, StringsAreSound, PTL
-----------------------------------------------------------------------------
(***************************************************************************)
(* Calls on descriptors.                                                   *)
(***************************************************************************)
Places == {"idle", "socket", "connect", "poll", "getsockopt", "io", "returned"}
Sockets == [open : BOOLEAN, non_blocking : BOOLEAN, state : {"new", "connecting", "connected", "failed"}]

IoTypeOK ==
    /\ call \in Calls \cup {NoCall}
    /\ iopc \in Places
    /\ buf \in Int /\ len \in Int /\ expire \in Int /\ left \in Int /\ result \in Int
    /\ waited \in Nat /\ now \in Nat
    /\ failures \in Nat /\ signals \in Nat /\ delay \in Nat
    /\ sent \in Seq(Int)
    /\ sock \in Sockets

\* Which calls come to which places, and what a call begins with.
PlacesInv ==
    /\ iopc = "idle" => call = NoCall /\ now = 0 /\ delay = 0 /\ signals = 0 /\ failures = 0
                        /\ waited = 0 /\ buf = 0 /\ sent = <<>> /\ sock = NoSocket
    /\ iopc # "idle" => call \in Calls
    /\ iopc \in {"socket", "connect", "getsockopt"} => call.fn = "inet_connect"
    /\ iopc = "io" => call.fn # "inet_connect"
    /\ iopc # "returned" => result = 0
    /\ expire = call.timeout

\* What poll() has slept and may still sleep, in this round, is no more than
\* the time-out for every round that a signal has cut short, and this one.
SleepInv ==
    /\ iopc = "poll" => waited <= left /\ left <= call.timeout
    /\ iopc \in {"socket", "connect"} => now = delay
    /\ now - delay + (IF iopc = "poll" THEN left - waited ELSE 0) <= call.timeout * (1 + signals)

\* The bytes behind the pointer have been written, whatever was written twice.
SentInv ==
    call.fn = "write_buf" =>
        /\ buf + len = call.n
        /\ Len(sent) = buf + failures
        /\ \A j \in 0..buf-1 : \E i \in 1..Len(sent) : sent[i] = j
        /\ \A i \in 1..Len(sent) : sent[i] < call.n
        /\ failures = 0 => \A i \in 1..Len(sent) : sent[i] = i - 1
        /\ result > 0 => result = call.n /\ buf = call.n

\* How far a connection has come.
ConnectInv ==
    call.fn = "inet_connect" =>
        /\ iopc = "socket" => ~sock.open
        /\ iopc = "connect" => sock.open /\ sock.non_blocking = (call.timeout > 0 \/ call.non_blocking)
        /\ iopc = "poll" => sock.open /\ call.timeout > 0 /\ sock.state # "new"
        /\ iopc = "getsockopt" => sock.open /\ call.timeout > 0 /\ sock.state \in {"connected", "failed"}
        /\ ConnectSound

IoInv ==
    /\ IoTypeOK
    /\ PlacesInv
    /\ SleepInv
    /\ SentInv
    /\ ConnectInv
-----------------------------------------------------------------------------
(* What the invariant says of a call that is going on.                      *)
LEMMA CallTypes ==
    ASSUME NEW c \in Calls
    PROVE  /\ c.timeout \in Nat /\ c.n \in Nat /\ c.non_blocking \in BOOLEAN
           /\ c.fn \in {"write_buf", "timed_read", "timed_write", "inet_connect"}
           /\ c.fn # "inet_connect" => c.n >= 1
<1>1. MaxBuf \in Nat /\ MaxTimeout \in Nat
  BY IostuffAssumption, Zenon
<1>2. CASE c \in [fn : {"write_buf", "timed_read", "timed_write"}, n : 1..MaxBuf, timeout : 0..MaxTimeout,
                  non_blocking : {FALSE}]
  <2>1. /\ c.fn \in {"write_buf", "timed_read", "timed_write"}
        /\ c.n \in 1..MaxBuf /\ c.timeout \in 0..MaxTimeout /\ c.non_blocking \in {FALSE}
    BY <1>2
  <2>2. c.non_blocking \in BOOLEAN
    BY <2>1, Zenon
  <2>3. c.timeout \in Nat /\ c.n \in Nat /\ c.n >= 1
    BY <1>1, <2>1
  <2>4. QED
    BY <2>1, <2>2, <2>3
<1>3. CASE c \in [fn : {"inet_connect"}, n : {0}, timeout : 0..MaxTimeout, non_blocking : BOOLEAN]
  BY <1>1, <1>3
<1>4. QED
  BY <1>2, <1>3 DEF Calls

LEMMA InitIo == IostuffInit => IoInv
BY DEF IostuffInit, IoInv, IoTypeOK, PlacesInv, SleepInv, SentInv, ConnectInv, NoCall, NoSocket,
       Places, Sockets, Calls

(* The sleep allowed grows by the time-out with every signal.               *)
LEMMA OneMoreRound ==
    ASSUME NEW t \in Nat, NEW k \in Nat
    PROVE  /\ t * (1 + k) \in Nat /\ t <= t * (1 + k)
           /\ t * (1 + (k + 1)) = t * (1 + k) + t
OBVIOUS
-----------------------------------------------------------------------------
LEMMA CallBeginsIo ==
    ASSUME IoInv, CallBegins
    PROVE  IoInv'
<1>1. /\ call' \in Calls /\ call'.timeout \in Nat /\ call'.n \in Nat
      /\ call'.fn \in {"write_buf", "timed_read", "timed_write", "inet_connect"}
  BY CallTypes DEF CallBegins
<1>2. /\ iopc = "idle" /\ now = 0 /\ delay = 0 /\ signals = 0 /\ failures = 0
      /\ buf = 0 /\ sent = <<>> /\ sock = NoSocket /\ result = 0
      /\ waited = 0
  BY DEF CallBegins, IoInv, PlacesInv, IoTypeOK
<1>3. /\ len' = call'.n /\ expire' = call'.timeout /\ left' = call'.timeout
      /\ iopc' = IF call'.fn = "inet_connect" THEN "socket"
                 ELSE IF call'.timeout > 0 THEN "poll" ELSE "io"
      /\ UNCHANGED <<buf, waited, now, sent, failures, signals, delay, sock, result>>
  BY DEF CallBegins
<1>4. QED
  BY <1>1, <1>2, <1>3
     DEF IoInv, IoTypeOK, PlacesInv, SleepInv, SentInv, ConnectInv, ConnectSound, Places, Sockets, NoSocket
LEMMA CallEndsIo == IoInv /\ CallEnds => IoInv'
BY DEF CallEnds, IoInv, IoTypeOK, PlacesInv, SleepInv, SentInv, ConnectInv, ConnectSound, NoCall, NoSocket,
       Places, Sockets

(* Facts about a call in progress that the steps below share.               *)
LEMMA InCall ==
    ASSUME IoInv, iopc # "idle"
    PROVE  /\ call \in Calls /\ call.timeout \in Nat /\ call.n \in Nat /\ call.non_blocking \in BOOLEAN
           /\ call.fn \in {"write_buf", "timed_read", "timed_write", "inet_connect"}
           /\ call.fn # "inet_connect" => call.n >= 1
           /\ call.timeout * (1 + signals) \in Nat
           /\ call.timeout <= call.timeout * (1 + signals)
           /\ call.timeout * (1 + (signals + 1)) = call.timeout * (1 + signals) + call.timeout
<1>1. call \in Calls /\ signals \in Nat
  BY DEF IoInv, PlacesInv, IoTypeOK
<1>2. QED
  BY <1>1, CallTypes, OneMoreRound

(* Sleep uses up what the round may sleep, delay is allowed for.            *)
LEMMA ClockTicksIo ==
    ASSUME IoInv, ClockTicks
    PROVE  IoInv'
<1>1. /\ call.timeout * (1 + signals) \in Nat
      /\ UNCHANGED <<call, iopc, buf, len, expire, left, sent, failures, signals, sock, result>>
      /\ now' = now + 1
      /\ \/ iopc = "poll" /\ waited < left /\ waited' = waited + 1 /\ delay' = delay
         \/ iopc # "poll" /\ delay' = delay + 1 /\ waited' = waited
      /\ iopc # "idle"
  BY InCall DEF ClockTicks
<1>2. IoTypeOK' /\ PlacesInv' /\ SentInv' /\ ConnectInv'
  BY <1>1 DEF IoInv, IoTypeOK, PlacesInv, SentInv, ConnectInv, ConnectSound
<1>3. SleepInv'
  BY <1>1 DEF IoInv, IoTypeOK, SleepInv
<1>4. QED
  BY <1>2, <1>3 DEF IoInv

LEMMA PollReadyIo ==
    ASSUME IoInv, PollReady
    PROVE  IoInv'
<1>1. /\ UNCHANGED <<call, buf, len, expire, left, waited, now, sent, failures, signals, delay, sock, result>>
      /\ iopc = "poll" /\ result = 0
      /\ iopc' = IF call.fn = "inet_connect" THEN "getsockopt" ELSE "io"
      /\ call.fn = "inet_connect" => sock.state # "connecting"
  BY DEF PollReady, Continue, IoInv, PlacesInv
<1>2. IoTypeOK' /\ PlacesInv' /\ SentInv'
  BY <1>1 DEF IoInv, IoTypeOK, PlacesInv, SentInv, Places
<1>3. SleepInv'
  BY <1>1, InCall DEF IoInv, IoTypeOK, SleepInv
<1>4. ConnectInv'
  BY <1>1 DEF IoInv, IoTypeOK, Sockets, ConnectInv, ConnectSound
<1>5. QED
  BY <1>2, <1>3, <1>4 DEF IoInv

(* A signal gives the round back what it has slept, at most a time-out.     *)
LEMMA PollInterruptedIo ==
    ASSUME IoInv, PollInterrupted
    PROVE  IoInv'
<1>1. /\ UNCHANGED <<call, iopc, buf, len, expire, left, now, sent, failures, delay, sock, result>>
      /\ iopc = "poll" /\ waited' = 0 /\ signals' = signals + 1
  BY DEF PollInterrupted
<1>2. IoTypeOK' /\ PlacesInv' /\ SentInv' /\ ConnectInv'
  BY <1>1 DEF IoInv, IoTypeOK, PlacesInv, SentInv, ConnectInv, ConnectSound
<1>3. SleepInv'
  <2> DEFINE bound == call.timeout * (1 + signals)
  <2>1. bound \in Nat /\ call.timeout * (1 + signals') = bound + call.timeout /\ call.timeout \in Nat
    BY <1>1, InCall
  <2>2. waited <= left /\ left <= call.timeout /\ now - delay + (left - waited) <= bound
    BY <1>1 DEF IoInv, SleepInv
  <2> HIDE DEF bound
  <2>3. now - delay + left <= bound + call.timeout
    BY <2>1, <2>2 DEF IoInv, IoTypeOK
  <2>4. QED
    BY <1>1, <2>1, <2>2, <2>3 DEF IoInv, IoTypeOK, SleepInv
<1>4. QED
  BY <1>2, <1>3 DEF IoInv

LEMMA PollTimesOutIo ==
    ASSUME IoInv, PollTimesOut
    PROVE  IoInv'
<1>1. /\ UNCHANGED <<call, buf, len, expire, left, waited, now, sent, failures, signals, delay>>
      /\ iopc = "poll" /\ waited = left
      /\ iopc' = "returned" /\ result' = -1
      /\ sock' = [sock EXCEPT !.open = FALSE]
  BY DEF PollTimesOut, Return
<1>2. sock' \in Sockets /\ ~sock'.open
  BY <1>1 DEF IoInv, IoTypeOK, Sockets
<1>3. IoTypeOK' /\ PlacesInv' /\ SentInv'
  BY <1>1, <1>2 DEF IoInv, IoTypeOK, PlacesInv, SentInv, Places
<1>4. SleepInv'
  BY <1>1, InCall DEF IoInv, IoTypeOK, SleepInv
<1>5. ConnectInv'
  BY <1>1, <1>2 DEF ConnectInv, ConnectSound
<1>6. QED
  BY <1>3, <1>4, <1>5 DEF IoInv

LEMMA TimedIoIo ==
    ASSUME IoInv, TimedIo
    PROVE  IoInv'
<1>1. /\ UNCHANGED <<call, buf, len, expire, left, waited, now, sent, failures, signals, delay, sock>>
      /\ iopc = "io" /\ call.fn \in {"timed_read", "timed_write"}
      /\ iopc' = "returned" /\ result' \in Int
  <2>1. call.n \in Nat
    BY InCall DEF TimedIo
  <2>2. QED
    BY <2>1 DEF TimedIo, Return
<1>2. QED
  BY <1>1 DEF IoInv, IoTypeOK, PlacesInv, SleepInv, SentInv, ConnectInv, ConnectSound, Places

(* What write() takes is behind what it took before; when it fails, the     *)
(* pointer goes back over a byte that was written already, or leaves the    *)
(* buffer.                                                                  *)
LEMMA WriteBufSent ==
    ASSUME IoInv, WriteBuf
    PROVE  SentInv' /\ sent' \in Seq(Int) /\ failures' \in Nat /\ buf' \in Int /\ len' \in Int
<1> DEFINE more(c) == IF c = -1 THEN 0 ELSE c
           new(c) == [i \in 1..more(c) |-> buf + i - 1]
<1>1. /\ iopc = "io" /\ call.fn = "write_buf" /\ call' = call /\ result = 0
      /\ call \in Calls /\ call.n \in Nat /\ call.n >= 1
      /\ buf \in Int /\ len \in Int /\ failures \in Nat /\ sent \in Seq(Int)
  BY InCall DEF WriteBuf, IoInv, PlacesInv, IoTypeOK
<1>2. PICK count \in {-1} \cup 1..len :
         /\ failures' = IF count = -1 THEN failures + 1 ELSE failures
         /\ sent' = sent \o new(count)
         /\ buf' = buf + count
         /\ len' = len - count
         /\ WriteAgain(len')
  BY DEF WriteBuf
<1>3. count \in Int /\ more(count) \in Nat /\ more(count) <= count + 1
      /\ (count # -1 => count >= 1 /\ count <= len /\ more(count) = count)
      /\ (count = -1 => more(count) = 0)
  BY <1>1, <1>2
<1> HIDE DEF more
<1>4. new(count) \in Seq(Int) /\ Len(new(count)) = more(count)
      /\ \A i \in 1..more(count) : new(count)[i] = buf + i - 1
  BY <1>1, <1>3
<1> HIDE DEF new
<1>5. /\ sent' \in Seq(Int) /\ Len(sent) \in Nat /\ Len(sent') = Len(sent) + more(count)
      /\ \A i \in 1..Len(sent) : sent'[i] = sent[i]
      /\ \A i \in 1..more(count) : sent'[Len(sent) + i] = buf + i - 1
  <2>1. PICK n : n = new(count)
    OBVIOUS
  <2>2. n \in Seq(Int) /\ sent' = sent \o n /\ sent \in Seq(Int)
    BY <1>1, <1>2, <1>4, <2>1
  <2>3. /\ sent' \in Seq(Int) /\ Len(sent) \in Nat /\ Len(n) \in Nat /\ Len(sent') = Len(sent) + Len(n)
        /\ \A i \in 1..Len(sent) : sent'[i] = sent[i]
        /\ \A i \in 1..Len(n) : sent'[Len(sent) + i] = n[i]
    BY <2>2
  <2>4. QED
    BY <1>4, <2>1, <2>3
<1>6. /\ buf + len = call.n
      /\ Len(sent) = buf + failures
      /\ \A j \in 0..buf-1 : \E i \in 1..Len(sent) : sent[i] = j
      /\ \A i \in 1..Len(sent) : sent[i] < call.n
      /\ failures = 0 => \A i \in 1..Len(sent) : sent[i] = i - 1
  BY <1>1 DEF IoInv, SentInv
<1>7. failures' \in Nat /\ buf' \in Int /\ len' \in Int
      /\ buf' + len' = call.n /\ Len(sent') = buf' + failures'
  <2>1. /\ failures' = IF count = -1 THEN failures + 1 ELSE failures
        /\ buf' = buf + count /\ len' = len - count
    BY <1>2
  <2>2. Len(sent') = Len(sent) + more(count) /\ Len(sent) = buf + failures /\ buf + len = call.n
    BY <1>5, <1>6
  <2>3. failures' \in Nat /\ buf' \in Int /\ len' \in Int /\ buf' + len' = call.n
    BY <1>1, <1>3, <2>1, <2>2
  <2>4. CASE count = -1
    <3>1. failures' = failures + 1 /\ buf' = buf - 1 /\ Len(sent') = Len(sent)
      BY <1>1, <1>3, <1>5, <2>1, <2>2, <2>4
    <3>2. QED
      BY <1>1, <2>2, <2>3, <3>1
  <2>5. CASE count # -1
    <3>1. failures' = failures /\ buf' = buf + count /\ Len(sent') = Len(sent) + count
      BY <1>3, <2>1, <2>2, <2>5
    <3>2. QED
      BY <1>1, <1>3, <2>2, <2>3, <3>1
  <2>6. QED
    BY <2>3, <2>4, <2>5
<1>8. ASSUME NEW i \in 1..Len(sent')
      PROVE  i \in 1..Len(sent) \/ \E k \in 1..more(count) : i = Len(sent) + k
  <2>1. CASE i > Len(sent)
    <3>1. i - Len(sent) \in 1..more(count) /\ i = Len(sent) + (i - Len(sent))
      BY <1>3, <1>5, <2>1
    <3>2. QED
      BY <3>1
  <2>2. QED
    BY <1>5, <2>1
<1>9. ASSUME NEW j \in 0..buf'-1 PROVE \E i \in 1..Len(sent') : sent'[i] = j
  <2>1. CASE j < buf
    <3>1. PICK i \in 1..Len(sent) : sent[i] = j
      BY <1>1, <1>6, <2>1
    <3>2. i \in 1..Len(sent')
      BY <1>3, <1>5
    <3>3. QED
      BY <1>5, <3>1, <3>2
  <2>2. CASE j >= buf
    <3>1. count # -1 /\ j - buf + 1 \in 1..more(count)
      BY <1>1, <1>2, <1>3, <2>2
    <3>2. sent'[Len(sent) + (j - buf + 1)] = buf + (j - buf + 1) - 1
      BY <1>5, <3>1
    <3>3. Len(sent) + (j - buf + 1) \in 1..Len(sent') /\ buf + (j - buf + 1) - 1 = j
      BY <1>1, <1>3, <1>5, <3>1
    <3>4. QED
      BY <3>2, <3>3
  <2>3. QED
    BY <1>1, <2>1, <2>2
<1>10. ASSUME NEW i \in 1..Len(sent')
       PROVE  /\ sent'[i] < call.n
              /\ failures' = 0 => sent'[i] = i - 1
  <2>1. failures' = 0 => failures = 0
    BY <1>1, <1>2
  <2>2. CASE i \in 1..Len(sent)
    BY <1>5, <1>6, <2>1, <2>2
  <2>3. ASSUME NEW k \in 1..more(count), i = Len(sent) + k
        PROVE  /\ sent'[i] < call.n
               /\ failures' = 0 => sent'[i] = i - 1
    <3>1. sent'[i] = buf + k - 1
      BY <1>5, <2>3
    <3>2. count # -1 /\ k <= len /\ k >= 1
      BY <1>1, <1>3
    <3>3. sent'[i] < call.n
      BY <1>1, <1>6, <3>1, <3>2
    <3>4. failures' = 0 => sent'[i] = i - 1
      BY <1>1, <1>6, <2>1, <2>3, <3>1, <3>2
    <3>5. QED
      BY <3>3, <3>4
  <2>4. QED
    BY <1>8, <2>2, <2>3
<1>11. result' > 0 => result' = call.n /\ buf' = call.n
  BY <1>1, <1>2, <1>7 DEF WriteAgain, Return, Continue, Wait
<1>12. QED
  BY <1>1, <1>5, <1>7, <1>9, <1>10, <1>11 DEF SentInv

LEMMA WriteBufIo ==
    ASSUME IoInv, WriteBuf
    PROVE  IoInv'
<1>1. SentInv' /\ sent' \in Seq(Int) /\ failures' \in Nat /\ buf' \in Int /\ len' \in Int
  BY WriteBufSent
<1>2. /\ UNCHANGED <<call, expire, now, signals, delay, sock>>
      /\ iopc = "io" /\ call.fn = "write_buf" /\ call \in Calls /\ expire = call.timeout /\ result = 0
      /\ call.n \in Nat /\ call.timeout \in Nat /\ now \in Nat
  BY InCall DEF WriteBuf, IoInv, PlacesInv, IoTypeOK
<1>3. WriteAgain(len')
  BY DEF WriteBuf
<1>4. \/ iopc' = "returned" /\ result' \in Int /\ left' \in Int /\ waited' = waited
      \/ iopc' = "io" /\ result' = 0 /\ left' = left /\ waited' = waited
      \/ iopc' = "poll" /\ result' = 0 /\ left' = call.timeout - now /\ waited' = 0 /\ left' > 0
  BY <1>2, <1>3 DEF WriteAgain, Return, Continue, Wait, IoInv, IoTypeOK
<1>5. IoTypeOK' /\ PlacesInv'
  <2>1. IoTypeOK'
    <3>1. iopc' \in Places /\ left' \in Int /\ result' \in Int /\ waited' \in Nat
      BY <1>2, <1>4 DEF IoInv, IoTypeOK, Places
    <3>2. /\ call' \in Calls \cup {NoCall} /\ expire' \in Int /\ now' \in Nat
          /\ signals' \in Nat /\ delay' \in Nat /\ sock' \in Sockets
      BY <1>2 DEF IoInv, IoTypeOK
    <3>3. QED
      BY <1>1, <3>1, <3>2 DEF IoTypeOK
  <2>2. PlacesInv'
    BY <1>1, <1>2, <1>4 DEF IoInv, PlacesInv, Places
  <2>3. QED
    BY <2>1, <2>2
<1>6. SleepInv'
  <2> DEFINE bound == call.timeout * (1 + signals)
  <2>1. bound \in Nat /\ call.timeout <= bound /\ bound' = bound
    BY <1>2, InCall
  <2>2. now - delay <= bound /\ delay \in Nat
    BY <1>2 DEF IoInv, IoTypeOK, SleepInv
  <2> HIDE DEF bound
  <2>3. now' - delay' + (IF iopc' = "poll" THEN left' - waited' ELSE 0) <= bound
    BY <1>2, <1>4, <2>1, <2>2
  <2>4. QED
    BY <1>2, <1>4, <2>1, <2>3 DEF SleepInv, bound
<1>7. ConnectInv'
  BY <1>2 DEF ConnectInv
<1>8. QED
  BY <1>1, <1>5, <1>6, <1>7 DEF IoInv

(* The steps of inet_connect() leave the counts alone, so that only the     *)
(* place and the socket are at stake.                                       *)
LEMMA ConnectStep ==
    ASSUME IoInv, call.fn = "inet_connect", iopc \in {"socket", "connect", "getsockopt"},
           UNCHANGED <<call, buf, len, expire, now, sent, failures, signals, delay>>,
           sock' \in Sockets,
           \/ iopc' = "returned" /\ result' \in {-1, 1} /\ UNCHANGED <<left, waited>>
           \/ iopc' = "connect" /\ iopc = "socket" /\ result' = result /\ UNCHANGED <<left, waited>>
           \/ iopc' = "poll" /\ iopc = "connect" /\ result' = result /\ left' = call.timeout /\ waited' = 0
    PROVE  IoTypeOK' /\ PlacesInv' /\ SleepInv' /\ SentInv'
<1>1. call \in Calls /\ call.timeout \in Nat
  BY InCall
<1>2. IoTypeOK' /\ PlacesInv' /\ SentInv'
  BY <1>1 DEF IoInv, IoTypeOK, PlacesInv, SentInv, Places
<1>3. SleepInv'
  <2> DEFINE bound == call.timeout * (1 + signals)
  <2>1. bound \in Nat /\ call.timeout <= bound /\ bound' = bound
    BY InCall
  <2>2. now - delay <= bound /\ now \in Nat /\ delay \in Nat /\ (iopc # "getsockopt" => now = delay)
    BY DEF IoInv, IoTypeOK, SleepInv
  <2> HIDE DEF bound
  <2>3. now' - delay' + (IF iopc' = "poll" THEN left' - waited' ELSE 0) <= bound
    BY <1>1, <2>1, <2>2
  <2>4. QED
    BY <1>1, <2>1, <2>2, <2>3 DEF SleepInv, bound
<1>4. QED
  BY <1>2, <1>3

LEMMA MakeSocketIo ==
    ASSUME IoInv, MakeSocket
    PROVE  IoInv'
<1>1. /\ call.fn = "inet_connect" /\ iopc = "socket" /\ ~sock.open /\ sock \in Sockets
      /\ call.timeout \in Nat /\ call.non_blocking \in BOOLEAN
      /\ UNCHANGED <<call, buf, len, expire, left, waited, now, sent, failures, signals, delay>>
  BY InCall DEF MakeSocket, IoInv, PlacesInv, ConnectInv, IoTypeOK
<1> DEFINE nb == call.timeout > 0 \/ call.non_blocking
<1>2. CASE Return(-1) /\ UNCHANGED sock
  <2>1. IoTypeOK' /\ PlacesInv' /\ SleepInv' /\ SentInv'
    BY <1>1, <1>2, ConnectStep DEF Return
  <2>2. ConnectInv'
    BY <1>1, <1>2 DEF Return, ConnectInv, ConnectSound
  <2>3. QED
    BY <2>1, <2>2 DEF IoInv
<1>3. CASE Continue("connect") /\ sock' = [open |-> TRUE, state |-> "new", non_blocking |-> nb]
  <2>1. nb \in BOOLEAN
    OBVIOUS
  <2>2. sock' \in Sockets /\ sock'.open /\ sock'.non_blocking = nb
    BY <1>3, <2>1 DEF Sockets
  <2>3. IoTypeOK' /\ PlacesInv' /\ SleepInv' /\ SentInv'
    BY <1>1, <1>3, <2>2, ConnectStep DEF Continue
  <2>4. ConnectInv'
    BY <1>1, <1>3, <2>2 DEF Continue, ConnectInv, ConnectSound
  <2>5. QED
    BY <2>3, <2>4 DEF IoInv
<1>4. QED
  BY <1>2, <1>3 DEF MakeSocket

(* The two ends of a connection that has been decided.                      *)
LEMMA ConnectEnds ==
    ASSUME IoInv, call.fn = "inet_connect", iopc \in {"connect", "getsockopt"},
           UNCHANGED <<call, buf, len, expire, left, waited, now, sent, failures, signals, delay>>,
           ConnectSucceeds("connected") \/ ConnectFails
    PROVE  IoInv'
<1>1. sock \in Sockets /\ sock.open /\ call.non_blocking \in BOOLEAN
  BY InCall DEF IoInv, IoTypeOK, ConnectInv
<1>2. CASE ConnectSucceeds("connected")
  <2>1. /\ sock' \in Sockets /\ sock'.open /\ sock'.state = "connected"
        /\ sock'.non_blocking = call.non_blocking
        /\ iopc' = "returned" /\ result' = 1
    BY <1>1, <1>2 DEF ConnectSucceeds, Return, Sockets
  <2>2. IoTypeOK' /\ PlacesInv' /\ SleepInv' /\ SentInv'
    BY <2>1, ConnectStep
  <2>3. ConnectInv'
    BY <2>1 DEF ConnectInv, ConnectSound
  <2>4. QED
    BY <2>2, <2>3 DEF IoInv
<1>3. CASE ConnectFails
  <2>1. sock' \in Sockets /\ ~sock'.open /\ iopc' = "returned" /\ result' = -1
    BY <1>1, <1>3 DEF ConnectFails, Return, Sockets
  <2>2. IoTypeOK' /\ PlacesInv' /\ SleepInv' /\ SentInv'
    BY <2>1, ConnectStep
  <2>3. ConnectInv'
    BY <2>1 DEF ConnectInv, ConnectSound
  <2>4. QED
    BY <2>2, <2>3 DEF IoInv
<1>4. QED
  BY <1>2, <1>3

LEMMA sane_connectIo ==
    ASSUME IoInv, sane_connect
    PROVE  IoInv'
<1>1. /\ iopc = "connect" /\ call.fn = "inet_connect" /\ result = 0
      /\ sock \in Sockets /\ sock.open /\ sock.non_blocking = (call.timeout > 0 \/ call.non_blocking)
      /\ call.timeout \in Nat /\ call.non_blocking \in BOOLEAN
      /\ UNCHANGED <<call, buf, len, expire, now, sent, failures, signals, delay>>
  BY InCall DEF sane_connect, IoInv, PlacesInv, IoTypeOK, ConnectInv
<1>2. CASE (ConnectSucceeds("connected") \/ ConnectFails) /\ UNCHANGED <<left, waited>>
  BY <1>1, <1>2, ConnectEnds
<1>3. CASE /\ sock.non_blocking
           /\ sock' = [sock EXCEPT !.state = "connecting"]
           /\ IF call.timeout > 0 THEN Wait(call.timeout) ELSE Return(1) /\ UNCHANGED <<left, waited>>
  <2>1. sock' \in Sockets /\ sock'.open /\ sock'.state = "connecting"
        /\ sock'.non_blocking = sock.non_blocking
    BY <1>1, <1>3 DEF Sockets
  <2>2. CASE call.timeout > 0
    <3>1. iopc' = "poll" /\ result' = result /\ left' = call.timeout /\ waited' = 0
      BY <1>3, <2>2 DEF Wait, Continue
    <3>2. IoTypeOK' /\ PlacesInv' /\ SleepInv' /\ SentInv'
      BY <1>1, <2>1, <3>1, ConnectStep
    <3>3. ConnectInv'
      BY <1>1, <2>1, <2>2, <3>1 DEF ConnectInv, ConnectSound
    <3>4. QED
      BY <3>2, <3>3 DEF IoInv
  <2>3. CASE ~(call.timeout > 0)
    <3>1. iopc' = "returned" /\ result' = 1 /\ UNCHANGED <<left, waited>>
      BY <1>3, <2>3 DEF Return
    <3>2. IoTypeOK' /\ PlacesInv' /\ SleepInv' /\ SentInv'
      BY <1>1, <2>1, <3>1, ConnectStep
    <3>3. call.timeout = 0 /\ call.non_blocking = TRUE /\ sock'.non_blocking = TRUE
      BY <1>1, <1>3, <2>1, <2>3
    <3>4. ConnectInv'
      BY <1>1, <2>1, <3>1, <3>3 DEF ConnectInv, ConnectSound
    <3>5. QED
      BY <3>2, <3>4 DEF IoInv
  <2>4. QED
    BY <2>2, <2>3
<1>4. QED
  BY <1>2, <1>3 DEF sane_connect

LEMMA timed_connectIo ==
    ASSUME IoInv, timed_connect
    PROVE  IoInv'
<1>1. /\ iopc = "getsockopt" /\ call.fn = "inet_connect" /\ sock.state \in {"connected", "failed"}
      /\ UNCHANGED <<call, buf, len, expire, left, waited, now, sent, failures, signals, delay>>
  BY DEF timed_connect, IoInv, PlacesInv, ConnectInv
<1>2. ConnectSucceeds("connected") \/ ConnectFails
  BY <1>1 DEF timed_connect
<1>3. QED
  BY <1>1, <1>2, ConnectEnds

(* The peer decides only what is still undecided.                           *)
LEMMA PeerAnswersIo ==
    ASSUME IoInv, PeerAnswers
    PROVE  IoInv'
<1>1. /\ UNCHANGED <<call, iopc, buf, len, expire, left, waited, now, sent, failures, signals, delay, result>>
      /\ sock.state = "connecting"
  BY DEF PeerAnswers
<1>2. PICK state \in {"connected", "failed"} : sock' = [sock EXCEPT !.state = state]
  BY DEF PeerAnswers
<1>3. /\ sock' \in Sockets /\ sock'.open = sock.open /\ sock'.non_blocking = sock.non_blocking
      /\ sock'.state = state
  BY <1>2 DEF IoInv, IoTypeOK, Sockets
<1>4. sock # NoSocket
  BY <1>1 DEF NoSocket
<1>5. IoTypeOK' /\ PlacesInv' /\ SleepInv' /\ SentInv'
  BY <1>1, <1>3, <1>4 DEF IoInv, IoTypeOK, PlacesInv, SleepInv, SentInv
<1>6. ConnectInv'
  BY <1>1, <1>3 DEF IoInv, ConnectInv, ConnectSound
<1>7. QED
  BY <1>5, <1>6 DEF IoInv
-----------------------------------------------------------------------------
THEOREM IoInvariance == IostuffSpec => []IoInv
<1>1. IoInv /\ [IostuffNext]_ioVars => IoInv'
  <2> SUFFICES ASSUME IoInv, [IostuffNext]_ioVars PROVE IoInv'
    OBVIOUS
  <2>1. CASE UNCHANGED ioVars
    BY <2>1 DEF ioVars, IoInv, IoTypeOK, PlacesInv, SleepInv, SentInv, ConnectInv, ConnectSound
  <2>2. QED
    BY <2>1, CallBeginsIo, CallEndsIo, ClockTicksIo, PollReadyIo, PollInterruptedIo, PollTimesOutIo,
       WriteBufIo, TimedIoIo, MakeSocketIo, sane_connectIo, PeerAnswersIo, timed_connectIo DEF IostuffNext
<1>2. QED
  BY <1>1, InitIo, PTL DEF IostuffSpec

(* A call with a time-out returns in time, but for delays that are not      *)
(* poll()'s and one more time-out for every signal (write_wait, read_wait,  *)
(* write_buf, timed_connect).                                               *)
THEOREM CallsReturnInTime == IostuffSpec => []ReturnsInTime
<1>1. IoInv => ReturnsInTime
  <2> SUFFICES ASSUME IoInv PROVE now <= call.timeout * (1 + signals) + delay
    BY DEF ReturnsInTime
  <2> DEFINE bound == call.timeout * (1 + signals)
  <2>1. now - delay <= bound /\ bound \in Int /\ now \in Nat /\ delay \in Nat
    <3>1. CASE iopc = "idle"
      BY <3>1 DEF IoInv, PlacesInv, IoTypeOK, NoCall
    <3>2. CASE iopc # "idle"
      BY <3>2, InCall DEF IoInv, SleepInv, IoTypeOK
    <3>3. QED
      BY <3>1, <3>2
  <2> HIDE DEF bound
  <2>2. now <= bound + delay
    BY <2>1
  <2>3. QED
    BY <2>2 DEF bound
<1>2. QED
  BY <1>1, IoInvariance, PTL

(* write_buf() that reports success has written every byte of its buffer,   *)
(* in order when no write() failed (write_buf).                             *)
THEOREM BuffersAreWritten == IostuffSpec => []BufferWritten
<1>1. IoInv => BufferWritten
  <2> SUFFICES ASSUME IoInv, call.fn = "write_buf"
               PROVE  /\ failures = 0 => sent = [i \in 1..buf |-> i - 1]
                      /\ result > 0 => /\ result = call.n
                                       /\ 0..call.n - 1 \subseteq ToSet(sent)
                                       /\ Len(sent) = call.n + failures
                      /\ \A i \in 1..Len(sent) : sent[i] < call.n
    BY DEF BufferWritten
  <2>1. SentInv /\ sent \in Seq(Int) /\ buf \in Int /\ failures \in Nat
    BY DEF IoInv, IoTypeOK
  <2>2. ASSUME failures = 0 PROVE sent = [i \in 1..buf |-> i - 1]
    <3>1. Len(sent) = buf /\ \A i \in 1..Len(sent) : sent[i] = i - 1
      BY <2>1, <2>2 DEF SentInv
    <3>2. QED
      BY <2>1, <3>1
  <2>3. ASSUME result > 0
        PROVE  result = call.n /\ 0..call.n - 1 \subseteq ToSet(sent) /\ Len(sent) = call.n + failures
    <3>1. /\ result = call.n /\ Len(sent) = call.n + failures
          /\ \A j \in 0..call.n-1 : \E i \in 1..Len(sent) : sent[i] = j
      BY <2>1, <2>3 DEF SentInv
    <3>2. DOMAIN sent = 1..Len(sent)
      BY <2>1
    <3>3. 0..call.n - 1 \subseteq ToSet(sent)
      BY <3>1, <3>2 DEF ToSet
    <3>4. QED
      BY <3>1, <3>3
  <2>4. QED
    BY <2>1, <2>2, <2>3 DEF SentInv
<1>2. QED
  BY <1>1, IoInvariance, PTL

(* inet_connect() returns a socket that is connected, or connecting as was  *)
(* asked for, and leaves none open when it fails (sane_connect,             *)
(* timed_connect).                                                          *)
THEOREM ConnectionsAreSound == IostuffSpec => []ConnectSound
<1>1. IoInv => ConnectSound
  BY DEF IoInv, ConnectInv, ConnectSound
<1>2. QED
  BY <1>1, IoInvariance, PTL
=============================================================================
