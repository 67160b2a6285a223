----------------------------- MODULE DataLemmas -----------------------------
(***************************************************************************)
(* Lemmas about the operators that the models share: least and greatest    *)
(* numbers, removal from sequences and insertion into them.                *)
(*                                                                         *)
(* Induction is by sets: of the numbers for which a claim fails, one is    *)
(* the least.                                                              *)
(***************************************************************************)
EXTENDS Integers, Sequences, SequencesExt,
        FiniteSetTheorems, SequenceTheorems, WellFoundedInduction, TLAPS

LEMMA LessThanWellFounded ==
    \E R : IsWellFoundedOn(R, Nat) /\ \A x, y \in Nat : <<y, x>> \in R <=> y < x
<1>1. \A x, y \in Nat : <<y, x>> \in OpToRel(<, Nat) <=> y < x
  BY DEF OpToRel
<1>2. QED
  BY <1>1, NatLessThanWellFounded, Zenon

LEMMA LeastNumber ==
    ASSUME NEW T \in SUBSET Nat, T # {}
    PROVE  \E n \in T : \A m \in T : n <= m
<1>1. PICK R : IsWellFoundedOn(R, Nat) /\ \A x, y \in Nat : <<y, x>> \in R <=> y < x
  BY LessThanWellFounded
<1>2. PICK x \in T : \A y \in T : ~ (<<y, x>> \in R)
  BY <1>1, WFMin
<1>3. \A y \in T : ~ (y < x)
  BY <1>1, <1>2
<1>4. QED
  BY <1>3

LEMMA MinLemma ==
    ASSUME NEW T \in SUBSET Nat, T # {}
    PROVE  Min(T) \in T /\ \A m \in T : Min(T) <= m
BY LeastNumber DEF Min

LEMMA SetInduction ==
    ASSUME NEW T, 0 \in T, \A n \in Nat : n \in T => n + 1 \in T
    PROVE  Nat \subseteq T
<1> SUFFICES ASSUME Nat \ T # {} PROVE FALSE
  OBVIOUS
<1>1. PICK n \in Nat \ T : \A m \in Nat \ T : n <= m
  BY LeastNumber
<1>2. n # 0 /\ n - 1 \in Nat
  BY <1>1
<1>3. n - 1 \in T
  BY <1>1, <1>2
<1>4. QED
  BY <1>1, <1>2, <1>3

(* A function defined by recursion from m to n exists: every number has the *)
(* value of its predecessor to start from.                                  *)
Recursive(f, m, n, V, init, step) ==
    /\ f \in [m..n -> V]
    /\ f[m] = init
    /\ \A j \in m..n : j # m => f[j] = step[j][f[j - 1]]

LEMMA RecursionLemma ==
    ASSUME NEW m \in Int, NEW n \in Int, m <= n, NEW V, NEW init \in V,
           NEW step, \A j \in m..n : \A x \in V : step[j][x] \in V
    PROVE  \E f : Recursive(f, m, n, V, init, step)
<1> DEFINE Upto(f, k) == f[m] = init /\ \A j \in m..m+k : j # m => f[j] = step[j][f[j - 1]]
           T == {k \in Nat : m + k <= n => \E f \in [m..m+k -> V] : Upto(f, k)}
<1>1. 0 \in T
  <2>1. [j \in m..m |-> init] \in [m..m+0 -> V] /\ Upto([j \in m..m |-> init], 0)
    OBVIOUS
  <2>2. QED
    BY <2>1
<1>2. ASSUME NEW k \in Nat, k \in T PROVE k + 1 \in T
  <2> SUFFICES ASSUME m + (k + 1) <= n
               PROVE  \E f \in [m..m+(k+1) -> V] : Upto(f, k + 1)
    OBVIOUS
  <2>1. PICK f \in [m..m+k -> V] : Upto(f, k)
    BY <1>2
  <2> DEFINE e == m + (k + 1)
             h == [j \in m..e |-> IF j = e THEN step[e][f[e - 1]] ELSE f[j]]
  <2>2. e \in m..n /\ e # m /\ e - 1 \in m..m+k /\ e \in Int
    BY <1>2
  <2>3. f[e - 1] \in V
    BY <2>2
  <2>4. step[e][f[e - 1]] \in V
    BY <2>2, <2>3
  <2>5. \A j \in m..e : j # e => j \in m..m+k
    BY <1>2
  <2> HIDE DEF e
  <2>6. h \in [m..e -> V]
    BY <2>4, <2>5
  <2>7. h[m] = init
    BY <2>1, <2>2
  <2>8. ASSUME NEW j \in m..e, j # m PROVE h[j] = step[j][h[j - 1]]
    <3>1. j \in m..e /\ j - 1 \in m..e /\ j - 1 # e
      BY <2>2, <2>8
    <3>2. h[j - 1] = f[j - 1]
      BY <3>1
    <3>3. CASE j = e
      BY <3>1, <3>2, <3>3
    <3>4. CASE j # e
      <4>1. j \in m..m+k
        BY <2>5, <3>1, <3>4
      <4>2. f[j] = step[j][f[j - 1]]
        BY <2>1, <2>8, <4>1
      <4>3. QED
        BY <3>1, <3>2, <3>4, <4>2
    <3>5. QED
      BY <3>3, <3>4
  <2> HIDE DEF h
  <2>9. QED
    BY <2>6, <2>7, <2>8 DEF e
<1>3. Nat \subseteq T
  <2> HIDE DEF T
  <2>1. QED
    BY <1>1, <1>2, SetInduction
<1>4. n - m \in Nat /\ m + (n - m) = n
  OBVIOUS
<1>5. PICK k \in Nat : m + k = n /\ k \in T
  BY <1>3, <1>4
<1>6. PICK f \in [m..m+k -> V] : Upto(f, k)
  BY <1>5
<1>7. QED
  BY <1>5, <1>6 DEF Recursive

(* A finite set of numbers has a greatest.                                  *)
LEMMA MaxLemma ==
    ASSUME NEW S \in SUBSET Nat, IsFiniteSet(S), S # {}
    PROVE  Max(S) \in S /\ \A m \in S : m <= Max(S)
<1> DEFINE Bounded(U) == \E x \in Nat : \A m \in U : m <= x
           T == {n \in Nat : \A U \in SUBSET Nat : IsFiniteSet(U) /\ Cardinality(U) = n => Bounded(U)}
<1>1. 0 \in T
  BY FS_EmptySet
<1>2. ASSUME NEW n \in Nat, n \in T PROVE n + 1 \in T
  <2> SUFFICES ASSUME NEW U \in SUBSET Nat, IsFiniteSet(U), Cardinality(U) = n + 1 PROVE Bounded(U)
    OBVIOUS
  <2>1. PICK u : u \in U
    <3>1. U # {}
      BY FS_EmptySet
    <3>2. QED
      BY <3>1
  <2>2. IsFiniteSet(U \ {u}) /\ Cardinality(U \ {u}) = n
    <3>1. IsFiniteSet(U \ {u}) /\ Cardinality(U \ {u}) = Cardinality(U) - 1
      BY <2>1, FS_RemoveElement
    <3>2. QED
      BY <3>1
  <2>3. PICK x \in Nat : \A m \in U \ {u} : m <= x
    BY <1>2, <2>2
  <2>4. \A m \in U : m <= x + u
    BY <2>1, <2>3
  <2>5. x + u \in Nat
    BY <2>1
  <2>6. QED
    BY <2>4, <2>5
<1>3. Nat \subseteq T
  <2> HIDE DEF T
  <2>1. QED
    BY <1>1, <1>2, SetInduction
<1>4. Bounded(S)
  BY <1>3, FS_CardinalityType
<1> DEFINE bounds == {x \in Nat : \A m \in S : m <= x}
<1>5. PICK x \in bounds : \A y \in bounds : x <= y
  BY <1>4, LeastNumber
<1>6. x \in S
  <2> SUFFICES ASSUME x \notin S PROVE FALSE
    OBVIOUS
  <2>1. \A m \in S : m <= x - 1
    BY <1>5
  <2>2. PICK m : m \in S
    OBVIOUS
  <2>3. x - 1 \in Nat
    BY <1>5, <2>1, <2>2
  <2>4. x - 1 \in bounds
    BY <2>1, <2>3
  <2>5. QED
    BY <1>5, <2>4
<1>7. \E y \in S : \A m \in S : y >= m
  BY <1>5, <1>6
<1>8. QED
  BY <1>7 DEF Max
-----------------------------------------------------------------------------
LEMMA SubSeqLemma ==
    ASSUME NEW E, NEW q \in Seq(E), NEW k \in 1..Len(q)
    PROVE  SubSeq(q, k, Len(q)) = <<q[k]>> \o SubSeq(q, k + 1, Len(q))
<1> DEFINE a == SubSeq(q, k, Len(q))
           b == SubSeq(q, k + 1, Len(q))
<1>1. Len(q) \in Nat /\ k \in Nat /\ q[k] \in E
  BY LenProperties, ElementOfSeq
<1>2. a \in Seq(E) /\ Len(a) = Len(q) - k + 1 /\ \A i \in 1..Len(q)-k+1 : a[i] = q[k + i - 1]
  BY <1>1, SubSeqProperties
<1>3. b \in Seq(E) /\ Len(b) = Len(q) - k /\ \A i \in 1..Len(q)-k : b[i] = q[k + i]
  BY <1>1, SubSeqProperties
<1>4. <<q[k]>> \in Seq(E) /\ Len(<<q[k]>>) = 1 /\ <<q[k]>>[1] = q[k]
  BY <1>1
<1> DEFINE h == <<q[k]>>
<1> HIDE DEF a, b, h
<1>5. /\ h \o b \in Seq(E)
      /\ Len(h \o b) = Len(h) + Len(b)
      /\ \A i \in 1..Len(h)+Len(b) : (h \o b)[i] = IF i <= Len(h) THEN h[i] ELSE b[i - Len(h)]
  BY <1>3, <1>4, ConcatProperties DEF h
<1>6. Len(h) = 1 /\ h[1] = q[k]
  BY <1>4 DEF h
<1>7. Len(h \o b) = Len(a)
  BY <1>1, <1>2, <1>3, <1>5, <1>6
<1>8. ASSUME NEW i \in 1..Len(a)
      PROVE  a[i] = (h \o b)[i]
  <2>1. CASE i = 1
    BY <1>1, <1>2, <1>3, <1>5, <1>6, <2>1
  <2>2. CASE i > 1
    <3>1. i - 1 \in 1..Len(q)-k /\ k + i - 1 = k + (i - 1)
      BY <1>1, <1>2, <2>2
    <3>2. a[i] = q[k + (i - 1)] /\ b[i - 1] = q[k + (i - 1)]
      BY <1>1, <1>2, <1>3, <3>1
    <3>3. (h \o b)[i] = b[i - 1]
      BY <1>1, <1>2, <1>3, <1>5, <1>6, <2>2
    <3>4. QED
      BY <3>2, <3>3
  <2>3. i = 1 \/ i > 1
    BY <1>1, <1>2
  <2>4. QED
    BY <2>1, <2>2, <2>3
<1>9. a = h \o b
  BY <1>2, <1>5, <1>7, <1>8, SeqEqual
<1>10. QED
  BY <1>9 DEF a, b, h

LEMMA RemoveAtLemma ==
    ASSUME NEW E, NEW q \in Seq(E), NEW k \in 1..Len(q)
    PROVE  /\ RemoveAt(q, k) \in Seq(E)
           /\ Len(q) \in Nat /\ Len(RemoveAt(q, k)) = Len(q) - 1
           /\ \A i \in 1..Len(q)-1 : RemoveAt(q, k)[i] = IF i < k THEN q[i] ELSE q[i + 1]
<1> DEFINE a == SubSeq(q, 1, k - 1)
           b == SubSeq(q, k + 1, Len(q))
<1>1. Len(q) \in Nat /\ k \in Nat
  BY LenProperties
<1>2. a \in Seq(E) /\ Len(a) = k - 1 /\ \A i \in 1..k-1 : a[i] = q[i]
  BY <1>1, SubSeqProperties
<1>3. b \in Seq(E) /\ Len(b) = Len(q) - k /\ \A i \in 1..Len(q)-k : b[i] = q[k + i]
  BY <1>1, SubSeqProperties
<1>4. RemoveAt(q, k) = a \o b
  BY DEF RemoveAt
<1> HIDE DEF a, b
<1>5. /\ a \o b \in Seq(E)
      /\ Len(a \o b) = Len(a) + Len(b)
      /\ \A i \in 1..Len(a)+Len(b) : (a \o b)[i] = IF i <= Len(a) THEN a[i] ELSE b[i - Len(a)]
  BY <1>2, <1>3, ConcatProperties
<1>6. ASSUME NEW i \in 1..Len(q)-1
      PROVE  (a \o b)[i] = IF i < k THEN q[i] ELSE q[i + 1]
  <2>1. CASE i < k
    BY <1>1, <1>2, <1>3, <1>5, <2>1
  <2>2. CASE i >= k
    <3>1. (a \o b)[i] = b[i - (k - 1)] /\ i - (k - 1) \in 1..Len(q)-k
      BY <1>1, <1>2, <1>3, <1>5, <2>2
    <3>2. k + (i - (k - 1)) = i + 1
      BY <1>1
    <3>3. QED
      BY <1>1, <1>3, <2>2, <3>1, <3>2
  <2>3. i < k \/ i >= k
    BY <1>1
  <2>4. QED
    BY <2>1, <2>2, <2>3
<1>7. QED
  BY <1>1, <1>2, <1>3, <1>4, <1>5, <1>6

LEMMA InsertAtLemma ==
    ASSUME NEW E, NEW q \in Seq(E), NEW k \in 1..Len(q)+1, NEW e \in E
    PROVE  /\ InsertAt(q, k, e) \in Seq(E)
           /\ Len(q) \in Nat /\ Len(InsertAt(q, k, e)) = Len(q) + 1
           /\ \A i \in 1..Len(q)+1 : InsertAt(q, k, e)[i] =
                 IF i < k THEN q[i] ELSE IF i = k THEN e ELSE q[i - 1]
<1> DEFINE a == SubSeq(q, 1, k - 1)
           b == SubSeq(q, k, Len(q))
           c == a \o <<e>>
<1>1. Len(q) \in Nat /\ k \in Nat
  BY LenProperties
<1>2. a \in Seq(E) /\ Len(a) = k - 1 /\ \A i \in 1..k-1 : a[i] = q[i]
  BY <1>1, SubSeqProperties
<1>3. b \in Seq(E) /\ Len(b) = Len(q) - k + 1 /\ \A i \in 1..Len(q)-k+1 : b[i] = q[k + i - 1]
  BY <1>1, SubSeqProperties
<1>4. InsertAt(q, k, e) = c \o b
  BY DEF InsertAt
<1> HIDE DEF a, b
<1>5. c \in Seq(E) /\ Len(c) = k /\ (\A i \in 1..k-1 : c[i] = q[i]) /\ c[k] = e
  <2>1. <<e>> \in Seq(E) /\ Len(<<e>>) = 1 /\ <<e>>[1] = e
    OBVIOUS
  <2>2. /\ c \in Seq(E)
        /\ Len(c) = Len(a) + 1
        /\ \A i \in 1..Len(a)+1 : c[i] = IF i <= Len(a) THEN a[i] ELSE <<e>>[i - Len(a)]
    BY <1>2, <2>1, ConcatProperties
  <2>3. c[k] = <<e>>[k - (k - 1)] /\ k - (k - 1) = 1
    BY <1>1, <1>2, <2>2
  <2>4. QED
    BY <1>1, <1>2, <2>1, <2>2, <2>3
<1> HIDE DEF c
<1>6. /\ c \o b \in Seq(E)
      /\ Len(c \o b) = Len(c) + Len(b)
      /\ \A i \in 1..Len(c)+Len(b) : (c \o b)[i] = IF i <= Len(c) THEN c[i] ELSE b[i - Len(c)]
  BY <1>3, <1>5, ConcatProperties
<1>7. ASSUME NEW i \in 1..Len(q)+1
      PROVE  (c \o b)[i] = IF i < k THEN q[i] ELSE IF i = k THEN e ELSE q[i - 1]
  <2>1. CASE i <= k
    <3>1. i \in 1..Len(c)+Len(b) /\ i <= Len(c)
      BY <1>1, <1>3, <1>5, <2>1
    <3>2. (c \o b)[i] = c[i]
      BY <1>6, <3>1
    <3>3. c[i] = IF i < k THEN q[i] ELSE e
      BY <1>1, <1>5, <2>1
    <3>4. QED
      BY <1>1, <2>1, <3>2, <3>3
  <2>2. CASE i > k
    <3>1. (c \o b)[i] = b[i - k] /\ i - k \in 1..Len(q)-k+1
      BY <1>1, <1>3, <1>5, <1>6, <2>2
    <3>2. k + (i - k) - 1 = i - 1
      BY <1>1
    <3>3. QED
      BY <1>1, <1>3, <2>2, <3>1, <3>2
  <2>3. i <= k \/ i > k
    BY <1>1
  <2>4. QED
    BY <2>1, <2>2, <2>3
<1>8. QED
  BY <1>1, <1>3, <1>4, <1>5, <1>6, <1>7

(* The first k elements of e and d are the same; s is in e behind the first *)
(* k elements.                                                              *)
Agree(e, d, k) == \A i \in 1..k : e[i] = d[i]
Placed(e, k, s) == \A i \in 1..Len(s) : e[k + i] = s[i]

(* Elements p + 1 to q = p + Len(s) of d are replaced by those of s.        *)
Spliced(d, s, p, q) == SubSeq(d, 1, p) \o s \o SubSeq(d, q + 1, Len(d))

LEMMA SpliceLemma ==
    ASSUME NEW E, NEW d \in Seq(E), NEW s \in Seq(E), NEW p \in Nat, NEW q \in Nat, NEW n \in Nat,
           q = p + Len(s), n = Len(d), q <= n
    PROVE  /\ Spliced(d, s, p, q) \in Seq(E) /\ Len(Spliced(d, s, p, q)) = n
           /\ Agree(Spliced(d, s, p, q), d, p) /\ Placed(Spliced(d, s, p, q), p, s)
<1> DEFINE a == SubSeq(d, 1, p)
           b == SubSeq(d, q + 1, n)
           c == a \o s
<1>1. Len(s) \in Nat /\ p <= q /\ Len(s) = q - p /\ \A i \in 1..n : d[i] \in E
  BY LenProperties, ElementOfSeq
<1>2. a \in Seq(E) /\ Len(a) = p /\ \A i \in 1..p : a[i] = d[i]
  <2>1. \A i \in 1..p : d[i] \in E
    BY <1>1
  <2>2. QED
    BY <2>1, SubSeqProperties
<1>3. b \in Seq(E) /\ Len(b) = n - q /\ \A i \in 1..n-q : b[i] = d[q + i]
  <2>1. \A i \in q+1..n : d[i] \in E
    BY <1>1
  <2>2. QED
    BY <2>1, SubSeqProperties
<1> HIDE DEF a, b
<1>4. /\ c \in Seq(E) /\ Len(c) = Len(a) + Len(s)
      /\ \A i \in 1..Len(a)+Len(s) : c[i] = IF i <= Len(a) THEN a[i] ELSE s[i - Len(a)]
  BY <1>2, ConcatProperties
<1> HIDE DEF c
<1>5. /\ Len(c) = q
      /\ \A i \in 1..q : c[i] = IF i <= p THEN a[i] ELSE s[i - p]
  BY <1>1, <1>2, <1>4
<1>6. /\ c \o b \in Seq(E) /\ Len(c \o b) = Len(c) + Len(b)
      /\ \A i \in 1..Len(c)+Len(b) : (c \o b)[i] = IF i <= Len(c) THEN c[i] ELSE b[i - Len(c)]
  <2>1. c \in Seq(E) /\ b \in Seq(E)
    BY <1>3, <1>4
  <2>2. QED
    BY <2>1, ConcatProperties
<1>7. /\ Len(c \o b) = n
      /\ \A i \in 1..n : (c \o b)[i] = IF i <= q THEN c[i] ELSE b[i - q]
  <2>1. Len(c) = q /\ Len(c) + Len(b) = n
    BY <1>3, <1>5
  <2>2. QED
    BY <1>6, <2>1
<1>8. ASSUME NEW i \in 1..p PROVE (c \o b)[i] = d[i]
  <2>1. i \in 1..n /\ i \in 1..q /\ i <= q /\ i <= p
    BY <1>1
  <2>2. QED
    BY <1>2, <1>5, <1>7, <2>1
<1>9. ASSUME NEW i \in 1..Len(s) PROVE (c \o b)[p + i] = s[i]
  <2>1. p + i \in 1..n /\ p + i \in 1..q /\ p + i <= q /\ ~ (p + i <= p) /\ p + i - p = i
    BY <1>1
  <2>2. (c \o b)[p + i] = c[p + i] /\ c[p + i] = s[p + i - p]
    BY <1>5, <1>7, <2>1
  <2>3. QED
    BY <2>1, <2>2
<1>10. QED
  BY <1>6, <1>7, <1>8, <1>9 DEF a, b, c, Spliced, Agree, Placed

(* The first occurrence is the only one in a sequence without repetitions.  *)
LEMMA RemoveFirstLemma ==
    ASSUME NEW E, NEW s \in Seq(E), NEW t
    PROVE  /\ (\A i \in 1..Len(s) : s[i] # t) => RemoveFirst(s, t) = s
           /\ \A k \in 1..Len(s) :
                 s[k] = t /\ (\A i \in 1..Len(s) : s[i] = t => i = k)
                     => RemoveFirst(s, t) = RemoveAt(s, k)
<1> DEFINE I == {i \in 1..Len(s) : s[i] = t}
<1>1. RemoveFirst(s, t) = IF \E i \in 1..Len(s) : s[i] = t
                          THEN RemoveAt(s, IF I # {} THEN Min(I) ELSE 0) ELSE s
  BY DEF RemoveFirst, SelectInSeq
<1>2. ASSUME NEW k \in 1..Len(s), s[k] = t, \A i \in 1..Len(s) : s[i] = t => i = k
      PROVE  RemoveFirst(s, t) = RemoveAt(s, k)
  <2>1. I \in SUBSET Nat /\ I # {}
    BY <1>2
  <2>2. Min(I) = k
    BY <1>2, <2>1, MinLemma
  <2>3. QED
    BY <1>1, <1>2, <2>1, <2>2
<1>3. QED
  BY <1>1, <1>2
-----------------------------------------------------------------------------
(* An element in front of a sequence.                                       *)
LEMMA ConsLemma ==
    ASSUME NEW E, NEW s \in Seq(E), NEW e \in E
    PROVE  /\ <<e>> \o s \in Seq(E) /\ Len(s) \in Nat /\ Len(<<e>> \o s) = Len(s) + 1
           /\ (<<e>> \o s)[1] = e
           /\ \A j \in 1..Len(s) : (<<e>> \o s)[j + 1] = s[j]
           /\ \A j \in 2..Len(s)+1 : (<<e>> \o s)[j] = s[j - 1]
<1> DEFINE h == <<e>>
<1>1. h \in Seq(E) /\ Len(h) = 1 /\ h[1] = e
  OBVIOUS
<1>2. Len(s) \in Nat
  BY LenProperties
<1> HIDE DEF h
<1>3. /\ h \o s \in Seq(E) /\ Len(h \o s) = Len(h) + Len(s)
      /\ \A i \in 1..Len(h)+Len(s) : (h \o s)[i] = IF i <= Len(h) THEN h[i] ELSE s[i - Len(h)]
  BY <1>1, ConcatProperties
<1> DEFINE q == h \o s
<1> HIDE DEF q
<1>4. q \in Seq(E) /\ Len(q) = Len(s) + 1 /\ \A i \in 1..Len(s)+1 : q[i] = IF i <= 1 THEN h[i] ELSE s[i - 1]
  <2>1. /\ q \in Seq(E) /\ Len(q) = Len(h) + Len(s)
        /\ \A i \in 1..Len(h)+Len(s) : q[i] = IF i <= Len(h) THEN h[i] ELSE s[i - Len(h)]
    BY <1>3 DEF q
  <2>2. QED
    BY <1>1, <1>2, <2>1
<1>5. ASSUME NEW j \in 1..Len(s) PROVE q[j + 1] = s[j]
  <2>1. j + 1 \in 1..Len(s)+1 /\ ~ (j + 1 <= 1) /\ j + 1 - 1 = j
    BY <1>2
  <2>2. QED
    BY <1>4, <2>1
<1>6. ASSUME NEW j \in 2..Len(s)+1 PROVE q[j] = s[j - 1]
  <2>1. j \in 1..Len(s)+1 /\ ~ (j <= 1)
    BY <1>2
  <2>2. QED
    BY <1>4, <2>1
<1>7. q[1] = e
  <2>1. 1 \in 1..Len(s)+1
    BY <1>2
  <2>2. QED
    BY <1>1, <1>4, <2>1
<1>8. QED
  BY <1>2, <1>4, <1>5, <1>6, <1>7 DEF h, q

(* Sequences that are joined one after the other.                           *)
\* flat[j] joins the first j of the n sequences cs.
Flattens(flat, E, n, cs) ==
    /\ flat \in [1..n -> Seq(E)]
    /\ flat[1] = cs[1]
    /\ \A j \in 2..n : flat[j] = flat[j - 1] \o cs[j]
    /\ FlattenSeq(cs) = flat[n]

LEMMA FlattenLemma ==
    ASSUME NEW E, NEW n \in Nat \ {0}, NEW cs \in [1..n -> Seq(E)]
    PROVE  \E flat : Flattens(flat, E, n, cs)
<1> DEFINE Body(g) == g = [j \in 1..n |-> IF j = 1 THEN cs[j] ELSE g[j - 1] \o cs[j]]
           step == [j \in 1..n |-> [x \in Seq(E) |-> x \o cs[j]]]
           flat == CHOOSE g : Body(g)
<1>1. \A j \in 1..n : \A x \in Seq(E) : step[j][x] = x \o cs[j] /\ step[j][x] \in Seq(E)
  <2> SUFFICES ASSUME NEW j \in 1..n, NEW x \in Seq(E) PROVE x \o cs[j] \in Seq(E)
    OBVIOUS
  <2>1. cs[j] \in Seq(E)
    OBVIOUS
  <2>2. QED
    BY <2>1, ConcatProperties
<1> HIDE DEF step
<1>2. cs[1] \in Seq(E) /\ 1 \in 1..n /\ 1 \in Int /\ n \in Int /\ 1 <= n
  OBVIOUS
<1>3. PICK g : Recursive(g, 1, n, Seq(E), cs[1], step)
  BY <1>1, <1>2, RecursionLemma
<1>4. \A j \in 1..n : j # 1 => g[j] = g[j - 1] \o cs[j]
  <2> SUFFICES ASSUME NEW j \in 1..n, j # 1 PROVE g[j] = g[j - 1] \o cs[j]
    OBVIOUS
  <2>1. j - 1 \in 1..n
    OBVIOUS
  <2>2. QED
    BY <1>1, <1>3, <2>1 DEF Recursive
<1>5. Body(g)
  BY <1>3, <1>4 DEF Recursive
<1>6. Body(flat)
  <2> HIDE DEF Body
  <2>1. QED
    BY <1>5
<1> HIDE DEF flat
<1>7. flat[1] = cs[1] /\ \A j \in 2..n : j \in 1..n /\ flat[j] = flat[j - 1] \o cs[j]
  <2>1. flat[1] = cs[1]
    BY <1>2, <1>6
  <2>2. ASSUME NEW j \in 2..n PROVE j \in 1..n /\ flat[j] = flat[j - 1] \o cs[j]
    <3>1. j \in 1..n /\ j # 1
      OBVIOUS
    <3>2. QED
      BY <1>6, <3>1
  <2>3. QED
    BY <2>1, <2>2
<1> DEFINE T == {k \in Nat : k \in 1..n => flat[k] \in Seq(E)}
<1>8. 0 \in T
  OBVIOUS
<1>9. ASSUME NEW k \in Nat, k \in T PROVE k + 1 \in T
  <2> SUFFICES ASSUME k + 1 \in 1..n PROVE flat[k + 1] \in Seq(E)
    OBVIOUS
  <2>1. CASE k = 0
    BY <1>2, <1>7, <2>1
  <2>2. CASE k # 0
    <3>1. k \in 1..n /\ k + 1 \in 2..n /\ (k + 1) - 1 = k
      BY <2>2
    <3>0. flat[k] \in Seq(E) /\ cs[k + 1] \in Seq(E)
      BY <1>9, <3>1
    <3>2. flat[k + 1] = flat[k] \o cs[k + 1] /\ flat[k] \in Seq(E) /\ cs[k + 1] \in Seq(E)
      BY <1>7, <3>0, <3>1
    <3>3. QED
      BY <3>2, ConcatProperties
  <2>3. QED
    BY <2>1, <2>2
<1>10. Nat \subseteq T
  <2> HIDE DEF T
  <2>1. QED
    BY <1>8, <1>9, SetInduction
<1>11. flat \in [1..n -> Seq(E)]
  <2>1. \A k \in 1..n : flat[k] \in Seq(E)
    BY <1>10
  <2>2. flat = [j \in 1..n |-> flat[j]]
    BY <1>6
  <2>3. QED
    BY <2>1, <2>2
<1>12. FlattenSeq(cs) = flat[n]
  <2>1. cs \in Seq(Seq(E)) /\ Len(cs) = n /\ Len(cs) # 0
    OBVIOUS
  <2>2. QED
    BY <2>1 DEF FlattenSeq, flat
<1>13. QED
  BY <1>7, <1>11, <1>12 DEF Flattens

(* A sequence that lists a set without repetition is as long as the set is  *)
(* large.                                                                   *)
LEMMA CardinalityLemma ==
    ASSUME NEW E, NEW q \in Seq(E),
           \A i, j \in 1..Len(q) : q[i] = q[j] => i = j,
           \A e \in E : \E i \in 1..Len(q) : q[i] = e
    PROVE  IsFiniteSet(E) /\ Cardinality(E) = Len(q)
<1>1. Len(q) \in Nat /\ q \in [1..Len(q) -> E]
  BY LenProperties
<1>2. q \in Bijection(1..Len(q), E)
  BY <1>1 DEF Bijection, Injection, Surjection, IsInjective
<1>3. ExistsBijection(1..Len(q), E)
  BY <1>2 DEF ExistsBijection
<1>4. QED
  BY <1>1, <1>3, FS_CountingElements, FS_NatBijection

(* The elements of a concatenation.                                         *)
LEMMA JoinLemma ==
    ASSUME NEW E, NEW s \in Seq(E), NEW t \in Seq(E)
    PROVE  /\ s \o t \in Seq(E) /\ Len(s \o t) = Len(s) + Len(t)
           /\ \A i \in 1..Len(s) : (s \o t)[i] = s[i]
           /\ \A i \in 1..Len(t) : (s \o t)[Len(s) + i] = t[i]
<1> DEFINE r == s \o t
           a == Len(s)
           b == Len(t)
<1>1. /\ r \in Seq(E) /\ Len(r) = a + b /\ a \in Nat /\ b \in Nat
      /\ \A i \in 1..a+b : r[i] = IF i <= a THEN s[i] ELSE t[i - a]
  BY ConcatProperties, LenProperties
<1> HIDE DEF r, a, b
<1>2. \A i \in 1..b : a + i \in 1..a+b /\ ~ (a + i <= a) /\ (a + i) - a = i
  BY <1>1
<1>3. r \in Seq(E) /\ Len(r) = a + b /\ (\A i \in 1..a : r[i] = s[i]) /\ \A i \in 1..b : r[a + i] = t[i]
  BY <1>1, <1>2
<1>4. QED
  BY <1>3 DEF r, a, b
=============================================================================
