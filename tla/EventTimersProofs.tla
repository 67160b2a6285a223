-------------------------- MODULE EventTimersProofs --------------------------
(***************************************************************************)
(* Proofs about the timer queue, for every set of timers, all delays and   *)
(* any length of time: the queue stays sorted, and it implements Alarms.   *)
(***************************************************************************)
EXTENDS EventTimers, DataLemmas
-----------------------------------------------------------------------------
(* The queue as the invariant has it: sorted by second, each timer once.    *)
Entries == [id : Timers, when : 0..Horizon]

Sorted(q) == \A i, j \in 1..Len(q) : i <= j => q[i].when <= q[j].when

Unique(q) == \A i, j \in 1..Len(q) : q[i].id = q[j].id => i = j

LEMMA HorizonLemma ==
    Horizon \in Nat /\ \A d \in Delays : d \in Nat /\ MaxTime + d <= Horizon
<1>1. Max(Delays) \in Delays /\ \A d \in Delays : d <= Max(Delays)
  BY TimersAssumption, MaxLemma
<1> DEFINE m == Max(Delays)
<1>2. m \in Nat /\ MaxTime \in Nat /\ Horizon = MaxTime + m
  BY <1>1, TimersAssumption DEF Horizon
<1>3. \A d \in Delays : d \in Nat /\ d <= m
  BY <1>1, TimersAssumption
<1> HIDE DEF m
<1>4. QED
  BY <1>2, <1>3

LEMMA EntriesLemma ==
    ASSUME NEW q \in Seq(Entries)
    PROVE  /\ Len(q) \in Nat
           /\ \A i \in 1..Len(q) : q[i] \in Entries /\ q[i].id \in Timers
                                   /\ q[i].when \in Nat /\ q[i].when <= Horizon
<1>1. Len(q) \in Nat
  BY LenProperties
<1>2. \A i \in 1..Len(q) : q[i] \in Entries
  BY ElementOfSeq
<1>3. QED
  BY <1>1, <1>2, HorizonLemma DEF Entries

(* In a sorted queue the entries for seconds before w come first.           *)
LEMMA BeforeLemma ==
    ASSUME NEW q \in Seq(Entries), NEW w \in Int, NEW k \in 0..Len(q),
           \A i \in 1..Len(q) : q[i].when < w <=> i <= k
    PROVE  Before(q, w) = k
<1>1. Len(q) \in Nat
  BY EntriesLemma
<1>2. {i \in 1..Len(q) : q[i].when < w} = 1..k
  BY <1>1
<1>3. Cardinality(1..k) = k
  BY <1>1, FS_Interval
<1>4. QED
  BY <1>2, <1>3 DEF Before

LEMMA SortedBefore ==
    ASSUME NEW q \in Seq(Entries), Sorted(q), NEW w \in Int
    PROVE  /\ Before(q, w) \in 0..Len(q)
           /\ \A i \in 1..Len(q) : q[i].when < w <=> i <= Before(q, w)
<1> DEFINE T == {n \in Nat : n <= Len(q) /\ \A i \in 1..Len(q) : i > n => q[i].when >= w}
<1>1. Len(q) \in Nat /\ \A i \in 1..Len(q) : q[i].when \in Nat
  BY EntriesLemma
<1>2. T \in SUBSET Nat /\ Len(q) \in T
  BY <1>1
<1>3. PICK k \in T : \A n \in T : k <= n
  BY <1>2, LeastNumber
<1>4. ASSUME NEW i \in 1..Len(q), i <= k PROVE q[i].when < w
  <2> SUFFICES ASSUME q[i].when >= w PROVE FALSE
    BY <1>1
  <2>1. k \in 1..Len(q) /\ k - 1 \in Nat /\ k - 1 <= Len(q)
    BY <1>1, <1>3, <1>4
  <2>2. \A j \in 1..Len(q) : j > k - 1 => q[j].when >= w
    BY <1>1, <1>4, <2>1 DEF Sorted
  <2>3. k - 1 \in T
    BY <2>1, <2>2
  <2>4. k <= k - 1
    BY <1>3, <2>3
  <2>5. QED
    BY <2>1, <2>4
<1>5. k \in 0..Len(q) /\ \A i \in 1..Len(q) : q[i].when < w <=> i <= k
  BY <1>1, <1>3, <1>4
<1>6. QED
  BY <1>5, BeforeLemma

(* The timers set for second w follow them.                                 *)
LEMMA LineLemma ==
    ASSUME NEW q \in Seq(Entries), Sorted(q), NEW w \in Int
    PROVE  /\ Before(q, w) \in Nat /\ Before(q, w + 1) \in Nat
           /\ Before(q, w) <= Before(q, w + 1) /\ Before(q, w + 1) <= Len(q)
           /\ Line(q, w) \in Seq(Timers)
           /\ Len(Line(q, w)) = Before(q, w + 1) - Before(q, w)
           /\ \A i \in 1..Before(q, w + 1) - Before(q, w) : Line(q, w)[i] = q[Before(q, w) + i].id
           /\ \A i \in 1..Len(q) :
                 q[i].when = w <=> Before(q, w) < i /\ i <= Before(q, w + 1)
<1> DEFINE b == Before(q, w)
           c == Before(q, w + 1)
<1>1. Len(q) \in Nat /\ \A i \in 1..Len(q) : q[i].when \in Nat /\ q[i].id \in Timers
  BY EntriesLemma
<1>2. b \in 0..Len(q) /\ \A i \in 1..Len(q) : q[i].when < w <=> i <= b
  BY SortedBefore
<1>3. c \in 0..Len(q) /\ \A i \in 1..Len(q) : q[i].when < w + 1 <=> i <= c
  <2>1. w + 1 \in Int
    OBVIOUS
  <2>2. QED
    BY <2>1, SortedBefore
<1>4. Line(q, w) = [i \in 1..c - b |-> q[b + i].id]
  BY DEF Line
<1> HIDE DEF b, c
<1>5. b <= c
  <2> SUFFICES ASSUME b > c PROVE FALSE
    BY <1>1, <1>2, <1>3
  <2>1. b \in 1..Len(q) /\ q[b].when < w /\ ~ (q[b].when < w + 1)
    BY <1>1, <1>2, <1>3
  <2>2. QED
    BY <1>1, <2>1
<1>6. c - b \in Nat /\ \A i \in 1..c - b : b + i \in 1..Len(q)
  BY <1>1, <1>2, <1>3, <1>5
<1>7. Line(q, w) \in [1..c - b -> Timers]
  BY <1>1, <1>4, <1>6
<1>8. Line(q, w) \in Seq(Timers) /\ Len(Line(q, w)) = c - b
  <2>1. Line(q, w) \in Seq(Timers)
    BY <1>6, <1>7, SeqDef
  <2>2. 1..Len(Line(q, w)) = 1..c - b /\ Len(Line(q, w)) \in Nat
    BY <1>7, <2>1, LenProperties
  <2>3. QED
    BY <1>6, <2>1, <2>2
<1>9. \A i \in 1..Len(q) : q[i].when = w <=> b < i /\ i <= c
  BY <1>1, <1>2, <1>3
<1>10. QED
  BY <1>1, <1>2, <1>3, <1>4, <1>5, <1>8, <1>9 DEF b, c

(* A sequence that lists them is the line of second w.                      *)
LEMMA LineIs ==
    ASSUME NEW q \in Seq(Entries), Sorted(q), NEW w \in Int, NEW s \in Seq(Timers),
           Len(s) = Before(q, w + 1) - Before(q, w),
           \A i \in 1..Len(s) : s[i] = q[Before(q, w) + i].id
    PROVE  Line(q, w) = s
<1>1. Line(q, w) \in Seq(Timers) /\ Len(Line(q, w)) = Len(s)
  BY LineLemma
<1>2. \A i \in 1..Before(q, w + 1) - Before(q, w) : Line(q, w)[i] = q[Before(q, w) + i].id
  BY LineLemma
<1>3. \A i \in 1..Len(s) : Line(q, w)[i] = s[i]
  BY <1>2
<1>4. QED
  BY <1>1, <1>3, SeqEqual
-----------------------------------------------------------------------------
(* Removal of an entry takes its timer out of the line of its second and    *)
(* leaves the other lines alone.                                            *)
LEMMA RemovedQueue ==
    ASSUME NEW q \in Seq(Entries), Sorted(q), NEW k \in 1..Len(q)
    PROVE  /\ RemoveAt(q, k) \in Seq(Entries)
           /\ Sorted(RemoveAt(q, k))
           /\ Unique(q) => Unique(RemoveAt(q, k))
           /\ \A w \in Int : Before(RemoveAt(q, k), w) =
                 IF q[k].when < w THEN Before(q, w) - 1 ELSE Before(q, w)
<1> DEFINE r == RemoveAt(q, k)
<1>1. Len(q) \in Nat /\ \A i \in 1..Len(q) : q[i].when \in Nat
  BY EntriesLemma
<1>2. /\ r \in Seq(Entries) /\ Len(r) = Len(q) - 1
      /\ \A i \in 1..Len(q)-1 : r[i] = IF i < k THEN q[i] ELSE q[i + 1]
  BY RemoveAtLemma
<1> HIDE DEF r
<1>3. Sorted(r)
  <2> SUFFICES ASSUME NEW i \in 1..Len(q)-1, NEW j \in 1..Len(q)-1, i <= j
               PROVE  r[i].when <= r[j].when
    BY <1>2 DEF Sorted
  <2>1. PICK x \in 1..Len(q) : r[i] = q[x] /\ x = IF i < k THEN i ELSE i + 1
    BY <1>1, <1>2
  <2>2. PICK y \in 1..Len(q) : r[j] = q[y] /\ y = IF j < k THEN j ELSE j + 1
    BY <1>1, <1>2
  <2>3. x <= y
    BY <1>1, <2>1, <2>2
  <2>4. QED
    BY <2>1, <2>2, <2>3 DEF Sorted
<1>4. ASSUME Unique(q) PROVE Unique(r)
  <2> SUFFICES ASSUME NEW i \in 1..Len(q)-1, NEW j \in 1..Len(q)-1, r[i].id = r[j].id
               PROVE  i = j
    BY <1>2 DEF Unique
  <2>1. PICK x \in 1..Len(q) : r[i] = q[x] /\ x = IF i < k THEN i ELSE i + 1
    BY <1>1, <1>2
  <2>2. PICK y \in 1..Len(q) : r[j] = q[y] /\ y = IF j < k THEN j ELSE j + 1
    BY <1>1, <1>2
  <2>3. x = y
    BY <1>4, <2>1, <2>2 DEF Unique
  <2>4. QED
    BY <1>1, <2>1, <2>2, <2>3
<1>5. ASSUME NEW w \in Int
      PROVE  Before(r, w) = IF q[k].when < w THEN Before(q, w) - 1 ELSE Before(q, w)
  <2>1. Before(q, w) \in 0..Len(q) /\ \A i \in 1..Len(q) : q[i].when < w <=> i <= Before(q, w)
    BY SortedBefore
  <2> DEFINE b == Before(q, w)
             n == IF q[k].when < w THEN b - 1 ELSE b
  <2> HIDE DEF b
  <2>2. b \in 0..Len(q) /\ \A i \in 1..Len(q) : q[i].when < w <=> i <= b
    BY <2>1 DEF b
  <2>3. n \in 0..Len(r)
    BY <1>1, <1>2, <2>2
  <2>4. \A i \in 1..Len(r) : r[i].when < w <=> i <= n
    <3> SUFFICES ASSUME NEW i \in 1..Len(q)-1 PROVE r[i].when < w <=> i <= n
      BY <1>2
    <3>1. i \in 1..Len(q) /\ i + 1 \in 1..Len(q) /\ i \in Nat /\ k \in Nat /\ b \in Nat
      BY <1>1, <2>2
    <3>2. CASE i < k
      <4>1. r[i] = q[i]
        BY <1>2, <3>2
      <4>2. QED
        BY <2>2, <3>1, <3>2, <4>1
    <3>3. CASE i >= k
      <4>1. r[i] = q[i + 1]
        BY <1>2, <3>1, <3>3
      <4>2. QED
        BY <2>2, <3>1, <3>3, <4>1
    <3>4. QED
      BY <3>1, <3>2, <3>3
  <2> HIDE DEF n
  <2>5. Before(r, w) = n
    BY <1>2, <2>3, <2>4, BeforeLemma
  <2>6. QED
    BY <2>5 DEF n, b
<1>6. QED
  BY <1>2, <1>3, <1>4, <1>5 DEF r

LEMMA RemovedLine ==
    ASSUME NEW q \in Seq(Entries), Sorted(q), NEW k \in 1..Len(q), NEW w \in Int
    PROVE  /\ w = q[k].when =>
                 /\ k - Before(q, w) \in 1..Len(Line(q, w))
                 /\ Line(q, w)[k - Before(q, w)] = q[k].id
                 /\ Line(RemoveAt(q, k), w) = RemoveAt(Line(q, w), k - Before(q, w))
           /\ w # q[k].when => Line(RemoveAt(q, k), w) = Line(q, w)
<1> DEFINE b == Before(q, w)
           c == Before(q, w + 1)
           r == RemoveAt(q, k)
           s == Line(q, w)
<1>1. Len(q) \in Nat /\ k \in Nat /\ q[k].when \in Nat
  BY EntriesLemma
<1>2. /\ b \in Nat /\ c \in Nat /\ b <= c /\ c <= Len(q)
      /\ s \in Seq(Timers) /\ Len(s) = c - b
      /\ \A i \in 1..c-b : s[i] = q[b + i].id
      /\ \A i \in 1..Len(q) : q[i].when = w <=> b < i /\ i <= c
  BY LineLemma
<1>3. /\ r \in Seq(Entries) /\ Sorted(r)
      /\ Before(r, w) = IF q[k].when < w THEN b - 1 ELSE b
      /\ Before(r, w + 1) = IF q[k].when < w + 1 THEN c - 1 ELSE c
  <2>1. w + 1 \in Int
    OBVIOUS
  <2>2. QED
    BY <2>1, RemovedQueue
<1>4. \A i \in 1..Len(q)-1 : r[i] = IF i < k THEN q[i] ELSE q[i + 1]
  BY RemoveAtLemma
<1>5. (q[k].when < w => k <= b) /\ (q[k].when < w + 1 <=> k <= c)
  <2>1. w + 1 \in Int
    OBVIOUS
  <2>2. QED
    BY <2>1, SortedBefore
<1> HIDE DEF b, c, r, s
<1>6. ASSUME w = q[k].when
      PROVE  /\ k - b \in 1..Len(s) /\ s[k - b] = q[k].id
             /\ Line(r, w) = RemoveAt(s, k - b)
  <2> DEFINE n == k - b
  <2>1. b < k /\ k <= c /\ k - b \in 1..Len(s) /\ b + (k - b) = k
    BY <1>1, <1>2, <1>6
  <2>2. s[k - b] = q[k].id
    BY <1>2, <2>1
  <2>3. /\ RemoveAt(s, k - b) \in Seq(Timers)
        /\ Len(RemoveAt(s, k - b)) = c - b - 1
        /\ \A i \in 1..c-b-1 : RemoveAt(s, k - b)[i] = IF i < k - b THEN s[i] ELSE s[i + 1]
    <3>1. n \in 1..Len(s)
      BY <2>1
    <3> HIDE DEF n
    <3>2. /\ RemoveAt(s, n) \in Seq(Timers)
          /\ Len(RemoveAt(s, n)) = Len(s) - 1
          /\ \A i \in 1..Len(s)-1 : RemoveAt(s, n)[i] = IF i < n THEN s[i] ELSE s[i + 1]
      BY <1>2, <3>1, RemoveAtLemma
    <3>3. Len(s) - 1 = c - b - 1
      BY <1>2
    <3>4. QED
      BY <3>2, <3>3 DEF n
  <2>4. Before(r, w) = b /\ Before(r, w + 1) = c - 1
    BY <1>1, <1>3, <1>6
  <2>5. ASSUME NEW i \in 1..c-b-1 PROVE RemoveAt(s, k - b)[i] = r[b + i].id
    <3>1. b + i \in 1..Len(q)-1 /\ i \in 1..c-b /\ i + 1 \in 1..c-b /\ i \in Nat
      BY <1>1, <1>2
    <3>2. CASE i < k - b
      <4>1. RemoveAt(s, k - b)[i] = s[i] /\ s[i] = q[b + i].id
        BY <1>2, <2>3, <3>1, <3>2
      <4>2. b + i < k
        BY <1>1, <1>2, <3>1, <3>2
      <4>3. r[b + i] = q[b + i]
        BY <1>4, <3>1, <4>2
      <4>4. QED
        BY <4>1, <4>3
    <3>3. CASE i >= k - b
      <4>1. RemoveAt(s, k - b)[i] = s[i + 1] /\ s[i + 1] = q[b + (i + 1)].id
        BY <1>1, <1>2, <2>3, <3>1, <3>3
      <4>2. ~ (b + i < k) /\ (b + i) + 1 = b + (i + 1)
        BY <1>1, <1>2, <3>1, <3>3
      <4>3. r[b + i] = q[b + (i + 1)]
        BY <1>4, <3>1, <4>2
      <4>4. QED
        BY <4>1, <4>3
    <3>4. i < k - b \/ i >= k - b
      BY <1>1, <1>2, <3>1
    <3>5. QED
      BY <3>2, <3>3, <3>4
  <2>6. Line(r, w) = RemoveAt(s, k - b)
    <3>1. Len(RemoveAt(s, k - b)) = Before(r, w + 1) - Before(r, w)
      BY <1>2, <2>3, <2>4
    <3>2. \A i \in 1..Len(RemoveAt(s, k - b)) : RemoveAt(s, k - b)[i] = r[Before(r, w) + i].id
      BY <2>3, <2>4, <2>5
    <3>3. QED
      BY <1>3, <2>3, <3>1, <3>2, LineIs
  <2>7. QED
    BY <2>1, <2>2, <2>6
<1>7. ASSUME w # q[k].when PROVE Line(r, w) = s
  <2> DEFINE a == Before(r, w)
  <2>1. \/ k <= b /\ a = b - 1 /\ Before(r, w + 1) = c - 1
        \/ c < k /\ a = b /\ Before(r, w + 1) = c
    <3>1. CASE q[k].when < w
      <4>1. q[k].when < w + 1
        BY <1>1, <3>1
      <4>2. QED
        BY <1>3, <1>5, <3>1, <4>1
    <3>2. CASE w < q[k].when
      <4>1. ~ (q[k].when < w) /\ ~ (q[k].when < w + 1)
        BY <1>1, <3>2
      <4>2. ~ (k <= c)
        BY <1>5, <4>1
      <4>3. QED
        BY <1>1, <1>2, <1>3, <4>1, <4>2
    <3>3. QED
      BY <1>1, <1>7, <3>1, <3>2
  <2>2. a \in Int /\ Len(s) = Before(r, w + 1) - a
    BY <1>2, <2>1
  <2> HIDE DEF a
  <2>3. ASSUME NEW i \in 1..c-b PROVE s[i] = r[a + i].id
    <3>1. CASE k <= b /\ a = b - 1
      <4>1. a + i \in 1..Len(q)-1 /\ ~ (a + i < k) /\ (a + i) + 1 = b + i
        BY <1>1, <1>2, <3>1
      <4>2. r[a + i] = q[b + i]
        BY <1>4, <4>1
      <4>3. QED
        BY <1>2, <4>2
    <3>2. CASE c < k /\ a = b
      <4>1. a + i \in 1..Len(q)-1 /\ a + i < k
        BY <1>1, <1>2, <3>2
      <4>2. r[a + i] = q[b + i]
        BY <1>4, <3>2, <4>1
      <4>3. QED
        BY <1>2, <4>2
    <3>3. QED
      BY <2>1, <3>1, <3>2 DEF a
  <2>4. QED
    BY <1>2, <1>3, <2>2, <2>3, LineIs DEF a
<1>8. QED
  BY <1>6, <1>7 DEF b, c, r, s
-----------------------------------------------------------------------------
(* A request for second v goes behind the entries for v and earlier: it     *)
(* joins the line of v at its end and leaves the other lines alone.         *)
LEMMA PlaceLemma ==
    ASSUME NEW q \in Seq(Entries), Sorted(q), NEW v \in Int
    PROVE  Place(q, v) = Before(q, v + 1) + 1
<1> DEFINE T == {i \in 1..Len(q) : v < q[i].when} \cup {Len(q) + 1}
           c == Before(q, v + 1)
<1>1. Len(q) \in Nat /\ \A i \in 1..Len(q) : q[i].when \in Nat
  BY EntriesLemma
<1>2. c \in 0..Len(q) /\ \A i \in 1..Len(q) : q[i].when < v + 1 <=> i <= c
  <2>1. v + 1 \in Int
    OBVIOUS
  <2>2. QED
    BY <2>1, SortedBefore
<1>3. T \in SUBSET Nat /\ T # {}
  BY <1>1
<1> HIDE DEF c
<1>4. c + 1 \in T /\ \A i \in T : c + 1 <= i
  BY <1>1, <1>2
<1>5. Place(q, v) = Min(T)
  BY DEF Place
<1> HIDE DEF T
<1>6. Min(T) \in T /\ \A m \in T : Min(T) <= m
  BY <1>3, MinLemma
<1>7. Min(T) = c + 1
  <2>1. Min(T) \in Nat /\ c + 1 \in Nat /\ Min(T) <= c + 1 /\ c + 1 <= Min(T)
    BY <1>2, <1>3, <1>4, <1>6
  <2>2. QED
    BY <2>1
<1>8. QED
  BY <1>5, <1>7 DEF c

LEMMA InsertedQueue ==
    ASSUME NEW q \in Seq(Entries), Sorted(q), NEW e \in Entries
    PROVE  LET r == InsertAt(q, Place(q, e.when), e)
           IN  /\ r \in Seq(Entries)
               /\ Sorted(r)
               /\ Unique(q) /\ (\A i \in 1..Len(q) : q[i].id # e.id) => Unique(r)
               /\ \A w \in Int : Before(r, w) = IF e.when < w THEN Before(q, w) + 1 ELSE Before(q, w)
<1> DEFINE v == e.when
           c == Before(q, v + 1)
           k == c + 1
           r == InsertAt(q, k, e)
<1>1. /\ Len(q) \in Nat /\ v \in Nat /\ v + 1 \in Int
      /\ \A i \in 1..Len(q) : q[i].when \in Nat
  <2>1. v \in Nat
    BY HorizonLemma DEF Entries
  <2>2. Len(q) \in Nat /\ \A i \in 1..Len(q) : q[i].when \in Nat
    BY EntriesLemma
  <2>3. QED
    BY <2>1, <2>2
<1>2. c \in 0..Len(q) /\ \A i \in 1..Len(q) : q[i].when < v + 1 <=> i <= c
  BY <1>1, SortedBefore
<1>3. Place(q, v) = k
  BY <1>1, PlaceLemma
<1> HIDE DEF c
<1>4. k \in 1..Len(q)+1 /\ k \in Nat
  BY <1>1, <1>2
<1> HIDE DEF k
<1>5. /\ r \in Seq(Entries) /\ Len(r) = Len(q) + 1
      /\ \A i \in 1..Len(q)+1 : r[i] = IF i < k THEN q[i] ELSE IF i = k THEN e ELSE q[i - 1]
  BY <1>4, InsertAtLemma
<1>6. \A i \in 1..Len(q) : (i < k => q[i].when <= v) /\ (i >= k => v < q[i].when)
  BY <1>1, <1>2 DEF k
<1> HIDE DEF r
<1>7. Sorted(r)
  <2> SUFFICES ASSUME NEW i \in 1..Len(q)+1, NEW j \in 1..Len(q)+1, i <= j
               PROVE  r[i].when <= r[j].when
    BY <1>5 DEF Sorted
  <2>1. CASE i < k /\ j < k
    BY <1>1, <1>4, <1>5, <2>1 DEF Sorted
  <2>2. CASE i < k /\ j = k
    BY <1>1, <1>4, <1>5, <1>6, <2>2
  <2>3. CASE i < k /\ j > k
    <3>1. r[i] = q[i] /\ r[j] = q[j - 1] /\ i \in 1..Len(q) /\ j - 1 \in 1..Len(q) /\ i <= j - 1
      BY <1>1, <1>4, <1>5, <2>3
    <3>2. QED
      BY <3>1 DEF Sorted
  <2>4. CASE i = k /\ j = k
    BY <1>1, <1>5, <2>4
  <2>5. CASE i = k /\ j > k
    <3>1. r[i] = e /\ r[j] = q[j - 1] /\ j - 1 \in 1..Len(q) /\ j - 1 >= k
      BY <1>1, <1>4, <1>5, <2>5
    <3>2. QED
      BY <1>1, <1>6, <3>1
  <2>6. CASE i > k /\ j > k
    <3>1. r[i] = q[i - 1] /\ r[j] = q[j - 1] /\ i - 1 \in 1..Len(q) /\ j - 1 \in 1..Len(q) /\ i - 1 <= j - 1
      BY <1>1, <1>4, <1>5, <2>6
    <3>2. QED
      BY <3>1 DEF Sorted
  <2>7. QED
    BY <1>1, <1>4, <2>1, <2>2, <2>3, <2>4, <2>5, <2>6
<1>8. ASSUME Unique(q), \A i \in 1..Len(q) : q[i].id # e.id PROVE Unique(r)
  <2> SUFFICES ASSUME NEW i \in 1..Len(q)+1, NEW j \in 1..Len(q)+1, r[i].id = r[j].id
               PROVE  i = j
    BY <1>5 DEF Unique
  <2> DEFINE f(n) == IF n < k THEN n ELSE n - 1
  <2>1. \A n \in 1..Len(q)+1 : n # k => f(n) \in 1..Len(q) /\ r[n] = q[f(n)]
    BY <1>1, <1>4, <1>5
  <2>2. r[k] = e
    BY <1>4, <1>5
  <2>3. CASE i = k \/ j = k
    <3>1. \A n \in 1..Len(q)+1 : n # k => r[n].id # e.id
      <4> HIDE DEF f
      <4>1. QED
        BY <1>8, <2>1
    <3>2. QED
      BY <2>2, <2>3, <3>1
  <2>4. CASE i # k /\ j # k
    <3>1. f(i) \in 1..Len(q) /\ f(j) \in 1..Len(q) /\ q[f(i)].id = q[f(j)].id
      BY <2>1, <2>4
    <3>2. f(i) = f(j)
      <4> HIDE DEF f
      <4>1. QED
        BY <1>8, <3>1 DEF Unique
    <3>3. QED
      BY <1>1, <1>4, <2>4, <3>2
  <2>5. QED
    BY <2>3, <2>4
<1>9. ASSUME NEW w \in Int
      PROVE  Before(r, w) = IF v < w THEN Before(q, w) + 1 ELSE Before(q, w)
  <2> DEFINE b == Before(q, w)
             n == IF v < w THEN b + 1 ELSE b
  <2>1. b \in 0..Len(q) /\ \A i \in 1..Len(q) : q[i].when < w <=> i <= b
    BY SortedBefore
  <2> HIDE DEF b
  <2>2. n \in 0..Len(r) /\ b \in Nat
    BY <1>1, <1>5, <2>1
  <2>3. (v < w => k <= n) /\ (w <= v => n < k)
    <3>1. CASE v < w
      <4>1. c <= b
        <5> SUFFICES ASSUME c > b PROVE FALSE
          BY <1>1, <1>2, <2>2
        <5>1. c \in 1..Len(q) /\ q[c].when < v + 1 /\ ~ (q[c].when < w)
          BY <1>1, <1>2, <2>1, <2>2
        <5>2. QED
          BY <1>1, <3>1, <5>1
      <4>2. QED
        BY <1>1, <1>2, <2>2, <3>1, <4>1 DEF k
    <3>2. CASE w <= v
      <4>1. b <= c
        <5> SUFFICES ASSUME b > c PROVE FALSE
          BY <1>1, <1>2, <2>2
        <5>1. b \in 1..Len(q) /\ q[b].when < w /\ ~ (q[b].when < v + 1)
          BY <1>1, <1>2, <2>1, <2>2
        <5>2. QED
          BY <1>1, <3>2, <5>1
      <4>2. QED
        BY <1>1, <1>2, <2>2, <3>2, <4>1 DEF k
    <3>3. QED
      BY <1>1, <3>1, <3>2
  <2>4. \A i \in 1..Len(r) : r[i].when < w <=> i <= n
    <3> SUFFICES ASSUME NEW i \in 1..Len(q)+1 PROVE r[i].when < w <=> i <= n
      BY <1>5
    <3>1. CASE i < k
      <4>1. r[i] = q[i] /\ i \in 1..Len(q) /\ q[i].when \in Nat
        BY <1>1, <1>4, <1>5, <3>1
      <4>2. QED
        BY <1>1, <1>4, <2>1, <2>2, <2>3, <3>1, <4>1
    <3>2. CASE i = k
      <4>1. r[i] = e
        BY <1>4, <1>5, <3>2
      <4>2. QED
        BY <1>1, <1>4, <2>2, <2>3, <3>2, <4>1
    <3>3. CASE i > k
      <4>1. r[i] = q[i - 1] /\ i - 1 \in 1..Len(q) /\ q[i - 1].when \in Nat
        BY <1>1, <1>4, <1>5, <3>3
      <4>2. v < q[i - 1].when
        BY <1>1, <1>4, <1>6, <3>3, <4>1
      <4>3. QED
        BY <1>1, <1>4, <2>1, <2>2, <2>3, <3>3, <4>1, <4>2
    <3>4. QED
      BY <1>1, <1>4, <3>1, <3>2, <3>3
  <2> HIDE DEF n
  <2>5. Before(r, w) = n
    BY <1>5, <2>2, <2>4, BeforeLemma
  <2>6. QED
    BY <2>5 DEF n, b
<1>10. QED
  BY <1>3, <1>5, <1>7, <1>8, <1>9 DEF r
LEMMA InsertedLine ==
    ASSUME NEW q \in Seq(Entries), Sorted(q), NEW e \in Entries, NEW w \in Int
    PROVE  Line(InsertAt(q, Place(q, e.when), e), w) =
               IF w = e.when THEN Append(Line(q, w), e.id) ELSE Line(q, w)
<1> DEFINE v == e.when
           k == Before(q, v + 1) + 1
           r == InsertAt(q, k, e)
           b == Before(q, w)
           c == Before(q, w + 1)
           s == Line(q, w)
<1>1. v \in Nat /\ e.id \in Timers /\ v + 1 \in Int /\ w + 1 \in Int
  BY HorizonLemma DEF Entries
<1>2. Place(q, v) = k
  BY <1>1, PlaceLemma
<1>3. /\ r \in Seq(Entries) /\ Sorted(r)
      /\ Before(r, w) = IF v < w THEN b + 1 ELSE b
      /\ Before(r, w + 1) = IF v < w + 1 THEN c + 1 ELSE c
  BY <1>1, <1>2, InsertedQueue
<1>4. Len(q) \in Nat /\ \A i \in 1..Len(q) : q[i].when \in Nat
  BY EntriesLemma
<1>5. /\ b \in Nat /\ c \in Nat /\ b <= c /\ c <= Len(q)
      /\ s \in Seq(Timers) /\ Len(s) = c - b
      /\ \A i \in 1..c-b : s[i] = q[b + i].id
  BY LineLemma
<1>6. /\ k - 1 \in 0..Len(q)
      /\ \A i \in 1..Len(q) : q[i].when < v + 1 <=> i <= k - 1
  <2>1. /\ Before(q, v + 1) \in 0..Len(q)
        /\ \A i \in 1..Len(q) : q[i].when < v + 1 <=> i <= Before(q, v + 1)
    BY <1>1, SortedBefore
  <2>2. k - 1 = Before(q, v + 1)
    BY <2>1
  <2>3. QED
    BY <2>1, <2>2
<1>7. \A i \in 1..Len(q) : (q[i].when < w <=> i <= b) /\ (q[i].when < w + 1 <=> i <= c)
  BY <1>1, SortedBefore
<1>8. w = v => k = c + 1
  BY <1>1
<1> HIDE DEF k
<1>9. k \in Nat /\ k \in 1..Len(q)+1
  <2>1. k \in Int
    <3>1. Before(q, v + 1) \in 0..Len(q)
      BY <1>1, SortedBefore
    <3>2. QED
      BY <3>1 DEF k
  <2>2. QED
    BY <1>4, <1>6, <2>1
<1>10. \A i \in 1..Len(q)+1 : r[i] = IF i < k THEN q[i] ELSE IF i = k THEN e ELSE q[i - 1]
  BY <1>9, InsertAtLemma
<1> HIDE DEF b, c, r, s
<1>11. CASE w = v
  <2>1. Before(r, w) = b /\ Before(r, w + 1) = c + 1 /\ k = c + 1
    BY <1>1, <1>3, <1>8, <1>11
  <2>2. /\ Append(s, e.id) \in Seq(Timers) /\ Len(Append(s, e.id)) = c - b + 1
        /\ \A i \in 1..c-b : Append(s, e.id)[i] = s[i]
        /\ Append(s, e.id)[c - b + 1] = e.id
    BY <1>1, <1>5, AppendProperties
  <2>3. \A i \in 1..c-b : r[b + i] = q[b + i]
    <3>1. \A i \in 1..c-b : b + i \in 1..Len(q)+1 /\ b + i < k
      BY <1>4, <1>5, <2>1
    <3>2. QED
      BY <1>10, <3>1
  <2>4. b + (c - b + 1) = k /\ r[k] = e
    BY <1>4, <1>5, <1>9, <1>10, <2>1
  <2>5. \A i \in 1..Len(Append(s, e.id)) : Append(s, e.id)[i] = r[b + i].id
    <3> SUFFICES ASSUME NEW i \in 1..c-b+1 PROVE Append(s, e.id)[i] = r[b + i].id
      BY <2>2
    <3>1. CASE i = c - b + 1
      BY <2>2, <2>4, <3>1
    <3>2. CASE i # c - b + 1
      <4>1. i \in 1..c-b
        BY <1>5, <3>2
      <4>2. QED
        BY <1>5, <2>2, <2>3, <4>1
    <3>3. QED
      BY <3>1, <3>2
  <2>6. Len(Append(s, e.id)) = Before(r, w + 1) - Before(r, w)
    BY <1>5, <2>1, <2>2
  <2>7. Line(r, w) = Append(s, e.id)
    BY <1>3, <2>1, <2>2, <2>5, <2>6, LineIs
  <2>8. QED
    BY <1>2, <1>11, <2>7 DEF r, s
<1>12. CASE w # v
  <2> DEFINE a == Before(r, w)
  <2>1. \/ v < w /\ a = b + 1 /\ Before(r, w + 1) = c + 1
        \/ w < v /\ a = b /\ Before(r, w + 1) = c
    BY <1>1, <1>3, <1>12
  <2>2. a \in Int /\ Len(s) = Before(r, w + 1) - a
    BY <1>5, <2>1
  <2> HIDE DEF a
  <2>3. ASSUME NEW i \in 1..c-b PROVE s[i] = r[a + i].id
    <3>0. b + i \in 1..Len(q) /\ q[b + i].when \in Nat /\ ~ (q[b + i].when < w) /\ q[b + i].when < w + 1
      BY <1>4, <1>5, <1>7
    <3>1. CASE v < w /\ a = b + 1
      <4>1. ~ (q[b + i].when < v + 1)
        BY <1>1, <3>0, <3>1
      <4>2. k <= b + i
        BY <1>6, <1>9, <1>5, <3>0, <4>1
      <4>3. a + i \in 1..Len(q)+1 /\ a + i > k /\ (a + i) - 1 = b + i
        BY <1>4, <1>5, <1>9, <3>0, <3>1, <4>2
      <4>4. r[a + i] = q[b + i]
        BY <1>9, <1>10, <4>3
      <4>5. QED
        BY <1>5, <4>4
    <3>2. CASE w < v /\ a = b
      <4>1. q[b + i].when < v + 1
        BY <1>1, <3>0, <3>2
      <4>2. b + i < k
        BY <1>6, <1>9, <1>5, <3>0, <4>1
      <4>3. a + i \in 1..Len(q)+1 /\ a + i < k
        BY <1>4, <1>5, <1>9, <3>0, <3>2, <4>2
      <4>4. r[a + i] = q[b + i]
        BY <1>9, <1>10, <3>2, <4>3
      <4>5. QED
        BY <1>5, <4>4
    <3>3. QED
      BY <2>1, <3>1, <3>2 DEF a
  <2>4. Line(r, w) = s
    BY <1>3, <1>5, <2>2, <2>3, LineIs DEF a
  <2>5. QED
    BY <1>2, <1>12, <2>4 DEF r, s
<1>13. QED
  BY <1>11, <1>12
-----------------------------------------------------------------------------
(* Detaching a timer that stands in the queue at most once removes it.      *)
LEMMA DetachLemma ==
    ASSUME NEW q \in Seq(Entries), Sorted(q), Unique(q), NEW t \in Timers
    PROVE  /\ Detach(q, t) \in Seq(Entries) /\ Sorted(Detach(q, t)) /\ Unique(Detach(q, t))
           /\ \A i \in 1..Len(Detach(q, t)) : Detach(q, t)[i].id # t
           /\ \A w \in Int : Line(Detach(q, t), w) = RemoveFirst(Line(q, w), t)
<1>1. Len(q) \in Nat
  BY EntriesLemma
<1>2. CASE \A i \in 1..Len(q) : q[i].id # t
  <2>1. Detach(q, t) = q
    BY <1>2 DEF Detach
  <2>2. ASSUME NEW w \in Int PROVE RemoveFirst(Line(q, w), t) = Line(q, w)
    <3>1. /\ Before(q, w) \in Nat /\ Before(q, w + 1) \in Nat /\ Before(q, w + 1) <= Len(q)
          /\ Line(q, w) \in Seq(Timers) /\ Len(Line(q, w)) = Before(q, w + 1) - Before(q, w)
          /\ \A i \in 1..Before(q, w + 1) - Before(q, w) : Line(q, w)[i] = q[Before(q, w) + i].id
      BY LineLemma
    <3>2. \A i \in 1..Len(Line(q, w)) : Line(q, w)[i] # t
      <4>1. \A i \in 1..Before(q, w + 1) - Before(q, w) : Before(q, w) + i \in 1..Len(q)
        BY <1>1, <3>1
      <4>2. QED
        BY <1>2, <3>1, <4>1
    <3>3. QED
      BY <3>1, <3>2, RemoveFirstLemma
  <2>3. QED
    BY <1>2, <2>1, <2>2
<1>3. ASSUME NEW k \in 1..Len(q), q[k].id = t
      PROVE  /\ Detach(q, t) \in Seq(Entries) /\ Sorted(Detach(q, t)) /\ Unique(Detach(q, t))
             /\ \A i \in 1..Len(Detach(q, t)) : Detach(q, t)[i].id # t
             /\ \A w \in Int : Line(Detach(q, t), w) = RemoveFirst(Line(q, w), t)
  <2>1. {i \in 1..Len(q) : q[i].id = t} = {k}
    BY <1>3 DEF Unique
  <2>2. Min({k}) = k
    <3>1. {k} \in SUBSET Nat /\ {k} # {}
      BY <1>1
    <3>2. Min({k}) \in {k}
      BY <3>1, MinLemma
    <3>3. QED
      BY <3>2
  <2>3. Detach(q, t) = RemoveAt(q, k)
    BY <2>1, <2>2 DEF Detach
  <2>4. Detach(q, t) \in Seq(Entries) /\ Sorted(Detach(q, t)) /\ Unique(Detach(q, t))
    BY <2>3, RemovedQueue
  <2>5. \A i \in 1..Len(Detach(q, t)) : Detach(q, t)[i].id # t
    <3>1. /\ Len(RemoveAt(q, k)) = Len(q) - 1
          /\ \A i \in 1..Len(q)-1 : RemoveAt(q, k)[i] = IF i < k THEN q[i] ELSE q[i + 1]
      BY RemoveAtLemma
    <3>2. \A i \in 1..Len(q)-1 : \E j \in 1..Len(q) \ {k} : RemoveAt(q, k)[i] = q[j]
      BY <1>1, <3>1
    <3>3. \A j \in 1..Len(q) \ {k} : q[j].id # t
      BY <2>1
    <3>4. \A i \in 1..Len(q)-1 : RemoveAt(q, k)[i].id # t
      BY <3>2, <3>3
    <3>5. QED
      BY <2>3, <3>1, <3>4
  <2>6. ASSUME NEW w \in Int PROVE Line(RemoveAt(q, k), w) = RemoveFirst(Line(q, w), t)
    <3> DEFINE s == Line(q, w)
               b == Before(q, w)
               c == Before(q, w + 1)
    <3>1. /\ b \in Nat /\ c \in Nat /\ b <= c /\ c <= Len(q)
          /\ s \in Seq(Timers) /\ Len(s) = c - b
          /\ \A i \in 1..c-b : s[i] = q[b + i].id
          /\ \A i \in 1..Len(q) : q[i].when = w <=> b < i /\ i <= c
      BY LineLemma
    <3>2. /\ w = q[k].when =>
                /\ k - b \in 1..Len(s)
                /\ s[k - b] = q[k].id
                /\ Line(RemoveAt(q, k), w) = RemoveAt(s, k - b)
          /\ w # q[k].when => Line(RemoveAt(q, k), w) = s
      BY RemovedLine
    <3> HIDE DEF s, b, c
    <3>3. \A i \in 1..Len(s) : s[i] = t => b + i = k
      <4>1. \A i \in 1..c-b : b + i \in 1..Len(q)
        BY <1>1, <3>1
      <4>2. QED
        BY <2>1, <3>1, <4>1
    <3>4. CASE w = q[k].when
      <4>1. s[k - b] = t /\ k - b \in 1..Len(s)
        BY <1>3, <3>2, <3>4
      <4>2. \A i \in 1..Len(s) : s[i] = t => i = k - b
        BY <3>1, <3>3
      <4>3. RemoveFirst(s, t) = RemoveAt(s, k - b)
        BY <3>1, <4>1, <4>2, RemoveFirstLemma
      <4>4. QED
        BY <3>2, <3>4, <4>3 DEF s
    <3>5. CASE w # q[k].when
      <4>1. \A i \in 1..Len(s) : s[i] # t
        <5> SUFFICES ASSUME NEW i \in 1..c-b, s[i] = t PROVE FALSE
          BY <3>1
        <5>1. b + i = k
          BY <3>1, <3>3
        <5>2. b < k /\ k <= c
          BY <3>1, <5>1
        <5>3. QED
          BY <3>1, <3>5, <5>2
      <4>2. RemoveFirst(s, t) = s
        BY <3>1, <4>1, RemoveFirstLemma
      <4>3. QED
        BY <3>2, <3>5, <4>2 DEF s
    <3>6. QED
      BY <3>4, <3>5
  <2>7. QED
    BY <2>3, <2>4, <2>5, <2>6
<1>4. QED
  BY <1>2, <1>3

(* The first entry of the queue is the first in the line of its second; all *)
(* earlier lines are empty.                                                 *)
LEMMA TailLemma ==
    ASSUME NEW q \in Seq(Entries), Sorted(q), Unique(q), q # <<>>
    PROVE  /\ Tail(q) \in Seq(Entries) /\ Sorted(Tail(q)) /\ Unique(Tail(q))
           /\ Line(q, q[1].when) # <<>>
           /\ \A w \in Int : w < q[1].when => Line(q, w) = <<>>
           /\ \A w \in Int : Line(Tail(q), w) =
                 IF w = q[1].when THEN Tail(Line(q, w)) ELSE Line(q, w)
<1>1. Len(q) \in Nat /\ 1 \in 1..Len(q) /\ q[1].when \in Nat
  BY EmptySeq, EntriesLemma
<1>2. \A E : \A s \in Seq(E) : s # <<>> => Tail(s) = RemoveAt(s, 1)
  <2> SUFFICES ASSUME NEW E, NEW s \in Seq(E), s # <<>> PROVE Tail(s) = RemoveAt(s, 1)
    OBVIOUS
  <2>1. Tail(s) \in Seq(E) /\ Len(Tail(s)) = Len(s) - 1 /\ \A i \in 1..Len(Tail(s)) : Tail(s)[i] = s[i + 1]
    BY HeadTailProperties
  <2>2. 1 \in 1..Len(s) /\ Len(s) \in Nat
    BY EmptySeq
  <2>3. /\ RemoveAt(s, 1) \in Seq(E) /\ Len(RemoveAt(s, 1)) = Len(s) - 1
        /\ \A i \in 1..Len(s)-1 : RemoveAt(s, 1)[i] = IF i < 1 THEN s[i] ELSE s[i + 1]
    BY <2>2, RemoveAtLemma
  <2>4. \A i \in 1..Len(Tail(s)) : Tail(s)[i] = RemoveAt(s, 1)[i]
    BY <2>1, <2>2, <2>3
  <2>5. QED
    BY <2>1, <2>3, <2>4, SeqEqual
<1>3. Tail(q) = RemoveAt(q, 1)
  BY <1>2
<1>4. Tail(q) \in Seq(Entries) /\ Sorted(Tail(q)) /\ Unique(Tail(q))
  BY <1>1, <1>3, RemovedQueue
<1>5. ASSUME NEW w \in Int, w <= q[1].when PROVE Before(q, w) = 0
  <2>1. Before(q, w) \in 0..Len(q) /\ (q[1].when < w <=> 1 <= Before(q, w))
    BY <1>1, SortedBefore
  <2>2. QED
    BY <1>1, <1>5, <2>1
<1>6. ASSUME NEW w \in Int, w < q[1].when PROVE Line(q, w) = <<>>
  <2>1. Before(q, w) = 0 /\ Before(q, w + 1) = 0
    BY <1>1, <1>5, <1>6
  <2>2. Line(q, w) \in Seq(Timers) /\ Len(Line(q, w)) = Before(q, w + 1) - Before(q, w)
    BY LineLemma
  <2>3. QED
    BY <2>1, <2>2, EmptySeq
<1>7. Before(q, q[1].when) = 0
  BY <1>1, <1>5
<1>8. 1 \in 1..Len(Line(q, q[1].when)) /\ Line(q, q[1].when) \in Seq(Timers)
      /\ Line(RemoveAt(q, 1), q[1].when) = RemoveAt(Line(q, q[1].when), 1)
  <2>1. q[1].when \in Int
    BY <1>1
  <2>2. /\ 1 - Before(q, q[1].when) \in 1..Len(Line(q, q[1].when))
        /\ Line(RemoveAt(q, 1), q[1].when) = RemoveAt(Line(q, q[1].when), 1 - Before(q, q[1].when))
    BY <1>1, <2>1, RemovedLine
  <2>3. Line(q, q[1].when) \in Seq(Timers)
    BY <2>1, LineLemma
  <2>4. 1 - 0 = 1
    OBVIOUS
  <2>5. QED
    BY <1>7, <2>2, <2>3, <2>4
<1>9. Line(q, q[1].when) # <<>>
  BY <1>8, EmptySeq
<1>10. ASSUME NEW w \in Int
       PROVE  Line(Tail(q), w) = IF w = q[1].when THEN Tail(Line(q, w)) ELSE Line(q, w)
  BY <1>1, <1>2, <1>3, <1>8, <1>9, RemovedLine
<1>11. QED
  BY <1>4, <1>6, <1>9, <1>10
-----------------------------------------------------------------------------
(* The inductive invariant: event_present is never ahead of the clock, the  *)
(* queue is sorted and holds each timer at most once.                       *)
QueueInv ==
    /\ now \in Nat /\ now <= MaxTime
    /\ present \in Nat /\ present <= now
    /\ queue \in Seq(Entries) /\ Sorted(queue) /\ Unique(queue)

LEMMA QueueInit == Init => QueueInv
<1> SUFFICES ASSUME Init PROVE QueueInv
  OBVIOUS
<1>1. queue = <<>> /\ now = 0 /\ present = 0
  BY DEF Init
<1>2. queue \in Seq(Entries) /\ Len(queue) = 0
  BY <1>1, EmptySeq
<1>3. QED
  BY <1>1, <1>2, TimersAssumption DEF QueueInv, Sorted, Unique

(* What a request makes of the queue.                                       *)
LEMMA RequestLemma ==
    ASSUME QueueInv, NEW t \in Timers, NEW d \in Delays, event_request_timer(t, d)
    PROVE  /\ QueueInv'
           /\ now + d \in 0..Horizon
           /\ \A w \in Int : Line(queue', w) =
                 IF w = now + d THEN Append(RemoveFirst(Line(queue, w), t), t)
                 ELSE RemoveFirst(Line(queue, w), t)
<1> DEFINE q == Detach(queue, t)
           e == [id |-> t, when |-> now + d]
<1>1. now + d \in 0..Horizon
  BY HorizonLemma, TimersAssumption DEF QueueInv
<1>2. e \in Entries /\ e.id = t /\ e.when = now + d
  BY <1>1 DEF Entries
<1>3. /\ q \in Seq(Entries) /\ Sorted(q) /\ Unique(q)
      /\ \A i \in 1..Len(q) : q[i].id # t
      /\ \A w \in Int : Line(q, w) = RemoveFirst(Line(queue, w), t)
  BY DetachLemma DEF QueueInv
<1>4. queue' = InsertAt(q, Place(q, e.when), e) /\ present' = now /\ now' = now
  BY DEF event_request_timer
<1> HIDE DEF q, e
<1>5. queue' \in Seq(Entries) /\ Sorted(queue') /\ Unique(queue')
  BY <1>2, <1>3, <1>4, InsertedQueue
<1>6. \A w \in Int : Line(queue', w) = IF w = e.when THEN Append(Line(q, w), e.id) ELSE Line(q, w)
  BY <1>2, <1>3, <1>4, InsertedLine
<1>7. QueueInv'
  BY <1>4, <1>5 DEF QueueInv, Sorted, Unique
<1>8. QED
  BY <1>1, <1>2, <1>3, <1>6, <1>7

LEMMA CancelLemma ==
    ASSUME QueueInv, NEW t \in Timers, event_cancel_timer(t)
    PROVE  /\ QueueInv'
           /\ \A w \in Int : Line(queue', w) = RemoveFirst(Line(queue, w), t)
<1>1. queue' = Detach(queue, t) /\ now' = now /\ present' = present
  BY DEF event_cancel_timer
<1>2. /\ queue' \in Seq(Entries) /\ Sorted(queue') /\ Unique(queue')
      /\ \A w \in Int : Line(queue', w) = RemoveFirst(Line(queue, w), t)
  BY <1>1, DetachLemma DEF QueueInv
<1>3. QED
  BY <1>1, <1>2 DEF QueueInv, Sorted, Unique

LEMMA RunLemma ==
    ASSUME QueueInv, TimerRuns
    PROVE  /\ QueueInv'
           /\ queue[1].when \in 0..now
           /\ Line(queue, queue[1].when) # <<>>
           /\ \A w \in Int : w < queue[1].when => Line(queue, w) = <<>>
           /\ \A w \in Int : Line(queue', w) =
                 IF w = queue[1].when THEN Tail(Line(queue, w)) ELSE Line(queue, w)
<1>1. queue' = Tail(queue) /\ queue # <<>> /\ queue[1].when <= present /\ now' = now /\ present' = present
  BY DEF TimerRuns, Due
<1>2. queue[1].when \in Nat
  BY <1>1, EmptySeq, EntriesLemma DEF QueueInv
<1>3. queue[1].when \in 0..now
  BY <1>1, <1>2 DEF QueueInv
<1>4. /\ queue' \in Seq(Entries) /\ Sorted(queue') /\ Unique(queue')
      /\ Line(queue, queue[1].when) # <<>>
      /\ \A w \in Int : w < queue[1].when => Line(queue, w) = <<>>
      /\ \A w \in Int : Line(queue', w) =
            IF w = queue[1].when THEN Tail(Line(queue, w)) ELSE Line(queue, w)
  BY <1>1, TailLemma DEF QueueInv
<1>5. QED
  BY <1>1, <1>3, <1>4 DEF QueueInv, Sorted, Unique

LEMMA QueueStep == QueueInv /\ [Next]_vars => QueueInv'
<1> SUFFICES ASSUME QueueInv, [Next]_vars PROVE QueueInv'
  OBVIOUS
<1>1. ASSUME NEW t \in Timers, event_cancel_timer(t) PROVE QueueInv'
  BY <1>1, CancelLemma
<1>2. ASSUME NEW t \in Timers, NEW d \in Delays, event_request_timer(t, d) PROVE QueueInv'
  BY <1>2, RequestLemma
<1>3. CASE TimerRuns
  BY <1>3, RunLemma
<1>4. CASE Tick
  BY <1>4, TimersAssumption DEF QueueInv, Tick, Sorted, Unique
<1>5. ASSUME NEW delay \in WaitArguments, event_wait(delay) PROVE QueueInv'
  BY <1>5 DEF QueueInv, event_wait, Sorted, Unique
<1>6. CASE PollReturns
  BY <1>6 DEF QueueInv, PollReturns, Sorted, Unique
<1>7. CASE PollInterrupted \/ CallbackReturns \/ TimersDone \/ UNCHANGED vars
  BY <1>7 DEF QueueInv, PollInterrupted, CallbackReturns, TimersDone, vars, Sorted, Unique
<1>8. QED
  BY <1>1, <1>2, <1>3, <1>4, <1>5, <1>6, <1>7 DEF Next, LoopStep

(* In every reachable state the queue is sorted by time and holds each pair *)
(* of callback and context once: the loop may stop at the first entry that  *)
(* is not due, and one detachment cancels a timer.                          *)
THEOREM QueueIsSorted == Spec => []QueueInv
BY QueueInit, QueueStep, PTL DEF Spec
-----------------------------------------------------------------------------

LEMMA RefinedInit == Init => Promise!Init
<1> SUFFICES ASSUME Init PROVE Promise!Init
  OBVIOUS
<1>1. queue = <<>> /\ queue \in Seq(Entries) /\ Len(queue) = 0 /\ now = 0
  BY EmptySeq DEF Init
<1>2. Sorted(queue)
  BY <1>1 DEF Sorted
<1>3. \A w \in 0..Horizon : Line(queue, w) = <<>>
  <2> SUFFICES ASSUME NEW w \in 0..Horizon PROVE Line(queue, w) = <<>>
    OBVIOUS
  <2>1. w \in Int
    BY HorizonLemma
  <2>2. /\ Before(queue, w) \in Nat /\ Before(queue, w + 1) \in Nat
        /\ Before(queue, w) <= Before(queue, w + 1) /\ Before(queue, w + 1) <= 0
        /\ Line(queue, w) \in Seq(Timers)
        /\ Len(Line(queue, w)) = Before(queue, w + 1) - Before(queue, w)
    BY <1>1, <1>2, <2>1, LineLemma
  <2>3. QED
    BY <2>2, EmptySeq
<1>4. QED
  BY <1>1, <1>3 DEF Promise!Init

(* Alarms and EventTimers use the same operator of the library.             *)
LEMMA SameRemoveFirst == \A s, t : Promise!RemoveFirst(s, t) = RemoveFirst(s, t)
<1>1. \A s, i : Promise!RemoveAt(s, i) = RemoveAt(s, i)
  BY DEF Promise!RemoveAt, RemoveAt
<1>2. \A S : Promise!Min(S) = Min(S)
  BY DEF Promise!Min, Min
<1>3. QED
  BY <1>1, <1>2 DEF Promise!RemoveFirst, RemoveFirst, Promise!SelectInSeq, SelectInSeq

LEMMA RefinedStep == QueueInv /\ [Next]_vars => [Promise!Next]_(Promise!vars)
<1> SUFFICES ASSUME QueueInv, [Next]_vars PROVE [Promise!Next]_(Promise!vars)
  OBVIOUS
<1>0. \A w \in 0..Horizon : w \in Int
  BY HorizonLemma
<1>1. ASSUME NEW t \in Timers, event_cancel_timer(t) PROVE Promise!Cancel(t)
  <2>1. \A w \in 0..Horizon : Line(queue', w) = RemoveFirst(Line(queue, w), t)
    BY <1>0, <1>1, CancelLemma
  <2>2. now' = now
    BY <1>1 DEF event_cancel_timer
  <2>3. QED
    BY <2>1, <2>2, SameRemoveFirst DEF Promise!Cancel, Promise!Without
<1>2. ASSUME NEW t \in Timers, NEW d \in Delays, event_request_timer(t, d) PROVE Promise!SetTimer(t, d)
  <2>1. /\ now + d \in 0..Horizon
        /\ \A w \in 0..Horizon : Line(queue', w) =
              IF w = now + d THEN Append(RemoveFirst(Line(queue, w), t), t)
              ELSE RemoveFirst(Line(queue, w), t)
    BY <1>0, <1>2, RequestLemma
  <2>2. now' = now
    BY <1>2 DEF event_request_timer
  <2>3. now + d <= Horizon
    BY <2>1, HorizonLemma
  <2>4. QED
    BY <2>1, <2>2, <2>3, SameRemoveFirst DEF Promise!SetTimer, Promise!Without
<1>3. ASSUME TimerRuns PROVE Promise!GoesOff
  <2> DEFINE v == queue[1].when
  <2>1. /\ v \in 0..now /\ v \in 0..Horizon
        /\ Line(queue, v) # <<>>
        /\ \A w \in 0..v-1 : w \in 0..Horizon /\ Line(queue, w) = <<>>
        /\ \A w \in 0..Horizon : Line(queue', w) = IF w = v THEN Tail(Line(queue, w)) ELSE Line(queue, w)
    <3>1. now <= Horizon /\ now \in Nat /\ Horizon \in Nat
      <4>1. PICK d \in Delays : TRUE
        BY TimersAssumption
      <4>2. QED
        BY <4>1, HorizonLemma, TimersAssumption DEF QueueInv
    <3>2. /\ v \in 0..now
          /\ Line(queue, v) # <<>>
          /\ \A w \in Int : w < v => Line(queue, w) = <<>>
          /\ \A w \in Int : Line(queue', w) = IF w = v THEN Tail(Line(queue, w)) ELSE Line(queue, w)
      BY <1>3, RunLemma
    <3> HIDE DEF v
    <3>3. \A w \in 0..v-1 : w \in 0..Horizon /\ w \in Int /\ w < v
      BY <3>1, <3>2
    <3>4. QED
      BY <1>0, <3>1, <3>2, <3>3
  <2>2. now' = now
    BY <1>3 DEF TimerRuns
  <2> HIDE DEF v
  <2>3. QED
    BY <2>1, <2>2 DEF Promise!GoesOff
<1>4. ASSUME Tick PROVE Promise!Tick
  BY <1>4 DEF Tick, Promise!Tick
<1>5. ASSUME \/ \E delay \in WaitArguments : event_wait(delay)
             \/ PollReturns \/ PollInterrupted \/ CallbackReturns \/ TimersDone \/ UNCHANGED vars
      PROVE  UNCHANGED Promise!vars
  BY <1>5 DEF event_wait, PollReturns, PollInterrupted, CallbackReturns, TimersDone, vars, Promise!vars
<1>6. QED
  BY <1>1, <1>2, <1>3, <1>4, <1>5 DEF Next, LoopStep, Promise!Next

(* The queue of events.c implements Alarms, for every set of timers, all    *)
(* delays and any length of time: no timer goes off early, twice, after it  *)
(* was cancelled or out of turn, whatever callbacks do to the queue while   *)
(* event_wait() runs it, and however stale its cached time is.              *)
THEOREM TimersImplementAlarms == Spec => ImplementsAlarms
<1>1. QueueInv /\ QueueInv' /\ [Next]_vars => [Promise!Next]_(Promise!vars)
  BY RefinedStep
<1>2. QED
  BY <1>1, RefinedInit, QueueIsSorted, PTL DEF Spec, ImplementsAlarms, Promise!Spec
=============================================================================
