---------------------------- MODULE PointerProofs ----------------------------
(***************************************************************************)
(* What the structures made of pointers promise, for any entries: the      *)
(* operations on a ring are operations on a sequence, a hash table holds   *)
(* the entries that were entered, whatever their hash values are, and the  *)
(* manager's memory is that of its services, whatever master.cf says.      *)
(***************************************************************************)
EXTENDS Ring, BinHash, MasterEnt, DataLemmas

(***************************************************************************)
(* Rings.                                                                  *)
(***************************************************************************)
(* The inductive invariant: the head is always linked, so that a linked     *)
(* entry has linked neighbours on both sides.                               *)
RingInv == RingTypeOK /\ PointersAgree /\ head \in Linked

LEMMA HeadIsNoEntry == head # NIL /\ head \notin Entries /\ NIL \notin Entries /\ NIL \notin RINGS
BY RingAssumption DEF RingAssumption, RINGS

(* What is linked has linked neighbours. *)
LEMMA Neighbours ==
    ASSUME RingInv, NEW r \in Linked
    PROVE  /\ ring.succ[r] \in Linked /\ ring.pred[r] \in Linked
           /\ r \in RINGS /\ ring.succ[r] \in RINGS /\ ring.pred[r] \in RINGS
<1>1. r \in RINGS /\ ring.succ[r] # NIL
  BY DEF Linked
<1>2. ring.succ[r] \in RINGS /\ ring.pred[r] \in RINGS \cup {NIL}
  BY <1>1 DEF RingInv, RingTypeOK
<1>3. /\ ring.pred[r] # NIL
      /\ ring.pred[ring.succ[r]] = r /\ ring.succ[ring.pred[r]] = r
  BY <1>1 DEF RingInv, PointersAgree
<1>4. ring.succ[r] \in Linked
  BY <1>1, <1>2, <1>3, HeadIsNoEntry DEF RingInv, PointersAgree
<1>5. ring.pred[r] \in Linked
  BY <1>1, <1>2, <1>3, HeadIsNoEntry DEF Linked
<1> QED BY <1>1, <1>2, <1>3, <1>4, <1>5

LEMMA InitInv == ring_init => RingInv
BY HeadIsNoEntry DEF ring_init, RingInv, RingTypeOK, PointersAgree, Linked, RINGS

(* Linking e between two neighbours, p before and s behind it: what both    *)
(* ring_append() and ring_prepend() come to.                                *)
Between(g, p, s, e) ==
    [succ |-> [r \in RINGS |-> IF r = p THEN e ELSE IF r = e THEN s ELSE g.succ[r]],
     pred |-> [r \in RINGS |-> IF r = s THEN e ELSE IF r = e THEN p ELSE g.pred[r]]]

LEMMA LinkKeepsInv ==
    ASSUME RingInv, NEW p \in Linked, NEW e \in Entries \ Linked,
           ring' = Between(ring, p, ring.succ[p], e)
    PROVE  RingInv'
<1> DEFINE s == ring.succ[p]
<1>1. /\ p \in RINGS /\ s \in RINGS /\ e \in RINGS /\ s \in Linked
      /\ e # p /\ e # s /\ ring.pred[s] = p
  BY Neighbours DEF RINGS, RingInv, PointersAgree, Linked
<1>2. /\ \A r \in RINGS : ring'.succ[r] = IF r = p THEN e ELSE IF r = e THEN s ELSE ring.succ[r]
      /\ \A r \in RINGS : ring'.pred[r] = IF r = s THEN e ELSE IF r = e THEN p ELSE ring.pred[r]
  BY DEF Between
<1>3. RingTypeOK'
  BY <1>1 DEF Between, RingInv, RingTypeOK
<1>4. \A r \in RINGS : r \in Linked' <=> r \in Linked \/ r = e
  BY <1>1, <1>2, HeadIsNoEntry DEF Linked
<1>5. ASSUME NEW r \in RINGS, r \in Linked'
      PROVE  ring'.pred[ring'.succ[r]] = r /\ ring'.succ[ring'.pred[r]] = r
  <2>1. CASE r = e
    BY <1>1, <1>2, <2>1
  <2>2. CASE r # e
    <3>1. r \in Linked
      BY <1>4, <1>5, <2>2
    <3>2. /\ ring.succ[r] \in RINGS /\ ring.pred[r] \in RINGS
          /\ ring.succ[r] \in Linked /\ ring.pred[r] \in Linked
          /\ ring.pred[ring.succ[r]] = r /\ ring.succ[ring.pred[r]] = r
      BY <3>1, Neighbours DEF RingInv, PointersAgree
    <3>3. ring.succ[r] # e /\ ring.pred[r] # e
      BY <3>2
    <3> QED BY <1>1, <1>2, <2>2, <3>2, <3>3
  <2> QED BY <2>1, <2>2
<1>6. ASSUME NEW r \in RINGS
      PROVE  r \in Linked' <=> ring'.pred[r] # NIL
  BY <1>1, <1>2, <1>4, HeadIsNoEntry DEF RingInv, PointersAgree
<1>7. head \in Linked'
  BY <1>4, Neighbours DEF RingInv
<1> QED BY <1>3, <1>5, <1>6, <1>7 DEF RingInv, PointersAgree

LEMMA AppendKeepsInv ==
    ASSUME RingInv, NEW r \in Linked, NEW e \in Entries \ Linked,
           ring' = ring_append(ring, r, e)
    PROVE  RingInv'
<1>1. /\ r \in RINGS /\ e \in RINGS /\ e # r
      /\ ring.succ[r] \in RINGS /\ ring.succ[r] # e
  BY Neighbours DEF RINGS
<1>2. /\ ring = [succ |-> ring.succ, pred |-> ring.pred]
      /\ ring.succ \in [RINGS -> RINGS \cup {NIL}] /\ ring.pred \in [RINGS -> RINGS \cup {NIL}]
  BY DEF RingInv, RingTypeOK
<1>3. ring_append(ring, r, e) =
         [succ |-> [[ring.succ EXCEPT ![e] = ring.succ[r]] EXCEPT ![r] = e],
          pred |-> [[ring.pred EXCEPT ![e] = r] EXCEPT ![ring.succ[r]] = e]]
  BY <1>1, <1>2 DEF ring_append
<1>4. ring_append(ring, r, e) = Between(ring, r, ring.succ[r], e)
  BY <1>1, <1>2, <1>3 DEF Between
<1> QED BY <1>4, LinkKeepsInv

LEMMA PrependKeepsInv ==
    ASSUME RingInv, NEW r \in Linked, NEW e \in Entries \ Linked,
           ring' = ring_prepend(ring, r, e)
    PROVE  RingInv'
<1>1. /\ r \in RINGS /\ e \in RINGS /\ e # r
      /\ ring.pred[r] \in RINGS /\ ring.pred[r] # e
      /\ ring.pred[r] \in Linked /\ ring.succ[ring.pred[r]] = r
  BY Neighbours DEF RINGS, RingInv, PointersAgree
<1>2. /\ ring = [succ |-> ring.succ, pred |-> ring.pred]
      /\ ring.succ \in [RINGS -> RINGS \cup {NIL}] /\ ring.pred \in [RINGS -> RINGS \cup {NIL}]
  BY DEF RingInv, RingTypeOK
<1>3. ring_prepend(ring, r, e) =
         [succ |-> [[ring.succ EXCEPT ![e] = r] EXCEPT ![ring.pred[r]] = e],
          pred |-> [[ring.pred EXCEPT ![e] = ring.pred[r]] EXCEPT ![r] = e]]
  BY <1>1, <1>2 DEF ring_prepend
<1>4. ring_prepend(ring, r, e) = Between(ring, ring.pred[r], r, e)
  BY <1>1, <1>2, <1>3 DEF Between
<1> QED BY <1>1, <1>4, LinkKeepsInv

LEMMA DetachKeepsInv ==
    ASSUME RingInv, NEW e \in Entries \cap Linked,
           ring' = ring_detach(ring, e)
    PROVE  RingInv'
<1> DEFINE s == ring.succ[e]
           p == ring.pred[e]
<1>1. /\ e \in RINGS /\ s \in RINGS /\ p \in RINGS /\ s \in Linked /\ p \in Linked
      /\ ring.pred[s] = e /\ ring.succ[p] = e /\ e # head
  BY Neighbours, HeadIsNoEntry DEF RingInv, PointersAgree
<1>2. /\ ring = [succ |-> ring.succ, pred |-> ring.pred]
      /\ ring.succ \in [RINGS -> RINGS \cup {NIL}] /\ ring.pred \in [RINGS -> RINGS \cup {NIL}]
  BY DEF RingInv, RingTypeOK
<1>3. ring_detach(ring, e) =
         [succ |-> [[ring.succ EXCEPT ![p] = s] EXCEPT ![e] = NIL],
          pred |-> [[ring.pred EXCEPT ![s] = p] EXCEPT ![e] = NIL]]
  BY <1>1, <1>2 DEF ring_detach
<1>4. /\ \A r \in RINGS : ring'.succ[r] = IF r = e THEN NIL ELSE IF r = p THEN s ELSE ring.succ[r]
      /\ \A r \in RINGS : ring'.pred[r] = IF r = e THEN NIL ELSE IF r = s THEN p ELSE ring.pred[r]
  BY <1>1, <1>2, <1>3
<1>5. RingTypeOK'
  BY <1>1, <1>2, <1>3 DEF RingTypeOK
<1>6. \A r \in RINGS : r \in Linked' <=> r \in Linked /\ r # e
  BY <1>1, <1>4, HeadIsNoEntry DEF Linked
<1>7. ASSUME NEW r \in RINGS
      PROVE  r \in Linked' <=> ring'.pred[r] # NIL
  BY <1>1, <1>4, <1>6, HeadIsNoEntry DEF RingInv, PointersAgree
<1>8. ASSUME NEW r \in RINGS, r \in Linked'
      PROVE  ring'.pred[ring'.succ[r]] = r /\ ring'.succ[ring'.pred[r]] = r
  <2>1. r \in Linked /\ r # e
    BY <1>6, <1>8
  <2>2. /\ ring.succ[r] \in RINGS /\ ring.pred[r] \in RINGS
        /\ ring.pred[ring.succ[r]] = r /\ ring.succ[ring.pred[r]] = r
    BY <2>1, Neighbours DEF RingInv, PointersAgree
  <2>3. ring'.pred[ring'.succ[r]] = r
    BY <1>1, <1>4, <2>1, <2>2
  <2>4. ring'.succ[ring'.pred[r]] = r
    BY <1>1, <1>4, <2>1, <2>2
  <2> QED BY <2>3, <2>4
<1>9. head \in Linked'
  BY <1>1, <1>6, Neighbours DEF RingInv
<1> QED BY <1>5, <1>7, <1>8, <1>9 DEF RingInv, PointersAgree

(* The invariant of every ring. *)
THEOREM RingInvariance == RingSpec => []RingInv
<1>1. RingInv /\ [RingNext]_ring => RingInv'
  <2> SUFFICES ASSUME RingInv, [RingNext]_ring PROVE RingInv'
    OBVIOUS
  <2>1. CASE \E r \in Linked, e \in Entries \ Linked : ring' = ring_append(ring, r, e)
    BY <2>1, AppendKeepsInv
  <2>2. CASE \E r \in Linked, e \in Entries \ Linked : ring' = ring_prepend(ring, r, e)
    BY <2>2, PrependKeepsInv
  <2>3. CASE \E e \in Entries \cap Linked : ring' = ring_detach(ring, e)
    BY <2>3, DetachKeepsInv
  <2>4. CASE UNCHANGED ring
    BY <2>4 DEF RingInv, RingTypeOK, PointersAgree, Linked
  <2> QED BY <2>1, <2>2, <2>3, <2>4 DEF RingNext
<1> QED BY InitInv, <1>1, PTL DEF RingSpec

(* The succ and pred pointers of ring.c agree after any sequence of appends, *)
(* prepends and detaches, for any set of entries.                            *)
THEOREM PointersAlwaysAgree == RingSpec => []PointersAgree
BY RingInvariance, PTL DEF RingInv
-----------------------------------------------------------------------------
(* What the pointers lead to, as the sequence s of entries: its places      *)
(* 1 to Len(s) have the head on both sides.                                 *)
Nth(s, i) == IF i \in 1..Len(s) THEN s[i] ELSE head

Follows(g, s) ==
    /\ s \in Seq(Entries)
    /\ \A i, j \in 1..Len(s) : s[i] = s[j] => i = j
    /\ \A r \in RINGS : g.succ[r] # NIL <=> r = head \/ \E i \in 1..Len(s) : s[i] = r
    /\ \A i \in 0..Len(s) : g.succ[Nth(s, i)] = Nth(s, i + 1)

LEMMA NthLemma ==
    ASSUME NEW s \in Seq(Entries), \A i, j \in 1..Len(s) : s[i] = s[j] => i = j
    PROVE  /\ Len(s) \in Nat
           /\ \A i \in 0..Len(s)+1 : Nth(s, i) \in RINGS /\ (Nth(s, i) = head <=> i \notin 1..Len(s))
           /\ \A i, j \in 0..Len(s) : Nth(s, i) = Nth(s, j) => i = j
<1>1. Len(s) \in Nat /\ \A i \in 1..Len(s) : s[i] \in Entries
  BY LenProperties, ElementOfSeq
<1>2. QED
  BY <1>1, HeadIsNoEntry DEF Nth, RINGS

(* The walk from the head meets that sequence.  Its recursion is over the   *)
(* places of s, from the last one back.                                     *)
LEMMA WalkFollows ==
    ASSUME NEW g, NEW s, Follows(g, s)
    PROVE  Walk(g) = s
<1> DEFINE on == {r \in RINGS : g.succ[r] # NIL}
           From(f) == f = [r \in on |-> IF r = head THEN <<>> ELSE <<r>> \o f[g.succ[r]]]
           Place(r) == CHOOSE i \in 1..Len(s) : s[i] = r
           w == [r \in on |-> IF r = head THEN <<>> ELSE SubSeq(s, Place(r), Len(s))]
           walk == CHOOSE f : From(f)
<1>1. /\ s \in Seq(Entries) /\ Len(s) \in Nat
      /\ \A i, j \in 1..Len(s) : s[i] = s[j] => i = j
      /\ \A i \in 1..Len(s) : s[i] \in Entries
      /\ \A i \in 0..Len(s)+1 : Nth(s, i) \in RINGS /\ (Nth(s, i) = head <=> i \notin 1..Len(s))
  BY NthLemma, ElementOfSeq DEF Follows
<1>2. \A r \in RINGS : r \in on <=> r = head \/ \E i \in 1..Len(s) : s[i] = r
  BY DEF Follows
<1>3. \A i \in 0..Len(s)+1 : Nth(s, i) \in on
  BY <1>1, <1>2 DEF Nth
<1>4. \A i \in 0..Len(s) : g.succ[Nth(s, i)] = Nth(s, i + 1)
  BY DEF Follows
<1>5. \A r \in on : r # head => \E i \in 1..Len(s) : r = s[i] /\ r = Nth(s, i) /\ Place(r) = i
  <2> SUFFICES ASSUME NEW r \in on, r # head
               PROVE  \E i \in 1..Len(s) : r = s[i] /\ r = Nth(s, i) /\ Place(r) = i
    OBVIOUS
  <2>1. PICK i \in 1..Len(s) : s[i] = r
    BY <1>2
  <2>2. Place(r) = i
    BY <1>1, <2>1
  <2>3. QED
    BY <2>1, <2>2 DEF Nth
<1>6. \A i \in 1..Len(s)+1 : w[Nth(s, i)] = SubSeq(s, i, Len(s))
  <2> SUFFICES ASSUME NEW i \in 1..Len(s)+1 PROVE w[Nth(s, i)] = SubSeq(s, i, Len(s))
    OBVIOUS
  <2>1. CASE i \in 1..Len(s)
    <3>1. Nth(s, i) = s[i] /\ Nth(s, i) # head /\ Nth(s, i) \in on
      BY <1>1, <1>3, <2>1, HeadIsNoEntry DEF Nth
    <3>2. Place(Nth(s, i)) = i
      BY <1>1, <2>1, <3>1
    <3>3. QED
      BY <3>1, <3>2
  <2>2. CASE i = Len(s) + 1
    <3>1. Nth(s, i) = head /\ head \in on
      BY <1>1, <1>3, <2>2 DEF Nth
    <3>2. SubSeq(s, i, Len(s)) = <<>>
      BY <1>1, <2>2, SubSeqEmpty
    <3>3. QED
      BY <3>1, <3>2
  <2>3. i \in 1..Len(s) \/ i = Len(s) + 1
    BY <1>1
  <2>4. QED
    BY <2>1, <2>2, <2>3
<1>7. From(w)
  <2> SUFFICES ASSUME NEW r \in on, r # head
               PROVE  w[r] = <<r>> \o w[g.succ[r]]
    <3>1. w = [r \in on |-> w[r]] /\ \A r \in on : r = head => w[r] = <<>>
      OBVIOUS
    <3> HIDE DEF w
    <3>2. QED
      BY <3>1
  <2>1. PICK i \in 1..Len(s) : r = s[i] /\ r = Nth(s, i)
    BY <1>5
  <2>2. g.succ[r] = Nth(s, i + 1) /\ i \in 1..Len(s)+1 /\ i + 1 \in 1..Len(s)+1
    BY <1>1, <1>4, <2>1
  <2>3. w[r] = SubSeq(s, i, Len(s)) /\ w[g.succ[r]] = SubSeq(s, i + 1, Len(s))
    BY <1>6, <2>1, <2>2
  <2>4. QED
    BY <1>1, <2>1, <2>3, SubSeqLemma
<1>8. From(walk)
  <2> HIDE DEF From, w
  <2>1. QED
    BY <1>7
<1> DEFINE T == {k \in Nat : \A i \in 1..Len(s)+1 : i + k = Len(s) + 1 =>
                                 walk[Nth(s, i)] = SubSeq(s, i, Len(s))}
<1> HIDE DEF walk, w
<1>9. 0 \in T
  <2>1. Nth(s, Len(s) + 1) = head /\ head \in on
    BY <1>1, <1>3 DEF Nth
  <2>2. walk[head] = <<>>
    BY <1>8, <2>1
  <2>3. SubSeq(s, Len(s) + 1, Len(s)) = <<>>
    BY <1>1, SubSeqEmpty
  <2>4. \A i \in 1..Len(s)+1 : i + 0 = Len(s) + 1 => i = Len(s) + 1
    BY <1>1
  <2>5. QED
    BY <2>1, <2>2, <2>3, <2>4
<1>10. ASSUME NEW k \in Nat, k \in T PROVE k + 1 \in T
  <2> SUFFICES ASSUME NEW i \in 1..Len(s)+1, i + (k + 1) = Len(s) + 1
               PROVE  walk[Nth(s, i)] = SubSeq(s, i, Len(s))
    OBVIOUS
  <2>1. i \in 1..Len(s) /\ i \in 0..Len(s) /\ i + 1 \in 1..Len(s)+1 /\ (i + 1) + k = Len(s) + 1
    BY <1>1
  <2>2. walk[Nth(s, i + 1)] = SubSeq(s, i + 1, Len(s))
    BY <1>1, <1>10, <2>1
  <2>3. Nth(s, i) = s[i] /\ Nth(s, i) \in on /\ Nth(s, i) # head /\ g.succ[Nth(s, i)] = Nth(s, i + 1)
    BY <1>1, <1>3, <1>4, <2>1 DEF Nth
  <2>4. walk[Nth(s, i)] = <<Nth(s, i)>> \o walk[g.succ[Nth(s, i)]]
    BY <1>8, <2>3
  <2>5. SubSeq(s, i, Len(s)) = <<s[i]>> \o SubSeq(s, i + 1, Len(s))
    BY <1>1, <2>1, SubSeqLemma
  <2>6. QED
    BY <2>2, <2>3, <2>4, <2>5
<1>11. Nat \subseteq T
  <2> HIDE DEF T
  <2>1. QED
    BY <1>9, <1>10, SetInduction
<1>12. walk[g.succ[head]] = s
  <2>1. g.succ[head] = Nth(s, 1)
    BY <1>1, <1>4 DEF Nth
  <2>2. walk[Nth(s, 1)] = SubSeq(s, 1, Len(s))
    <3>1. 1 \in 1..Len(s)+1 /\ 1 + Len(s) = Len(s) + 1
      BY <1>1
    <3>2. QED
      BY <1>1, <1>11, <3>1
  <2>3. SubSeq(s, 1, Len(s)) = s
    BY <1>1, SubSeqFull
  <2>4. QED
    BY <2>1, <2>2, <2>3
<1>13. QED
  BY <1>12 DEF Walk, walk

LEMMA FollowsLemma ==
    ASSUME NEW g, NEW s, Follows(g, s)
    PROVE  /\ s \in Seq(Entries) /\ Len(s) \in Nat
           /\ \A i, j \in 1..Len(s) : s[i] = s[j] => i = j
           /\ \A i \in 0..Len(s)+1 : Nth(s, i) \in RINGS /\ (Nth(s, i) = head <=> i \notin 1..Len(s))
           /\ \A i, j \in 0..Len(s) : Nth(s, i) = Nth(s, j) => i = j
           /\ \A r \in RINGS : g.succ[r] # NIL <=> r = head \/ \E i \in 1..Len(s) : s[i] = r
           /\ \A i \in 0..Len(s) : g.succ[Nth(s, i)] = Nth(s, i + 1)
BY NthLemma DEF Follows

(* An entry linked behind place k is at place k + 1.                        *)
LEMMA LinkFollows ==
    ASSUME RingInv, NEW s, Follows(ring, s), NEW k \in 0..Len(s), NEW e \in Entries \ Linked
    PROVE  Follows(Between(ring, Nth(s, k), Nth(s, k + 1), e), InsertAt(s, k + 1, e))
<1> DEFINE g == Between(ring, Nth(s, k), Nth(s, k + 1), e)
           t == InsertAt(s, k + 1, e)
<1>1. /\ s \in Seq(Entries) /\ Len(s) \in Nat /\ k \in Nat
      /\ \A i, j \in 1..Len(s) : s[i] = s[j] => i = j
      /\ \A i \in 0..Len(s)+1 : Nth(s, i) \in RINGS /\ (Nth(s, i) = head <=> i \notin 1..Len(s))
      /\ \A i, j \in 0..Len(s) : Nth(s, i) = Nth(s, j) => i = j
  <2>1. Len(s) \in Nat
    BY FollowsLemma
  <2>2. k \in Nat
    BY <2>1
  <2>3. QED
    BY <2>2, FollowsLemma
<1>2. /\ \A r \in RINGS : ring.succ[r] # NIL <=> r = head \/ \E i \in 1..Len(s) : s[i] = r
      /\ \A i \in 0..Len(s) : ring.succ[Nth(s, i)] = Nth(s, i + 1)
  BY DEF Follows
<1>3. e \in RINGS /\ e # head /\ \A i \in 1..Len(s) : s[i] # e
  BY <1>2, HeadIsNoEntry DEF Linked, RINGS
<1>4. \A i \in 0..Len(s)+1 : Nth(s, i) # e
  BY <1>3 DEF Nth
<1>5. /\ t \in Seq(Entries) /\ Len(t) = Len(s) + 1
      /\ \A i \in 1..Len(s)+1 : t[i] = IF i < k + 1 THEN s[i] ELSE IF i = k + 1 THEN e ELSE s[i - 1]
  <2>1. k + 1 \in 1..Len(s)+1 /\ s \in Seq(Entries) /\ e \in Entries
    BY <1>1
  <2>2. \A m \in 1..Len(s)+1 :
           /\ InsertAt(s, m, e) \in Seq(Entries) /\ Len(InsertAt(s, m, e)) = Len(s) + 1
           /\ \A i \in 1..Len(s)+1 : InsertAt(s, m, e)[i] = IF i < m THEN s[i] ELSE IF i = m THEN e ELSE s[i - 1]
    BY <2>1, InsertAtLemma
  <2>3. QED
    BY <2>1, <2>2
<1>6. \A r \in RINGS : g.succ[r] = IF r = Nth(s, k) THEN e ELSE IF r = e THEN Nth(s, k + 1) ELSE ring.succ[r]
  BY DEF Between
<1> HIDE DEF g, t
<1>7. ASSUME NEW i \in 1..Len(t), NEW j \in 1..Len(t), t[i] = t[j]
      PROVE  i = j
  <2> DEFINE old(x) == IF x < k + 1 THEN x ELSE x - 1
  <2>1. \A x \in 1..Len(t) : IF x = k + 1 THEN t[x] = e ELSE old(x) \in 1..Len(s) /\ t[x] = s[old(x)]
    BY <1>1, <1>5
  <2>2. i = k + 1 <=> j = k + 1
    BY <1>3, <1>7, <2>1
  <2>3. CASE i # k + 1
    <3>1. old(i) = old(j)
      BY <1>1, <1>7, <2>1, <2>2, <2>3
    <3>2. QED
      BY <1>1, <1>5, <2>2, <2>3, <3>1
  <2>4. QED
    BY <2>2, <2>3
<1>8. ASSUME NEW i \in 0..Len(t)+1
      PROVE  Nth(t, i) = IF i <= k THEN Nth(s, i) ELSE IF i = k + 1 THEN e ELSE Nth(s, i - 1)
  BY <1>1, <1>5 DEF Nth
<1>9. ASSUME NEW i \in 0..Len(t)
      PROVE  g.succ[Nth(t, i)] = Nth(t, i + 1)
  <2>1. i \in 0..Len(t)+1 /\ i + 1 \in 0..Len(t)+1 /\ i + 1 - 1 = i
    BY <1>1, <1>5
  <2>2. CASE i < k
    <3>1. i \in 0..Len(s) /\ i # k /\ Nth(t, i) = Nth(s, i) /\ Nth(t, i + 1) = Nth(s, i + 1)
      BY <1>1, <1>8, <2>1, <2>2
    <3>2. Nth(s, i) # Nth(s, k) /\ Nth(s, i) # e /\ Nth(s, i) \in RINGS
      BY <1>1, <1>4, <3>1
    <3>3. QED
      BY <1>2, <1>6, <3>1, <3>2
  <2>3. CASE i = k
    <3>1. Nth(t, i) = Nth(s, k) /\ Nth(t, i + 1) = e /\ Nth(s, k) \in RINGS
      BY <1>1, <1>8, <2>1, <2>3
    <3>2. QED
      BY <1>6, <3>1
  <2>4. CASE i = k + 1
    <3>1. Nth(t, i) = e /\ Nth(t, i + 1) = Nth(s, k + 1) /\ Nth(s, k) # e
      BY <1>1, <1>4, <1>8, <2>1, <2>4
    <3>2. QED
      BY <1>3, <1>6, <3>1
  <2>5. CASE i > k + 1
    <3>1. i - 1 \in 0..Len(s) /\ i - 1 # k /\ i - 1 + 1 = i
      BY <1>1, <1>5, <2>5
    <3>2. Nth(t, i) = Nth(s, i - 1) /\ Nth(t, i + 1) = Nth(s, i)
      BY <1>1, <1>8, <2>1, <2>5
    <3>3. Nth(s, i - 1) # Nth(s, k) /\ Nth(s, i - 1) # e /\ Nth(s, i - 1) \in RINGS
      BY <1>1, <1>4, <3>1
    <3>4. QED
      BY <1>2, <1>6, <3>1, <3>2, <3>3
  <2>6. i < k \/ i = k \/ i = k + 1 \/ i > k + 1
    BY <1>1, <1>5
  <2>7. QED
    BY <2>2, <2>3, <2>4, <2>5, <2>6
<1>10. ASSUME NEW r \in RINGS
       PROVE  g.succ[r] # NIL <=> r = head \/ \E i \in 1..Len(t) : t[i] = r
  <2>1. g.succ[r] # NIL <=> r = e \/ ring.succ[r] # NIL
    <3>1. Nth(s, k) \in RINGS /\ Nth(s, k + 1) \in RINGS /\ ring.succ[Nth(s, k)] # NIL
      BY <1>1, <1>2, HeadIsNoEntry
    <3>2. e # NIL /\ Nth(s, k + 1) # NIL
      BY <1>3, <3>1, HeadIsNoEntry
    <3>3. QED
      BY <1>6, <3>1, <3>2
  <2>2. ASSUME NEW i \in 1..Len(s), s[i] = r PROVE \E j \in 1..Len(t) : t[j] = r
    <3>1. (i < k + 1 => t[i] = r /\ i \in 1..Len(t)) /\ (i >= k + 1 => t[i + 1] = s[i + 1 - 1] /\ i + 1 - 1 = i /\ i + 1 \in 1..Len(t))
      BY <1>1, <1>5, <2>2
    <3>2. i < k + 1 \/ i >= k + 1
      BY <1>1
    <3>3. QED
      BY <2>2, <3>1, <3>2
  <2>3. t[k + 1] = e /\ k + 1 \in 1..Len(t)
    BY <1>1, <1>5
  <2>4. ASSUME NEW j \in 1..Len(t), t[j] = r, r # e PROVE \E i \in 1..Len(s) : s[i] = r
    <3>1. (j < k + 1 => s[j] = r /\ j \in 1..Len(s)) /\ (j > k + 1 => s[j - 1] = r /\ j - 1 \in 1..Len(s)) /\ j # k + 1
      BY <1>1, <1>5, <2>4
    <3>2. j < k + 1 \/ j > k + 1 \/ j = k + 1
      BY <1>1, <1>5
    <3>3. QED
      BY <3>1, <3>2
  <2>5. QED
    BY <1>2, <2>1, <2>2, <2>3, <2>4
<1>11. Follows(g, t)
  BY <1>5, <1>7, <1>9, <1>10 DEF Follows
<1>12. QED
  BY <1>11 DEF g, t

(* An entry that is detached is missing, and nothing else changes place.    *)
LEMMA DetachFollows ==
    ASSUME RingInv, NEW s, Follows(ring, s), NEW k \in 1..Len(s)
    PROVE  Follows(ring_detach(ring, s[k]), RemoveAt(s, k))
<1> DEFINE e == s[k]
           g == ring_detach(ring, e)
           t == RemoveAt(s, k)
<1>1. /\ s \in Seq(Entries) /\ Len(s) \in Nat /\ k \in Nat /\ k \in 1..Len(s)
      /\ \A i, j \in 1..Len(s) : s[i] = s[j] => i = j
      /\ \A i \in 0..Len(s)+1 : Nth(s, i) \in RINGS /\ (Nth(s, i) = head <=> i \notin 1..Len(s))
      /\ \A i, j \in 0..Len(s) : Nth(s, i) = Nth(s, j) => i = j
  <2>1. Len(s) \in Nat
    BY FollowsLemma
  <2>2. k \in Nat
    BY <2>1
  <2>3. QED
    BY <2>2, FollowsLemma
<1>2. /\ \A r \in RINGS : ring.succ[r] # NIL <=> r = head \/ \E i \in 1..Len(s) : s[i] = r
      /\ \A i \in 0..Len(s) : ring.succ[Nth(s, i)] = Nth(s, i + 1)
  BY DEF Follows
<1>3. /\ t \in Seq(Entries) /\ Len(t) = Len(s) - 1
      /\ \A i \in 1..Len(s)-1 : t[i] = IF i < k THEN s[i] ELSE s[i + 1]
  BY <1>1, RemoveAtLemma
<1>4. /\ e = Nth(s, k) /\ e \in RINGS /\ e # head
      /\ ring.succ[e] = Nth(s, k + 1) /\ ring.pred[e] = Nth(s, k - 1)
  <2>1. e = Nth(s, k) /\ e \in RINGS /\ e # head /\ ring.succ[e] = Nth(s, k + 1)
    BY <1>1, <1>2 DEF Nth
  <2>2. k - 1 \in 0..Len(s) /\ k - 1 + 1 = k
    BY <1>1
  <2>3. ring.succ[Nth(s, k - 1)] = e /\ Nth(s, k - 1) \in RINGS
    BY <1>1, <1>2, <2>1, <2>2
  <2>4. Nth(s, k - 1) \in Linked
    BY <2>1, <2>3, HeadIsNoEntry DEF Linked
  <2>5. ring.pred[ring.succ[Nth(s, k - 1)]] = Nth(s, k - 1)
    BY <2>3, <2>4 DEF RingInv, PointersAgree
  <2>6. QED
    BY <2>1, <2>3, <2>5
<1>5. \A r \in RINGS : g.succ[r] = IF r = e THEN NIL ELSE IF r = Nth(s, k - 1) THEN Nth(s, k + 1) ELSE ring.succ[r]
  <2>1. ring.succ \in [RINGS -> RINGS \cup {NIL}] /\ Nth(s, k - 1) \in RINGS
    BY <1>1 DEF RingInv, RingTypeOK
  <2>2. g.succ = [[ring.succ EXCEPT ![Nth(s, k - 1)] = Nth(s, k + 1)] EXCEPT ![e] = NIL]
    BY <1>4 DEF ring_detach
  <2>3. QED
    BY <1>4, <2>1, <2>2
<1> HIDE DEF e, g, t
<1>6. ASSUME NEW i \in 1..Len(t), NEW j \in 1..Len(t), t[i] = t[j]
      PROVE  i = j
  <2> DEFINE old(x) == IF x < k THEN x ELSE x + 1
  <2>1. \A x \in 1..Len(t) : old(x) \in 1..Len(s) /\ t[x] = s[old(x)]
    BY <1>1, <1>3
  <2>2. old(i) = old(j)
    BY <1>1, <1>6, <2>1
  <2>3. QED
    BY <1>1, <1>3, <2>2
<1>7. ASSUME NEW i \in 0..Len(t)+1
      PROVE  Nth(t, i) = IF i < k THEN Nth(s, i) ELSE Nth(s, i + 1)
  BY <1>1, <1>3 DEF Nth
<1>8. ASSUME NEW i \in 0..Len(t)
      PROVE  g.succ[Nth(t, i)] = Nth(t, i + 1)
  <2>1. i \in 0..Len(t)+1 /\ i + 1 \in 0..Len(t)+1
    BY <1>1, <1>3
  <2>2. CASE i < k - 1
    <3>1. i \in 0..Len(s) /\ Nth(t, i) = Nth(s, i) /\ Nth(t, i + 1) = Nth(s, i + 1) /\ k - 1 \in 0..Len(s) /\ k \in 0..Len(s)
      BY <1>1, <1>3, <1>7, <2>1, <2>2
    <3>2. Nth(s, i) # e /\ Nth(s, i) # Nth(s, k - 1) /\ Nth(s, i) \in RINGS
      BY <1>1, <1>4, <2>2, <3>1
    <3>3. QED
      BY <1>2, <1>5, <3>1, <3>2
  <2>3. CASE i = k - 1
    <3>1. Nth(t, i) = Nth(s, k - 1) /\ Nth(t, i + 1) = Nth(s, k + 1) /\ k - 1 \in 0..Len(s) /\ k \in 0..Len(s)
      BY <1>1, <1>3, <1>7, <2>1, <2>3
    <3>2. Nth(s, k - 1) # e /\ Nth(s, k - 1) \in RINGS
      BY <1>1, <1>4, <3>1
    <3>3. QED
      BY <1>5, <3>1, <3>2
  <2>4. CASE i > k - 1
    <3>1. /\ i + 1 \in 0..Len(s) /\ Nth(t, i) = Nth(s, i + 1) /\ Nth(t, i + 1) = Nth(s, i + 1 + 1)
          /\ k - 1 \in 0..Len(s) /\ k \in 0..Len(s) /\ i + 1 # k /\ i + 1 # k - 1
      BY <1>1, <1>3, <1>7, <2>1, <2>4
    <3>2. Nth(s, i + 1) # e /\ Nth(s, i + 1) # Nth(s, k - 1) /\ Nth(s, i + 1) \in RINGS
      BY <1>1, <1>4, <3>1
    <3>3. QED
      BY <1>2, <1>5, <3>1, <3>2
  <2>5. i < k - 1 \/ i = k - 1 \/ i > k - 1
    BY <1>1, <1>3
  <2>6. QED
    BY <2>2, <2>3, <2>4, <2>5
<1>9. ASSUME NEW r \in RINGS
      PROVE  g.succ[r] # NIL <=> r = head \/ \E i \in 1..Len(t) : t[i] = r
  <2>1. g.succ[r] # NIL <=> r # e /\ ring.succ[r] # NIL
    <3>1. k - 1 \in 0..Len(s) /\ k - 1 \in 0..Len(s)+1 /\ k + 1 \in 0..Len(s)+1
      BY <1>1
    <3>2. Nth(s, k - 1) \in RINGS /\ Nth(s, k + 1) \in RINGS
      BY <1>1, <3>1
    <3>3. ring.succ[Nth(s, k - 1)] # NIL
      BY <1>1, <1>2, <3>1, <3>2, HeadIsNoEntry DEF Nth
    <3>4. QED
      BY <1>5, <3>2, <3>3, HeadIsNoEntry
  <2>2. ASSUME NEW i \in 1..Len(s), s[i] = r, r # e PROVE \E j \in 1..Len(t) : t[j] = r
    <3>1. i # k
      BY <2>2 DEF e
    <3>2. (i < k => t[i] = r /\ i \in 1..Len(t)) /\ (i > k => t[i - 1] = s[i - 1 + 1] /\ i - 1 + 1 = i /\ i - 1 \in 1..Len(t))
      BY <1>1, <1>3, <2>2
    <3>3. i < k \/ i > k
      BY <1>1, <3>1
    <3>4. QED
      BY <2>2, <3>2, <3>3
  <2>3. ASSUME NEW j \in 1..Len(t), t[j] = r PROVE r # e /\ \E i \in 1..Len(s) : s[i] = r
    <3>1. (j < k => s[j] = r /\ j \in 1..Len(s)) /\ (j >= k => s[j + 1] = r /\ j + 1 \in 1..Len(s))
      BY <1>1, <1>3, <2>3
    <3>2. j < k \/ j >= k
      BY <1>1, <1>3
    <3>3. (j < k => r # e) /\ (j >= k => r # e)
      BY <1>1, <3>1 DEF e
    <3>4. QED
      BY <3>1, <3>2, <3>3
  <2>4. QED
    BY <1>2, <1>4, <2>1, <2>2, <2>3
<1>10. Follows(g, t)
  BY <1>3, <1>6, <1>8, <1>9 DEF Follows
<1>11. QED
  BY <1>10 DEF e, g, t
-----------------------------------------------------------------------------
(* Everything that is linked is on the way from the head: the invariant     *)
(* that makes the walk a sequence.  PointersAgree alone would let entries   *)
(* point at each other in a ring without a head.                            *)
WalkInv == RingInv /\ \E s \in Seq(Entries) : Follows(ring, s)

\* Where ring_append() and ring_prepend() link an entry, as in the lemmas above.
LEMMA AppendIsBetween ==
    ASSUME RingInv, NEW s, Follows(ring, s), NEW k \in 0..Len(s), NEW e \in Entries \ Linked
    PROVE  ring_append(ring, Nth(s, k), e) = Between(ring, Nth(s, k), Nth(s, k + 1), e)
<1> DEFINE r == Nth(s, k)
<1>1. /\ r \in RINGS /\ ring.succ[r] = Nth(s, k + 1) /\ Nth(s, k + 1) \in RINGS
  <2>1. Len(s) \in Nat
    BY FollowsLemma
  <2>2. k \in 0..Len(s)+1 /\ k + 1 \in 0..Len(s)+1
    BY <2>1
  <2>3. QED
    BY <2>2, FollowsLemma
<1>2. r \in Linked
  BY <1>1, HeadIsNoEntry DEF Linked
<1>3. /\ e \in RINGS /\ e # r /\ ring.succ[r] # e
  BY <1>1, <1>2, Neighbours DEF RINGS
<1>4. /\ ring = [succ |-> ring.succ, pred |-> ring.pred]
      /\ ring.succ \in [RINGS -> RINGS \cup {NIL}] /\ ring.pred \in [RINGS -> RINGS \cup {NIL}]
  BY DEF RingInv, RingTypeOK
<1> HIDE DEF r
<1>5. ring_append(ring, r, e) =
         [succ |-> [[ring.succ EXCEPT ![e] = ring.succ[r]] EXCEPT ![r] = e],
          pred |-> [[ring.pred EXCEPT ![e] = r] EXCEPT ![ring.succ[r]] = e]]
  BY <1>1, <1>3, <1>4 DEF ring_append
<1>6. ring_append(ring, r, e) = Between(ring, r, ring.succ[r], e)
  BY <1>1, <1>3, <1>4, <1>5 DEF Between
<1>7. QED
  BY <1>1, <1>6 DEF r

LEMMA PrependIsBetween ==
    ASSUME RingInv, NEW s, Follows(ring, s), NEW k \in 0..Len(s), NEW e \in Entries \ Linked
    PROVE  ring_prepend(ring, Nth(s, k + 1), e) = Between(ring, Nth(s, k), Nth(s, k + 1), e)
<1> DEFINE r == Nth(s, k + 1)
           p == Nth(s, k)
<1>1. p \in RINGS /\ ring.succ[p] = r /\ r \in RINGS
  <2>1. Len(s) \in Nat
    BY FollowsLemma
  <2>2. k \in 0..Len(s)+1 /\ k + 1 \in 0..Len(s)+1
    BY <2>1
  <2>3. QED
    BY <2>2, FollowsLemma
<1> HIDE DEF r, p
<1>2. p \in Linked
  BY <1>1, HeadIsNoEntry DEF Linked
<1>3. ring.pred[r] = p /\ r \in Linked
  BY <1>1, <1>2, Neighbours DEF RingInv, PointersAgree
<1>4. e \in RINGS /\ e # r /\ e # p
  BY <1>2, <1>3 DEF RINGS
<1>5. /\ ring = [succ |-> ring.succ, pred |-> ring.pred]
      /\ ring.succ \in [RINGS -> RINGS \cup {NIL}] /\ ring.pred \in [RINGS -> RINGS \cup {NIL}]
  BY DEF RingInv, RingTypeOK
<1>6. ring_prepend(ring, r, e) =
         [succ |-> [[ring.succ EXCEPT ![e] = r] EXCEPT ![p] = e],
          pred |-> [[ring.pred EXCEPT ![e] = p] EXCEPT ![r] = e]]
  BY <1>1, <1>3, <1>4, <1>5 DEF ring_prepend
<1>7. ring_prepend(ring, r, e) = Between(ring, p, r, e)
  BY <1>1, <1>3, <1>4, <1>5, <1>6 DEF Between
<1>8. QED
  BY <1>7 DEF r, p

(* What is linked has a place: the head before the first entry and behind   *)
(* the last one, an entry the place where it is.                            *)
LEMMA PlaceOf ==
    ASSUME RingInv, NEW s, Follows(ring, s), NEW r \in Linked
    PROVE  /\ \E k \in 0..Len(s) : r = Nth(s, k) /\ k = (IF r = head THEN 0 ELSE Position(s, r))
           /\ \E k \in 0..Len(s) : r = Nth(s, k + 1) /\ k + 1 = Position(s, r)
           /\ r # head => Position(s, r) \in 1..Len(s) /\ s[Position(s, r)] = r
<1>1. /\ s \in Seq(Entries) /\ Len(s) \in Nat
      /\ \A i, j \in 1..Len(s) : s[i] = s[j] => i = j
      /\ r = head \/ \E i \in 1..Len(s) : s[i] = r
  BY FollowsLemma DEF Linked
<1>2. CASE r = head
  <2>1. 0 \in 0..Len(s) /\ Len(s) \in 0..Len(s) /\ Nth(s, 0) = head /\ Nth(s, Len(s) + 1) = head
    BY <1>1 DEF Nth
  <2>2. Position(s, r) = Len(s) + 1
    BY <1>2 DEF Position
  <2>3. QED
    BY <1>2, <2>1, <2>2
<1>3. CASE r # head
  <2>1. PICK k \in 1..Len(s) : s[k] = r
    BY <1>1, <1>3
  <2> DEFINE I == {i \in 1..Len(s) : s[i] = r}
  <2>2. Min(I) = k
    <3>1. I \in SUBSET Nat /\ I # {} /\ \A i \in I : i = k
      BY <1>1, <2>1
    <3> HIDE DEF I
    <3>2. QED
      BY <3>1, MinLemma
  <2>3. Position(s, r) = k
    BY <1>3, <2>1, <2>2 DEF Position, SelectInSeq
  <2>4. k \in 0..Len(s) /\ k - 1 \in 0..Len(s) /\ k - 1 + 1 = k /\ Nth(s, k) = r
    BY <1>1, <2>1 DEF Nth
  <2>5. QED
    BY <1>3, <2>1, <2>3, <2>4
<1>4. QED
  BY <1>2, <1>3

LEMMA AppendWalk ==
    ASSUME RingInv, NEW s, Follows(ring, s), NEW r \in Linked, NEW e \in Entries \ Linked
    PROVE  Follows(ring_append(ring, r, e), InsertAt(s, IF r = head THEN 1 ELSE Position(s, r) + 1, e))
<1>1. PICK k \in 0..Len(s) : r = Nth(s, k) /\ k = (IF r = head THEN 0 ELSE Position(s, r))
  BY PlaceOf
<1>2. (IF r = head THEN 1 ELSE Position(s, r) + 1) = k + 1
  BY <1>1
<1>3. Follows(ring_append(ring, r, e), InsertAt(s, k + 1, e))
  BY <1>1, AppendIsBetween, LinkFollows
<1>4. QED
  BY <1>2, <1>3

LEMMA PrependWalk ==
    ASSUME RingInv, NEW s, Follows(ring, s), NEW r \in Linked, NEW e \in Entries \ Linked
    PROVE  Follows(ring_prepend(ring, r, e), InsertAt(s, Position(s, r), e))
<1>1. PICK k \in 0..Len(s) : r = Nth(s, k + 1) /\ k + 1 = Position(s, r)
  BY PlaceOf
<1>2. Follows(ring_prepend(ring, r, e), InsertAt(s, k + 1, e))
  BY <1>1, PrependIsBetween, LinkFollows
<1>3. QED
  BY <1>1, <1>2

LEMMA DetachWalk ==
    ASSUME RingInv, NEW s, Follows(ring, s), NEW e \in Entries \cap Linked
    PROVE  Follows(ring_detach(ring, e), RemoveFirst(s, e))
<1>1. e # head
  BY HeadIsNoEntry
<1>2. PICK k \in 1..Len(s) : s[k] = e
  BY <1>1, PlaceOf
<1>3. /\ s \in Seq(Entries)
      /\ \A i \in 1..Len(s) : s[i] = e => i = k
  BY <1>2, FollowsLemma
<1>4. RemoveFirst(s, e) = RemoveAt(s, k)
  BY <1>2, <1>3, RemoveFirstLemma
<1>5. QED
  BY <1>2, <1>4, DetachFollows

LEMMA WalkInvInit == ring_init => WalkInv
<1> SUFFICES ASSUME ring_init PROVE WalkInv
  OBVIOUS
<1>1. <<>> \in Seq(Entries) /\ Len(<<>>) = 0
  BY EmptySeq
<1>2. \A i \in 0..1 : Nth(<<>>, i) = head
  BY <1>1 DEF Nth
<1>3. Follows(ring, <<>>)
  BY <1>1, <1>2, HeadIsNoEntry DEF Follows, ring_init, RINGS
<1>4. QED
  BY <1>1, <1>3, InitInv DEF WalkInv

(* A ring of ring.c is always a walk from its head along some sequence of   *)
(* entries and back, with nothing linked beside it.                         *)
THEOREM WalkInvariance == RingSpec => []WalkInv
<1>1. WalkInv /\ [RingNext]_ring => WalkInv'
  <2> SUFFICES ASSUME WalkInv, [RingNext]_ring PROVE WalkInv'
    OBVIOUS
  <2>1. PICK s \in Seq(Entries) : Follows(ring, s)
    BY DEF WalkInv
  <2>2. RingInv
    BY DEF WalkInv
  <2>3. RingInv'
    BY <2>2, AppendKeepsInv, PrependKeepsInv, DetachKeepsInv
       DEF RingNext, RingInv, RingTypeOK, PointersAgree, Linked
  <2>4. \E t : Follows(ring', t)
    <3>1. ASSUME NEW r \in Linked, NEW e \in Entries \ Linked, ring' = ring_append(ring, r, e)
          PROVE  \E t : Follows(ring', t)
      BY <2>1, <2>2, <3>1, AppendWalk
    <3>2. ASSUME NEW r \in Linked, NEW e \in Entries \ Linked, ring' = ring_prepend(ring, r, e)
          PROVE  \E t : Follows(ring', t)
      BY <2>1, <2>2, <3>2, PrependWalk
    <3>3. ASSUME NEW e \in Entries \cap Linked, ring' = ring_detach(ring, e)
          PROVE  \E t : Follows(ring', t)
      BY <2>1, <2>2, <3>3, DetachWalk
    <3>4. CASE UNCHANGED ring
      BY <2>1, <3>4
    <3>5. QED
      BY <3>1, <3>2, <3>3, <3>4 DEF RingNext
  <2>5. \E t \in Seq(Entries) : Follows(ring', t)
    BY <2>4 DEF Follows
  <2>6. QED
    BY <2>3, <2>5 DEF WalkInv
<1> QED BY WalkInvInit, <1>1, PTL DEF RingSpec

(* ring.c keeps sequences for any set of entries: a walk from the head meets *)
(* what is linked, once each, ring_append() and ring_prepend() insert where  *)
(* their callers mean and ring_detach() removes one entry.                   *)
THEOREM RingsAreSequences == RingSpec => []OperationsOnSequences
<1>1. WalkInv => OperationsOnSequences
  <2> SUFFICES ASSUME WalkInv PROVE OperationsOnSequences
    OBVIOUS
  <2>1. RingInv
    BY DEF WalkInv
  <2>2. PICK s \in Seq(Entries) : Follows(ring, s)
    BY DEF WalkInv
  <2>3. Walk(ring) = s
    BY <2>2, WalkFollows
  <2>4. ToSet(s) = Linked \ {head} /\ IsInjective(s)
    <3>1. DOMAIN s = 1..Len(s) /\ \A i \in 1..Len(s) : s[i] \in Entries
      BY <2>2, LenProperties, ElementOfSeq
    <3>2. IsInjective(s)
      BY <2>2, <3>1 DEF IsInjective, Follows
    <3>3. \A r : r \in ToSet(s) <=> r \in Linked /\ r # head
      BY <2>2, <3>1, HeadIsNoEntry DEF ToSet, Follows, Linked, RINGS
    <3>4. QED
      BY <3>2, <3>3
  <2>5. ASSUME NEW r \in Linked, NEW e \in Entries \ Linked
        PROVE  /\ Walk(ring_prepend(ring, r, e)) = InsertAt(s, Position(s, r), e)
               /\ Walk(ring_append(ring, r, e)) =
                     InsertAt(s, IF r = head THEN 1 ELSE Position(s, r) + 1, e)
    <3>1. Walk(ring_prepend(ring, r, e)) = InsertAt(s, Position(s, r), e)
      BY <2>1, <2>2, PrependWalk, WalkFollows
    <3>2. Walk(ring_append(ring, r, e)) = InsertAt(s, IF r = head THEN 1 ELSE Position(s, r) + 1, e)
      BY <2>1, <2>2, AppendWalk, WalkFollows
    <3>3. QED
      BY <3>1, <3>2
  <2>6. ASSUME NEW e \in Linked \ {head}
        PROVE  Walk(ring_detach(ring, e)) = RemoveFirst(s, e)
    <3>1. e \in Entries \cap Linked
      BY DEF Linked, RINGS
    <3>2. QED
      BY <2>1, <2>2, <3>1, DetachWalk, WalkFollows
  <2>7. QED
    BY <2>3, <2>4, <2>5, <2>6 DEF OperationsOnSequences
<1> QED BY WalkInvariance, <1>1, PTL
-----------------------------------------------------------------------------
(***************************************************************************)
(* Hash tables.                                                            *)
(***************************************************************************)
Places == Nodes \cup {NULL}
Infos == [key : Keys, value : Values]

\* Tables of size n.
TablesOf(n) == [size : {n}, used : Nat, data : [0..n-1 -> Places],
                next : [Nodes -> Places], prev : [Nodes -> Places]]

Tables == UNION {TablesOf(n) : n \in Nat \ {0}}

\* The entry at place j of a chain; there is none before and behind it.
At(s, j) == IF j \in 1..Len(s) THEN s[j] ELSE NULL

\* The pointers of the entries of s connect them, from n on, each once.
Leads(t, n, s) ==
    /\ n = At(s, 1)
    /\ \A j \in 1..Len(s) : t.next[s[j]] = At(s, j + 1) /\ t.prev[s[j]] = At(s, j - 1)
    /\ \A i, j \in 1..Len(s) : s[i] = s[j] => i = j

\* The chains c of table t hold the entries E, each in the slot of its key.
Chained(t, c, E, f) ==
    /\ E \in SUBSET Nodes
    /\ \A e \in E : f[e] \in Infos
    /\ c \in [0..t.size-1 -> Seq(E)]
    /\ \A i \in 0..t.size-1 : Leads(t, t.data[i], c[i])
    /\ \A i \in 0..t.size-1 : \A j \in 1..Len(c[i]) : Slot(t, f[c[i][j]].key) = i
    /\ \A e \in E : \E j \in 1..Len(c[Slot(t, f[e].key)]) : c[Slot(t, f[e].key)][j] = e

(* No entry, no value and no pair of a key and a value is NULL.              *)
LEMMA NullLemma == NULL \notin Nodes /\ NULL \notin Values /\ NULL \notin Infos /\ Hash \in [Keys -> Nat]
BY BinHashAssumption DEF Infos

(* A key has a slot in a table of any size.                                 *)
LEMMA SlotLemma ==
    ASSUME NEW t, t.size \in Nat \ {0}, NEW k \in Keys
    PROVE  Slot(t, k) \in 0..t.size-1
<1>1. Hash[k] \in Nat
  BY BinHashAssumption
<1>2. QED
  BY <1>1 DEF Slot

(* The fields of a table.                                                   *)
LEMMA TableLemma ==
    ASSUME NEW t \in Tables
    PROVE  /\ t.size \in Nat \ {0} /\ t.used \in Nat
           /\ t.data \in [0..t.size-1 -> Places]
           /\ t.next \in [Nodes -> Places] /\ t.prev \in [Nodes -> Places]
           /\ t \in TablesOf(t.size)
BY DEF Tables, TablesOf

LEMMA TablesLemma ==
    ASSUME NEW n \in Nat \ {0}, NEW t \in TablesOf(n)
    PROVE  t \in Tables
BY DEF Tables

(* The place of an entry in a sequence without repetitions.                 *)
LEMMA AtLemma ==
    ASSUME NEW E \in SUBSET Nodes, NEW s \in Seq(E), \A i, j \in 1..Len(s) : s[i] = s[j] => i = j
    PROVE  /\ Len(s) \in Nat
           /\ \A j \in 1..Len(s) : s[j] \in E /\ s[j] \in Nodes
           /\ \A j \in Int : At(s, j) = NULL <=> j \notin 1..Len(s)
           /\ \A j \in Int : \A k \in 1..Len(s) : s[k] = At(s, j) <=> j = k
           /\ \A j \in Int : At(s, j) \in E \cup {NULL}
<1>1. Len(s) \in Nat /\ \A j \in 1..Len(s) : s[j] \in E
  BY LenProperties, ElementOfSeq
<1>2. QED
  BY <1>1, NullLemma DEF At

(* What binhash_link() stores.                                              *)
LEMMA LinkType ==
    ASSUME NEW t \in Tables, NEW e \in Nodes, NEW k \in Keys
    PROVE  LET u == binhash_link(t, e, k)
               i == Slot(t, k)
           IN  /\ u \in Tables /\ u.size = t.size /\ u.used = t.used + 1
               /\ u.data = [t.data EXCEPT ![i] = e]
               /\ u.next = [t.next EXCEPT ![e] = t.data[i]]
               /\ u.prev = [n \in Nodes |-> IF n = e THEN NULL
                                            ELSE IF n = t.data[i] THEN e ELSE t.prev[n]]
<1> DEFINE i == Slot(t, k)
           data == [t.data EXCEPT ![i] = e]
           next == [t.next EXCEPT ![e] = t.data[i]]
           prev == [n \in Nodes |-> IF n = e THEN NULL ELSE IF n = t.data[i] THEN e ELSE t.prev[n]]
           u == [size |-> t.size, used |-> t.used + 1, data |-> data, next |-> next, prev |-> prev]
<1>1. i \in 0..t.size-1 /\ t.size \in Nat \ {0} /\ t.used \in Nat
      /\ t.data \in [0..t.size-1 -> Places] /\ t.next \in [Nodes -> Places]
      /\ t.prev \in [Nodes -> Places] /\ e \in Places /\ NULL \in Places
  BY TableLemma, SlotLemma DEF Places
<1>2. t.data[i] \in Places
  BY <1>1
<1>3. data \in [0..t.size-1 -> Places] /\ next \in [Nodes -> Places]
  BY <1>1, <1>2
<1>4. prev \in [Nodes -> Places]
  BY <1>1
<1>5. binhash_link(t, e, k) = u
  <2>1. t = [size |-> t.size, used |-> t.used, data |-> t.data, next |-> t.next, prev |-> t.prev]
    BY TableLemma DEF TablesOf
  <2>2. binhash_link(t, e, k) = [t EXCEPT !.data = data, !.used = t.used + 1, !.next = next, !.prev = prev]
    BY DEF binhash_link
  <2> HIDE DEF data, next, prev
  <2>3. QED
    BY <2>1, <2>2
<1> HIDE DEF data, next, prev
<1>6. u \in Tables
  <2>1. u \in TablesOf(t.size)
    BY <1>1, <1>3, <1>4 DEF TablesOf
  <2>2. QED
    BY <1>1, <2>1, TablesLemma
<1>7. QED
  BY <1>5, <1>6 DEF data, next, prev, i

(* No next pointer but that of the entry itself changes.                    *)
LEMMA LinkNext ==
    ASSUME NEW t \in Tables, NEW e \in Nodes, NEW k \in Keys
    PROVE  /\ binhash_link(t, e, k) \in Tables
           /\ binhash_link(t, e, k).size = t.size
           /\ binhash_link(t, e, k).used = t.used + 1
           /\ \A m \in Nodes : m # e => binhash_link(t, e, k).next[m] = t.next[m]
<1> DEFINE u == binhash_link(t, e, k)
           i == Slot(t, k)
<1>1. /\ u \in Tables /\ u.size = t.size /\ u.used = t.used + 1
      /\ u.data = [t.data EXCEPT ![i] = e]
      /\ u.next = [t.next EXCEPT ![e] = t.data[i]]
      /\ u.prev = [n \in Nodes |-> IF n = e THEN NULL
                                   ELSE IF n = t.data[i] THEN e ELSE t.prev[n]]
  BY LinkType
<1>2. t.next \in [Nodes -> Places]
  BY TableLemma
<1> HIDE DEF u, i
<1>3. \A m \in Nodes : m # e => u.next[m] = t.next[m]
  BY <1>1, <1>2
<1>4. QED
  BY <1>1, <1>3 DEF u

(* A chain with its slot's facts, for one slot.                             *)
LEMMA ChainedLemma ==
    ASSUME NEW t \in Tables, NEW c, NEW E, NEW f, Chained(t, c, E, f), NEW i \in 0..t.size-1
    PROVE  /\ c[i] \in Seq(E) /\ Len(c[i]) \in Nat
           /\ \A j \in 1..Len(c[i]) : /\ c[i][j] \in E /\ c[i][j] \in Nodes
                                      /\ f[c[i][j]] \in Infos /\ f[c[i][j]].key \in Keys
                                      /\ Slot(t, f[c[i][j]].key) = i
           /\ t.data[i] = At(c[i], 1)
           /\ \A j \in 1..Len(c[i]) : /\ t.next[c[i][j]] = At(c[i], j + 1)
                                      /\ t.prev[c[i][j]] = At(c[i], j - 1)
           /\ \A j, k \in 1..Len(c[i]) : c[i][j] = c[i][k] => j = k
           /\ \A j \in Int : At(c[i], j) = NULL <=> j \notin 1..Len(c[i])
           /\ \A j \in Int : \A k \in 1..Len(c[i]) : c[i][k] = At(c[i], j) <=> j = k
<1>1. c[i] \in Seq(E) /\ Len(c[i]) \in Nat /\ E \in SUBSET Nodes
  BY LenProperties DEF Chained
<1>2. \A j \in 1..Len(c[i]) : c[i][j] \in E /\ c[i][j] \in Nodes
  BY <1>1, ElementOfSeq
<1>3. Leads(t, t.data[i], c[i]) /\ \A j \in 1..Len(c[i]) : Slot(t, f[c[i][j]].key) = i
  BY DEF Chained
<1>4. \A e \in E : f[e] \in Infos /\ f[e].key \in Keys
  BY DEF Chained, Infos
<1>5. \A j, k \in 1..Len(c[i]) : c[i][j] = c[i][k] => j = k
  BY <1>3 DEF Leads
<1>6. /\ \A j \in Int : At(c[i], j) = NULL <=> j \notin 1..Len(c[i])
      /\ \A j \in Int : \A k \in 1..Len(c[i]) : c[i][k] = At(c[i], j) <=> j = k
  BY <1>1, <1>5, AtLemma
<1>7. QED
  BY <1>1, <1>2, <1>3, <1>4, <1>5, <1>6 DEF Leads

(* The entries of a chain, and their order.                                 *)
LEMMA ChainedElements ==
    ASSUME NEW t \in Tables, NEW c, NEW E, NEW f, Chained(t, c, E, f), NEW i \in 0..t.size-1
    PROVE  /\ c[i] \in Seq(E) /\ Len(c[i]) \in Nat
           /\ \A j \in 1..Len(c[i]) : c[i][j] \in E /\ Slot(t, f[c[i][j]].key) = i
           /\ \A j, k \in 1..Len(c[i]) : c[i][j] = c[i][k] => j = k
<1>1. c[i] \in Seq(E) /\ Len(c[i]) \in Nat
  BY LenProperties DEF Chained
<1>2. \A j \in 1..Len(c[i]) : c[i][j] \in E
  BY <1>1, ElementOfSeq
<1>3. Leads(t, t.data[i], c[i]) /\ \A j \in 1..Len(c[i]) : Slot(t, f[c[i][j]].key) = i
  BY DEF Chained
<1>4. QED
  BY <1>1, <1>2, <1>3 DEF Leads

(* The next pointers of the entries of a chain.                             *)
LEMMA ChainedNext ==
    ASSUME NEW t \in Tables, NEW c, NEW E, NEW f, Chained(t, c, E, f), NEW i \in 0..t.size-1
    PROVE  \A j \in 1..Len(c[i]) : t.next[c[i][j]] = At(c[i], j + 1)
BY DEF Chained, Leads

(* An entry is in the chain of its own slot and in no other.                *)
LEMMA FoundLemma ==
    ASSUME NEW t \in Tables, NEW c, NEW E, NEW f, Chained(t, c, E, f), NEW e \in E
    PROVE  /\ f[e] \in Infos /\ f[e].key \in Keys /\ Slot(t, f[e].key) \in 0..t.size-1
           /\ \E j \in 1..Len(c[Slot(t, f[e].key)]) : c[Slot(t, f[e].key)][j] = e
<1>1. f[e] \in Infos /\ f[e].key \in Keys
  BY DEF Chained, Infos
<1>2. QED
  BY <1>1, TableLemma, SlotLemma DEF Chained

(* binhash_link() puts an entry in front of the chain of its key.           *)
LEMMA LinkLemma ==
    ASSUME NEW t \in Tables, NEW c, NEW E, NEW f, Chained(t, c, E, f),
           NEW e \in Nodes \ E, f[e] \in Infos
    PROVE  LET i == Slot(t, f[e].key)
           IN  Chained(binhash_link(t, e, f[e].key), [c EXCEPT ![i] = <<e>> \o @], E \cup {e}, f)
<1> DEFINE i == Slot(t, f[e].key)
           u == binhash_link(t, e, f[e].key)
           r == <<e>> \o c[i]
           d == [c EXCEPT ![i] = <<e>> \o @]
           F == E \cup {e}
<1>1. f[e].key \in Keys /\ i \in 0..t.size-1 /\ e \in Nodes
  BY TableLemma, SlotLemma DEF Infos
<1>2. /\ u \in Tables /\ u.size = t.size
      /\ u.data = [t.data EXCEPT ![i] = e]
      /\ u.next = [t.next EXCEPT ![e] = t.data[i]]
      /\ u.prev = [n \in Nodes |-> IF n = e THEN NULL
                                   ELSE IF n = t.data[i] THEN e ELSE t.prev[n]]
  BY <1>1, LinkType
<1>3. t.data \in [0..t.size-1 -> Places] /\ t.next \in [Nodes -> Places]
  BY TableLemma
<1>4. u.data[i] = e /\ \A j \in 0..t.size-1 : j # i => u.data[j] = t.data[j]
  BY <1>1, <1>2, <1>3
<1>5. u.next[e] = t.data[i] /\ \A n \in Nodes : n # e => u.next[n] = t.next[n]
  BY <1>1, <1>2, <1>3
<1>6. u.prev[e] = NULL /\ \A n \in Nodes : n # e => u.prev[n] = IF n = t.data[i] THEN e ELSE t.prev[n]
  BY <1>1, <1>2
<1>7. \A k \in Keys : Slot(u, k) = Slot(t, k)
  BY <1>2 DEF Slot
<1> HIDE DEF u, i
<1>8. /\ c \in [0..t.size-1 -> Seq(E)] /\ c[i] \in Seq(E) /\ Len(c[i]) \in Nat
      /\ E \in SUBSET Nodes /\ \A n \in E : n # e
      /\ \A j \in 1..Len(c[i]) : c[i][j] \in E
  <2>1. c[i] \in Seq(E) /\ Len(c[i]) \in Nat /\ \A j \in 1..Len(c[i]) : c[i][j] \in E
    BY <1>1, ChainedElements
  <2>2. c \in [0..t.size-1 -> Seq(E)] /\ E \in SUBSET Nodes
    BY DEF Chained
  <2>3. QED
    BY <2>1, <2>2
<1>0. /\ \A j \in 1..Len(c[i]) : /\ c[i][j] \in E /\ c[i][j] \in Nodes
                                    /\ Slot(t, f[c[i][j]].key) = i
      /\ t.data[i] = At(c[i], 1)
      /\ \A j \in 1..Len(c[i]) : /\ t.next[c[i][j]] = At(c[i], j + 1)
                                 /\ t.prev[c[i][j]] = At(c[i], j - 1)
      /\ \A j, k \in 1..Len(c[i]) : c[i][j] = c[i][k] => j = k
      /\ \A k \in 1..Len(c[i]) : c[i][k] = At(c[i], 1) <=> 1 = k
  <2>1. /\ \A j \in 1..Len(c[i]) : c[i][j] \in E /\ Slot(t, f[c[i][j]].key) = i
        /\ \A j, k \in 1..Len(c[i]) : c[i][j] = c[i][k] => j = k
    BY <1>1, ChainedElements
  <2>2. /\ t.data[i] = At(c[i], 1)
        /\ \A j \in 1..Len(c[i]) : /\ t.next[c[i][j]] = At(c[i], j + 1)
                                   /\ t.prev[c[i][j]] = At(c[i], j - 1)
    BY <1>1 DEF Chained, Leads
  <2>3. \A j \in Int : \A k \in 1..Len(c[i]) : c[i][k] = At(c[i], j) <=> j = k
    BY <1>8, <2>1, AtLemma
  <2>4. 1 \in Int
    OBVIOUS
  <2>5. QED
    BY <1>8, <2>1, <2>2, <2>3, <2>4
<1>9. c[i] \in Seq(F) /\ \A j \in 0..t.size-1 : c[j] \in Seq(F)
  <2>1. Seq(E) \subseteq Seq(F)
    OBVIOUS
  <2>2. QED
    BY <1>1, <1>8, <2>1
<1>10. /\ r \in Seq(F) /\ Len(r) = Len(c[i]) + 1 /\ r[1] = e
       /\ \A j \in 1..Len(c[i]) : r[j + 1] = c[i][j]
       /\ \A j \in 2..Len(c[i])+1 : r[j] = c[i][j - 1]
  BY <1>9, ConsLemma
<1>11. d[i] = r /\ (\A j \in 0..t.size-1 : j # i => d[j] = c[j]) /\ d \in [0..t.size-1 -> Seq(F)]
  BY <1>1, <1>8, <1>9, <1>10
<1> HIDE DEF d, r
<1>12. At(r, 1) = e /\ At(r, 0) = NULL /\ \A j \in 1..Len(c[i])+1 : At(r, j + 1) = At(c[i], j)
  <2>1. At(r, 1) = e /\ At(r, 0) = NULL
    BY <1>8, <1>10 DEF At
  <2>2. ASSUME NEW j \in 1..Len(c[i])+1 PROVE At(r, j + 1) = At(c[i], j)
    <3>1. j + 1 \in 1..Len(r) <=> j \in 1..Len(c[i])
      BY <1>8, <1>10
    <3>2. QED
      BY <1>10, <3>1 DEF At
  <2>3. QED
    BY <2>1, <2>2
<1>13. Leads(u, u.data[i], r)
  <2>1. u.data[i] = At(r, 1)
    BY <1>4, <1>12
  <2>2. ASSUME NEW j \in 1..Len(r) PROVE u.next[r[j]] = At(r, j + 1) /\ u.prev[r[j]] = At(r, j - 1)
    <3>1. CASE j = 1
      <4>1. t.data[i] = At(c[i], 1) /\ 1 \in 1..Len(c[i])+1
        BY <1>0, <1>8
      <4>2. QED
        BY <1>5, <1>6, <1>10, <1>12, <3>1, <4>1
    <3>2. CASE j # 1
      <4> DEFINE k == j - 1
      <4>1. k \in 1..Len(c[i]) /\ j = k + 1 /\ r[j] = c[i][k] /\ k + 1 \in 1..Len(c[i])+1 /\ k \in Int
        <5>1. j \in 2..Len(c[i])+1 /\ Len(c[i]) \in Nat
          BY <1>8, <1>10, <3>2
        <5>2. r[j] = c[i][j - 1]
          BY <1>10, <5>1
        <5>3. QED
          BY <5>1, <5>2
      <4> HIDE DEF k
      <4>2. /\ c[i][k] \in Nodes /\ c[i][k] # e
            /\ t.next[c[i][k]] = At(c[i], k + 1) /\ t.prev[c[i][k]] = At(c[i], k - 1)
            /\ c[i][k] = t.data[i] <=> k = 1
        BY <1>0, <1>8, <4>1
      <4>3. u.next[r[j]] = At(r, j + 1)
        BY <1>5, <1>12, <4>1, <4>2
      <4>4. u.prev[r[j]] = At(r, j - 1)
        <5>1. CASE k = 1
          BY <1>6, <1>12, <4>1, <4>2, <5>1
        <5>2. CASE k # 1
          <6>1. k - 1 \in 1..Len(c[i])+1 /\ j - 1 = (k - 1) + 1
            BY <1>8, <4>1, <5>2
          <6>2. QED
            BY <1>6, <1>12, <4>1, <4>2, <5>2, <6>1
        <5>3. QED
          BY <5>1, <5>2
      <4>5. QED
        BY <4>3, <4>4
    <3>3. QED
      BY <3>1, <3>2
  <2>3. ASSUME NEW j \in 1..Len(r), NEW k \in 1..Len(r), r[j] = r[k] PROVE j = k
    <3>1. ASSUME NEW l \in 1..Len(r), l # 1
          PROVE  l - 1 \in 1..Len(c[i]) /\ r[l] = c[i][l - 1] /\ r[l] # e
      <4>1. l - 1 \in 1..Len(c[i]) /\ l \in 2..Len(c[i])+1
        BY <1>8, <1>10, <3>1
      <4>2. QED
        BY <1>8, <1>10, <4>1
    <3>2. CASE j = 1
      BY <1>10, <2>3, <3>1, <3>2
    <3>3. CASE k = 1
      BY <1>10, <2>3, <3>1, <3>3
    <3>4. CASE j # 1 /\ k # 1
      <4>1. j - 1 = k - 1
        BY <1>0, <2>3, <3>1, <3>4
      <4>2. QED
        BY <1>8, <1>10, <4>1
    <3>5. QED
      BY <3>2, <3>3, <3>4
  <2>4. QED
    BY <2>1, <2>2, <2>3 DEF Leads
<1>14. ASSUME NEW j \in 0..t.size-1, j # i PROVE Leads(u, u.data[j], c[j])
  <2>1. Leads(t, t.data[j], c[j])
    BY DEF Chained
  <2>2. ASSUME NEW k \in 1..Len(c[j])
        PROVE  c[j][k] \in Nodes /\ c[j][k] # e /\ c[j][k] # t.data[i]
    <3>1. c[j][k] \in E /\ c[j][k] \in Nodes /\ Slot(t, f[c[j][k]].key) = j
      BY ChainedLemma
    <3>2. t.data[i] = At(c[i], 1)
      BY <1>0
    <3>3. CASE 1 \in 1..Len(c[i])
      <4>1. t.data[i] = c[i][1] /\ Slot(t, f[c[i][1]].key) = i
        BY <1>0, <3>2, <3>3 DEF At
      <4>2. QED
        BY <1>8, <1>14, <3>1, <4>1
    <3>4. CASE 1 \notin 1..Len(c[i])
      BY <1>8, <3>1, <3>2, <3>4, NullLemma DEF At
    <3>5. QED
      BY <3>3, <3>4
  <2>3. QED
    BY <1>4, <1>5, <1>6, <1>14, <2>1, <2>2 DEF Leads
<1>15. ASSUME NEW j \in 0..t.size-1, NEW k \in 1..Len(d[j]) PROVE Slot(u, f[d[j][k]].key) = j
  <2>1. CASE j # i
    BY <1>7, <1>11, <2>1, ChainedLemma
  <2>2. CASE j = i /\ k = 1
    BY <1>1, <1>7, <1>10, <1>11, <2>2 DEF i
  <2>3. CASE j = i /\ k # 1
    <3>1. k - 1 \in 1..Len(c[i]) /\ d[j][k] = c[i][k - 1]
      BY <1>8, <1>10, <1>11, <2>3
    <3>2. QED
      BY <1>1, <1>7, <2>3, <3>1, ChainedLemma
  <2>4. QED
    BY <2>1, <2>2, <2>3
<1>16. ASSUME NEW n \in F PROVE \E j \in 1..Len(d[Slot(u, f[n].key)]) : d[Slot(u, f[n].key)][j] = n
  <2>1. CASE n = e
    <3>1. Slot(u, f[n].key) = i /\ 1 \in 1..Len(r)
      BY <1>1, <1>7, <1>8, <1>10, <2>1 DEF i
    <3>2. QED
      BY <1>10, <1>11, <2>1, <3>1
  <2>2. CASE n \in E
    <3> DEFINE s == Slot(t, f[n].key)
    <3>1. /\ f[n].key \in Keys /\ s \in 0..t.size-1
          /\ \E j \in 1..Len(c[s]) : c[s][j] = n
      BY <2>2, FoundLemma
    <3>2. Slot(u, f[n].key) = s
      BY <1>7, <3>1
    <3> HIDE DEF s
    <3>3. PICK j \in 1..Len(c[s]) : c[s][j] = n
      BY <3>1
    <3>4. CASE s = i
      <4>1. j + 1 \in 1..Len(r) /\ r[j + 1] = n
        BY <1>8, <1>10, <3>3, <3>4
      <4>2. QED
        BY <1>11, <3>2, <3>4, <4>1
    <3>5. CASE s # i
      BY <1>11, <3>1, <3>2, <3>3, <3>5
    <3>6. QED
      BY <3>4, <3>5
  <2>3. QED
    BY <2>1, <2>2
<1>17. F \in SUBSET Nodes /\ \A n \in F : f[n] \in Infos
  BY <1>1, <1>8 DEF Chained
<1>18. \A j \in 0..t.size-1 : Leads(u, u.data[j], d[j])
  BY <1>11, <1>13, <1>14
<1>19. Chained(u, d, F, f)
  <2> HIDE DEF F
  <2>1. QED
    BY <1>2, <1>11, <1>15, <1>16, <1>17, <1>18 DEF Chained
<1>20. QED
  BY <1>19 DEF u, d, i

(* binhash_link() adds one entry to those in the chains.                    *)
LEMMA LinkExists ==
    ASSUME NEW t \in Tables, NEW c, NEW E, NEW f, Chained(t, c, E, f),
           NEW e, e \in Nodes, e \notin E, f[e] \in Infos,
           NEW u, u = binhash_link(t, e, f[e].key)
    PROVE  \E d : Chained(u, d, E \cup {e}, f)
<1>1. Chained(binhash_link(t, e, f[e].key),
              [c EXCEPT ![Slot(t, f[e].key)] = <<e>> \o @], E \cup {e}, f)
  BY LinkLemma
<1>2. QED
  BY <1>1

(* What binhash_delete() stores.                                            *)
LEMMA UnlinkType ==
    ASSUME NEW t \in Tables, t.used > 0, NEW e \in Nodes, NEW k \in Keys
    PROVE  LET u == Unlink(t, e, k)
               i == Slot(t, k)
           IN  /\ u \in Tables /\ u.size = t.size /\ u.used = t.used - 1
               /\ u.data[i] = IF t.prev[e] = NULL THEN t.next[e] ELSE t.data[i]
               /\ \A j \in 0..t.size-1 : j # i => u.data[j] = t.data[j]
               /\ \A m \in Nodes :
                     /\ u.next[m] = IF m = e THEN NULL
                                    ELSE IF m = t.prev[e] THEN t.next[e] ELSE t.next[m]
                     /\ u.prev[m] = IF m = e THEN NULL
                                    ELSE IF m = t.next[e] THEN t.prev[e] ELSE t.prev[m]
<1> DEFINE i == Slot(t, k)
           data == [t.data EXCEPT ![i] = IF t.prev[e] = NULL THEN t.next[e] ELSE @]
           next == [m \in Nodes |-> IF m = e THEN NULL
                                    ELSE IF m = t.prev[e] THEN t.next[e] ELSE t.next[m]]
           prev == [m \in Nodes |-> IF m = e THEN NULL
                                    ELSE IF m = t.next[e] THEN t.prev[e] ELSE t.prev[m]]
           u == [size |-> t.size, used |-> t.used - 1, data |-> data, next |-> next, prev |-> prev]
<1>1. i \in 0..t.size-1 /\ t.size \in Nat \ {0} /\ t.used - 1 \in Nat
      /\ t.data \in [0..t.size-1 -> Places] /\ t.next \in [Nodes -> Places]
      /\ t.prev \in [Nodes -> Places] /\ NULL \in Places
  BY TableLemma, SlotLemma DEF Places
<1>2. t.next[e] \in Places /\ t.prev[e] \in Places
  BY <1>1
<1>3. data \in [0..t.size-1 -> Places]
  BY <1>1, <1>2
<1>4. next \in [Nodes -> Places] /\ prev \in [Nodes -> Places]
  BY <1>1, <1>2
<1>5. Unlink(t, e, k) = u
  <2>1. t = [size |-> t.size, used |-> t.used, data |-> t.data, next |-> t.next, prev |-> t.prev]
    BY TableLemma DEF TablesOf
  <2>2. Unlink(t, e, k) = [t EXCEPT !.used = t.used - 1, !.prev = prev, !.next = next, !.data = data]
    BY DEF Unlink
  <2> HIDE DEF data, next, prev
  <2>3. QED
    BY <2>1, <2>2
<1>6. /\ data[i] = IF t.prev[e] = NULL THEN t.next[e] ELSE t.data[i]
      /\ \A j \in 0..t.size-1 : j # i => data[j] = t.data[j]
      /\ \A m \in Nodes :
            /\ next[m] = IF m = e THEN NULL ELSE IF m = t.prev[e] THEN t.next[e] ELSE t.next[m]
            /\ prev[m] = IF m = e THEN NULL ELSE IF m = t.next[e] THEN t.prev[e] ELSE t.prev[m]
  BY <1>1
<1> HIDE DEF data, next, prev
<1>7. u \in Tables
  <2>1. u \in TablesOf(t.size)
    BY <1>1, <1>3, <1>4 DEF TablesOf
  <2>2. QED
    BY <1>1, <2>1, TablesLemma
<1>8. QED
  BY <1>5, <1>6, <1>7 DEF i

(* binhash_delete() takes an entry out of its chain.                        *)
LEMMA UnlinkLemma ==
    ASSUME NEW t \in Tables, t.used > 0, NEW c, NEW E, NEW f, NEW g, Chained(t, c, E, f),
           NEW e \in E, NEW p \in 1..Len(c[Slot(t, f[e].key)]), c[Slot(t, f[e].key)][p] = e,
           \A n \in E \ {e} : g[n] = f[n]
    PROVE  LET i == Slot(t, f[e].key)
           IN  Chained(Unlink(t, e, f[e].key), [c EXCEPT ![i] = RemoveAt(@, p)], E \ {e}, g)
<1> DEFINE i == Slot(t, f[e].key)
           u == Unlink(t, e, f[e].key)
           s == c[i]
           r == RemoveAt(s, p)
           d == [c EXCEPT ![i] = RemoveAt(@, p)]
           F == E \ {e}
<1>1. f[e].key \in Keys /\ i \in 0..t.size-1 /\ e \in Nodes
  BY TableLemma, SlotLemma DEF Infos, Chained
<1>2. /\ u \in Tables /\ u.size = t.size
      /\ u.data[i] = IF t.prev[e] = NULL THEN t.next[e] ELSE t.data[i]
      /\ \A j \in 0..t.size-1 : j # i => u.data[j] = t.data[j]
  BY <1>1, UnlinkType
<1>5. \A m \in Nodes : m # e => /\ u.next[m] = IF m = t.prev[e] THEN t.next[e] ELSE t.next[m]
                                /\ u.prev[m] = IF m = t.next[e] THEN t.prev[e] ELSE t.prev[m]
  BY <1>1, UnlinkType
<1>6. \A k \in Keys : Slot(u, k) = Slot(t, k)
  BY <1>2 DEF Slot
<1>0. i = Slot(t, f[e].key) /\ p \in 1..Len(s) /\ s[p] = e
  OBVIOUS
<1> HIDE DEF u, i
<1>7. c \in [0..t.size-1 -> Seq(E)] /\ E \in SUBSET Nodes /\ \A n \in E : f[n] \in Infos
  BY DEF Chained
<1>8. /\ s \in Seq(E) /\ Len(s) \in Nat
      /\ \A j \in 1..Len(s) : s[j] \in E /\ s[j] \in Nodes /\ Slot(t, f[s[j]].key) = i
      /\ t.data[i] = At(s, 1)
      /\ \A j \in 1..Len(s) : t.next[s[j]] = At(s, j + 1) /\ t.prev[s[j]] = At(s, j - 1)
      /\ \A j, k \in 1..Len(s) : s[j] = s[k] => j = k
      /\ \A j \in Int : At(s, j) = NULL <=> j \notin 1..Len(s)
      /\ \A j \in Int : \A k \in 1..Len(s) : s[k] = At(s, j) <=> j = k
  <2>1. /\ s \in Seq(E) /\ Len(s) \in Nat
        /\ \A j \in 1..Len(s) : s[j] \in E /\ s[j] \in Nodes /\ Slot(t, f[s[j]].key) = i
    BY <1>1, ChainedLemma
  <2>2. /\ t.data[i] = At(s, 1)
        /\ \A j \in 1..Len(s) : t.next[s[j]] = At(s, j + 1) /\ t.prev[s[j]] = At(s, j - 1)
    BY <1>1, ChainedLemma
  <2>3. \A j, k \in 1..Len(s) : s[j] = s[k] => j = k
    BY <1>1, ChainedLemma
  <2>4. \A j \in Int : At(s, j) = NULL <=> j \notin 1..Len(s)
    BY <1>1, ChainedLemma
  <2>5. \A j \in Int : \A k \in 1..Len(s) : s[k] = At(s, j) <=> j = k
    BY <1>1, ChainedLemma
  <2>6. QED
    BY <2>1, <2>2, <2>3, <2>4, <2>5
<1>9. /\ r \in Seq(E) /\ Len(r) = Len(s) - 1
      /\ \A j \in 1..Len(s)-1 : r[j] = IF j < p THEN s[j] ELSE s[j + 1]
  <2>1. s \in Seq(E) /\ p \in 1..Len(s)
    BY <1>0, <1>8
  <2> HIDE DEF s
  <2>2. QED
    BY <2>1, RemoveAtLemma
<1>10. d[i] = r /\ (\A j \in 0..t.size-1 : j # i => d[j] = c[j]) /\ DOMAIN d = 0..t.size-1
  BY <1>1, <1>7
<1> HIDE DEF d, r, s
\* Where the entries of the shorter chain were.
<1> DEFINE Was(j) == IF j < p THEN j ELSE j + 1
<1>12. \A j \in 1..Len(r) : /\ Was(j) \in 1..Len(s) /\ Was(j) # p /\ r[j] = s[Was(j)]
                            /\ r[j] \in F
  <2> SUFFICES ASSUME NEW j \in 1..Len(r)
               PROVE  /\ Was(j) \in 1..Len(s) /\ Was(j) # p /\ r[j] = s[Was(j)]
                      /\ r[j] \in F
    OBVIOUS
  <2>1. Was(j) \in 1..Len(s) /\ Was(j) # p /\ r[j] = s[Was(j)]
    <3>1. Len(s) \in Nat /\ p \in 1..Len(s) /\ j \in 1..Len(s)-1
      BY <1>0, <1>8, <1>9
    <3>2. Was(j) \in 1..Len(s) /\ Was(j) # p
      BY <3>1
    <3>3. r[j] = s[Was(j)]
      BY <1>9, <3>1
    <3>4. QED
      BY <3>2, <3>3
  <2> HIDE DEF Was
  <2>2. s[Was(j)] \in E /\ s[Was(j)] # s[p]
    BY <1>0, <1>8, <2>1
  <2>3. QED
    BY <1>0, <2>1, <2>2
<1>13. r \in Seq(F)
  <2>1. Len(r) \in Nat /\ r = [j \in 1..Len(r) |-> r[j]]
    BY <1>8, <1>9, <1>0
  <2>2. QED
    BY <1>12, <2>1
<1>14. ASSUME NEW j \in 0..Len(s) PROVE At(r, j) = IF j < p THEN At(s, j) ELSE At(s, j + 1)
  <2>1. j \in 1..Len(r) => At(r, j) = IF j < p THEN s[j] ELSE s[j + 1]
    BY <1>8, <1>9 DEF At
  <2>2. j \in 1..Len(r) => j \in 1..Len(s) /\ j + 1 \in 1..Len(s)
    BY <1>8, <1>9
  <2>3. j \notin 1..Len(r) => j = 0 \/ j = Len(s)
    BY <1>8, <1>9
  <2>4. j = Len(s) => ~ (j < p) /\ At(s, j + 1) = NULL
    BY <1>8, <1>0
  <2>5. j = 0 => j < p /\ At(s, j) = NULL
    BY <1>8, <1>0
  <2>6. QED
    BY <2>1, <2>2, <2>3, <2>4, <2>5 DEF At
<1>15. t.next[e] = At(s, p + 1) /\ t.prev[e] = At(s, p - 1)
  BY <1>8, <1>0
<1>16. Leads(u, u.data[i], r)
  <2>1. u.data[i] = At(r, 1)
    <3>1. At(s, p - 1) = NULL <=> p = 1
      BY <1>8, <1>0
    <3>2. 1 \in 0..Len(s)
      BY <1>8, <1>0
    <3>3. At(r, 1) = IF 1 < p THEN At(s, 1) ELSE At(s, 1 + 1)
      BY <1>14, <3>2
    <3>4. p # 1 => 1 < p
      BY <1>8, <1>0
    <3>5. QED
      BY <1>2, <1>8, <1>15, <3>1, <3>3, <3>4
  <2>2. ASSUME NEW j \in 1..Len(r) PROVE u.next[r[j]] = At(r, j + 1) /\ u.prev[r[j]] = At(r, j - 1)
    <3> DEFINE k == Was(j)
    <3>1. k \in 1..Len(s) /\ k # p /\ r[j] = s[k] /\ s[k] \in Nodes /\ s[k] # e
      <4>1. k \in 1..Len(s) /\ k # p /\ r[j] = s[k]
        BY <1>12
      <4> HIDE DEF k
      <4>2. QED
        BY <1>8, <1>0, <4>1
    <3>0. Len(s) \in Nat /\ Len(r) = Len(s) - 1 /\ p \in 1..Len(s)
      BY <1>0, <1>8, <1>9
    <3>2. j \in 1..Len(s) /\ j + 1 \in 0..Len(s) /\ j - 1 \in 0..Len(s) /\ p - 1 \in Int /\ p + 1 \in Int /\ p \in Int
      BY <3>0
    <3>3. At(r, j + 1) = (IF j + 1 < p THEN At(s, j + 1) ELSE At(s, j + 2))
          /\ At(r, j - 1) = (IF j - 1 < p THEN At(s, j - 1) ELSE At(s, j))
      <4>1. (j + 1) + 1 = j + 2 /\ (j - 1) + 1 = j
        BY <3>2
      <4>2. QED
        BY <1>14, <3>2, <4>1
    <3>10. \A l \in Int : s[k] = At(s, l) <=> l = k
      <4> HIDE DEF k
      <4>1. QED
        BY <1>8, <3>1
    <3>4. s[k] = At(s, p - 1) <=> p - 1 = k
      BY <3>2, <3>10
    <3>5. s[k] = At(s, p + 1) <=> p + 1 = k
      BY <3>2, <3>10
    <3>6. /\ u.next[r[j]] = IF k = p - 1 THEN At(s, p + 1) ELSE At(s, k + 1)
          /\ u.prev[r[j]] = IF k = p + 1 THEN At(s, p - 1) ELSE At(s, k - 1)
      <4>1. /\ u.next[s[k]] = IF s[k] = t.prev[e] THEN t.next[e] ELSE t.next[s[k]]
            /\ u.prev[s[k]] = IF s[k] = t.next[e] THEN t.prev[e] ELSE t.prev[s[k]]
        BY <1>5, <3>1
      <4>2. t.next[s[k]] = At(s, k + 1) /\ t.prev[s[k]] = At(s, k - 1)
        BY <1>8, <3>1
      <4>3. (s[k] = t.prev[e] <=> k = p - 1) /\ (s[k] = t.next[e] <=> k = p + 1)
        BY <1>15, <3>4, <3>5
      <4> HIDE DEF k
      <4>4. QED
        BY <1>15, <3>1, <4>1, <4>2, <4>3
    <3>7. CASE j < p
      <4>1. k = j /\ (j + 1 < p <=> k # p - 1) /\ (j + 1 < p \/ j + 2 = p + 1) /\ k # p + 1 /\ j - 1 < p
        BY <3>2, <3>7
      <4>2. QED
        BY <3>3, <3>6, <4>1
    <3>8. CASE ~ (j < p)
      <4>1. k = j + 1 /\ ~ (j + 1 < p) /\ k # p - 1 /\ k + 1 = j + 2 /\ k - 1 = j
            /\ (k = p + 1 <=> j - 1 < p) /\ (k = p + 1 => p - 1 = j - 1)
        <5>1. k = j + 1 /\ p \in Int /\ j \in Int /\ j >= p
          BY <3>2, <3>8
        <5> HIDE DEF k
        <5>2. QED
          BY <5>1
      <4>2. QED
        BY <3>3, <3>6, <4>1
    <3>9. QED
      BY <3>7, <3>8
  <2>3. ASSUME NEW j \in 1..Len(r), NEW k \in 1..Len(r), r[j] = r[k] PROVE j = k
    <3>1. Was(j) = Was(k)
      <4>1. /\ Was(j) \in 1..Len(s) /\ r[j] = s[Was(j)]
            /\ Was(k) \in 1..Len(s) /\ r[k] = s[Was(k)]
        BY <1>12
      <4>2. s[Was(j)] = s[Was(k)]
        BY <2>3, <4>1
      <4> HIDE DEF Was
      <4>3. \A x, y \in 1..Len(s) : s[x] = s[y] => x = y
        BY <1>8
      <4>4. QED
        BY <4>1, <4>2, <4>3
    <3>2. QED
      BY <1>8, <1>9, <1>0, <3>1
  <2>4. QED
    BY <2>1, <2>2, <2>3 DEF Leads
<1>17. ASSUME NEW j \in 0..t.size-1, j # i
       PROVE  Leads(u, u.data[j], c[j]) /\ c[j] \in Seq(F)
  <2>1. Leads(t, t.data[j], c[j])
    BY DEF Chained
  <2>2. ASSUME NEW k \in 1..Len(c[j])
        PROVE  c[j][k] \in Nodes /\ c[j][k] \in F /\ c[j][k] # t.prev[e] /\ c[j][k] # t.next[e]
    <3>1. c[j][k] \in E /\ c[j][k] \in Nodes /\ Slot(t, f[c[j][k]].key) = j
      BY ChainedLemma
    <3>2. \A l \in Int : c[j][k] # At(s, l)
      BY <1>8, <1>17, <3>1, NullLemma DEF At
    <3>3. p - 1 \in Int /\ p + 1 \in Int
      BY <1>8, <1>0
    <3>4. c[j][k] # e
      BY <1>0, <1>17, <3>1
    <3>5. QED
      BY <1>15, <3>1, <3>2, <3>3, <3>4
  <2>3. Leads(u, u.data[j], c[j])
    <3>1. \A k \in 1..Len(c[j]) : c[j][k] # e
      BY <2>2
    <3>2. QED
      BY <1>2, <1>5, <1>17, <2>1, <2>2, <3>1 DEF Leads
  <2>4. c[j] \in Seq(F)
    <3>1. Len(c[j]) \in Nat /\ c[j] = [k \in 1..Len(c[j]) |-> c[j][k]]
      BY <1>7, LenProperties
    <3>2. QED
      BY <2>2, <3>1
  <2>5. QED
    BY <2>3, <2>4
<1>18. \A n \in F : g[n] = f[n] /\ f[n] \in Infos /\ f[n].key \in Keys
  BY <1>7 DEF Infos
<1>19. ASSUME NEW j \in 0..t.size-1, NEW k \in 1..Len(d[j]) PROVE Slot(u, g[d[j][k]].key) = j
  <2>1. CASE j # i
    <3>1. d[j] = c[j] /\ d[j][k] \in F
      BY <1>10, <1>17, <2>1, ElementOfSeq
    <3>2. Slot(t, f[d[j][k]].key) = j
      BY <3>1, ChainedLemma
    <3>3. QED
      BY <1>6, <1>18, <3>1, <3>2
  <2>2. CASE j = i
    <3>1. d[j][k] = r[k] /\ r[k] \in F /\ Slot(t, f[r[k]].key) = i
      <4>1. d[j][k] = r[k] /\ k \in 1..Len(r)
        BY <1>10, <2>2
      <4>2. r[k] \in F /\ Was(k) \in 1..Len(s) /\ r[k] = s[Was(k)]
        BY <1>12, <4>1
      <4> HIDE DEF Was
      <4>3. \A l \in 1..Len(s) : Slot(t, f[s[l]].key) = i
        BY <1>8
      <4>4. QED
        BY <4>1, <4>2, <4>3
    <3>2. QED
      BY <1>6, <1>18, <2>2, <3>1
  <2>3. QED
    BY <2>1, <2>2
<1>20. ASSUME NEW n \in F PROVE \E j \in 1..Len(d[Slot(u, g[n].key)]) : d[Slot(u, g[n].key)][j] = n
  <2> DEFINE q == Slot(t, f[n].key)
  <2>1. /\ f[n].key \in Keys /\ q \in 0..t.size-1
        /\ \E j \in 1..Len(c[q]) : c[q][j] = n
    BY FoundLemma
  <2>2. Slot(u, g[n].key) = q
    BY <1>6, <1>18, <2>1
  <2> HIDE DEF q
  <2>3. PICK j \in 1..Len(c[q]) : c[q][j] = n
    BY <2>1
  <2>4. CASE q = i
    <3>1. j \in 1..Len(s) /\ s[j] = n /\ j # p
      BY <1>0, <2>3, <2>4 DEF s
    <3> DEFINE k == IF j < p THEN j ELSE j - 1
    <3>2. k \in 1..Len(r) /\ Was(k) = j
      BY <1>8, <1>9, <1>0, <3>1
    <3>3. r[k] = n
      BY <1>12, <3>1, <3>2
    <3>4. QED
      BY <1>10, <2>2, <2>4, <3>2, <3>3
  <2>5. CASE q # i
    BY <1>10, <2>1, <2>2, <2>3, <2>5
  <2>6. QED
    BY <2>4, <2>5
<1>21. F \in SUBSET Nodes /\ \A n \in F : g[n] \in Infos
  BY <1>7, <1>18
<1>22. d \in [0..t.size-1 -> Seq(F)]
  <2>1. d = [j \in 0..t.size-1 |-> d[j]]
    BY <1>7 DEF d
  <2>2. \A j \in 0..t.size-1 : d[j] \in Seq(F)
    BY <1>10, <1>13, <1>17
  <2>3. QED
    BY <2>1, <2>2
<1>23. \A j \in 0..t.size-1 : Leads(u, u.data[j], d[j])
  BY <1>10, <1>16, <1>17
<1>24. Chained(u, d, F, g)
  <2> HIDE DEF F
  <2>1. QED
    BY <1>2, <1>19, <1>20, <1>21, <1>22, <1>23 DEF Chained
<1>25. QED
  BY <1>24 DEF u, d, i, s
-----------------------------------------------------------------------------
\* The pointers of what is in no chain lead nowhere.
Loose(t, E) == \A n \in Nodes \ E : t.next[n] = NULL

(* A walk along the next pointers meets the chain of the slot.              *)
LEMMA ChainLemma ==
    ASSUME NEW t \in Tables, NEW c, NEW E, NEW f, Chained(t, c, E, f), Loose(t, E),
           NEW i \in 0..t.size-1
    PROVE  Chain(t, t.data[i]) = c[i]
<1> DEFINE From(g) == g = [e \in Places |-> IF e = NULL THEN <<>> ELSE <<e>> \o g[t.next[e]]]
           Own(e) == c[Slot(t, f[e].key)]
           Place(e) == CHOOSE j \in 1..Len(Own(e)) : Own(e)[j] = e
           w == [e \in Places |-> IF e = NULL THEN <<>>
                                  ELSE IF e \in E THEN SubSeq(Own(e), Place(e), Len(Own(e)))
                                  ELSE <<e>>]
           from == CHOOSE g : From(g)
<1>1. E \in SUBSET Nodes /\ NULL \notin Nodes /\ NULL \in Places
  BY NullLemma DEF Chained, Places
<1>0. /\ w = [e \in Places |-> w[e]] /\ w[NULL] = <<>>
      /\ \A e \in Places : e # NULL /\ e \notin E => w[e] = <<e>>
      /\ \A e \in E : w[e] = SubSeq(Own(e), Place(e), Len(Own(e)))
  <2> HIDE DEF Own, Place
  <2>1. w[NULL] = <<>>
    BY <1>1
  <2>2. \A e \in E : e # NULL /\ e \in Places
    BY <1>1 DEF Places
  <2>3. \A e \in E : w[e] = SubSeq(Own(e), Place(e), Len(Own(e)))
    BY <2>2
  <2>4. \A e \in Places : e # NULL /\ e \notin E => w[e] = <<e>>
    OBVIOUS
  <2>5. w = [e \in Places |-> w[e]]
    OBVIOUS
  <2>6. QED
    BY <2>1, <2>3, <2>4, <2>5
<1> HIDE DEF w
<1>2. ASSUME NEW k \in 0..t.size-1, NEW j \in 1..Len(c[k])+1
      PROVE  w[At(c[k], j)] = SubSeq(c[k], j, Len(c[k]))
  <2>1. /\ c[k] \in Seq(E) /\ Len(c[k]) \in Nat
        /\ \A l \in 1..Len(c[k]) : c[k][l] \in E /\ Slot(t, f[c[k][l]].key) = k
        /\ \A l, m \in 1..Len(c[k]) : c[k][l] = c[k][m] => l = m
    BY ChainedElements
  <2>2. CASE j \in 1..Len(c[k])
    <3> DEFINE e == c[k][j]
    <3>1. At(c[k], j) = e /\ e \in E /\ e # NULL /\ e \in Places
      BY <1>1, <2>1, <2>2 DEF At, Places
    <3>2. Own(e) = c[k]
      BY <2>1, <2>2
    <3>3. Place(e) = j
      BY <2>1, <2>2, <3>2
    <3> HIDE DEF e, Own, Place
    <3>4. w[e] = SubSeq(Own(e), Place(e), Len(Own(e)))
      BY <1>0, <3>1
    <3>5. QED
      BY <3>1, <3>2, <3>3, <3>4
  <2>3. CASE j = Len(c[k]) + 1
    <3>1. At(c[k], j) = NULL
      BY <2>1, <2>3 DEF At
    <3>2. SubSeq(c[k], j, Len(c[k])) = <<>>
      BY <2>1, <2>3, SubSeqEmpty
    <3>3. QED
      BY <1>0, <3>1, <3>2
  <2>4. QED
    BY <2>1, <2>2, <2>3
<1>3. From(w)
  <2> SUFFICES ASSUME NEW e \in Places, e # NULL
               PROVE  w[e] = <<e>> \o w[t.next[e]]
    BY <1>0
  <2>1. CASE e \in E
    <3> DEFINE k == Slot(t, f[e].key)
    <3>1. k \in 0..t.size-1 /\ \E j \in 1..Len(c[k]) : c[k][j] = e
      BY <2>1, FoundLemma
    <3> HIDE DEF k
    <3>2. PICK j \in 1..Len(c[k]) : c[k][j] = e
      BY <3>1
    <3>3. c[k] \in Seq(E) /\ Len(c[k]) \in Nat /\ t.next[e] = At(c[k], j + 1)
      <4>1. k \in 0..t.size-1
        BY <3>1
      <4>2. c[k] \in Seq(E) /\ Len(c[k]) \in Nat
        BY <4>1, ChainedElements
      <4>3. t.next[c[k][j]] = At(c[k], j + 1)
        BY <4>1, ChainedNext
      <4>4. QED
        BY <3>2, <4>2, <4>3
    <3>4. j \in 1..Len(c[k])+1 /\ j + 1 \in 1..Len(c[k])+1
      BY <3>3
    <3>5. At(c[k], j) = e
      BY <3>2 DEF At
    <3>6. w[e] = SubSeq(c[k], j, Len(c[k])) /\ w[t.next[e]] = SubSeq(c[k], j + 1, Len(c[k]))
      BY <1>2, <3>1, <3>3, <3>4, <3>5
    <3>7. QED
      BY <3>2, <3>3, <3>6, SubSeqLemma
  <2>2. CASE e \notin E
    <3>1. t.next[e] = NULL /\ w[NULL] = <<>> /\ w[e] = <<e>>
      BY <1>0, <1>1, <2>2 DEF Loose, Places
    <3>2. <<e>> \o <<>> = <<e>>
      BY ConcatEmptySeq
    <3>3. QED
      BY <3>1, <3>2
  <2>3. QED
    BY <2>1, <2>2
<1>4. From(from)
  <2> HIDE DEF From
  <2>1. QED
    BY <1>3
<1> HIDE DEF from, Own, Place
<1> DEFINE s == c[i]
           T == {k \in Nat : \A j \in 1..Len(s)+1 : j + k = Len(s) + 1 =>
                                 from[At(s, j)] = SubSeq(s, j, Len(s))}
<1>5. /\ s \in Seq(E) /\ Len(s) \in Nat /\ t.data[i] = At(s, 1)
      /\ \A j \in 1..Len(s) : s[j] \in E /\ s[j] \in Nodes /\ t.next[s[j]] = At(s, j + 1)
  <2>1. s \in Seq(E) /\ Len(s) \in Nat /\ \A j \in 1..Len(s) : s[j] \in E
    BY ChainedElements
  <2>2. \A j \in 1..Len(s) : t.next[s[j]] = At(s, j + 1)
    BY ChainedNext
  <2>3. t.data[i] = At(s, 1) /\ E \in SUBSET Nodes
    BY DEF Chained, Leads
  <2>4. QED
    BY <2>1, <2>2, <2>3
<1> HIDE DEF s
<1>6. 0 \in T
  <2>1. At(s, Len(s) + 1) = NULL
    BY <1>5 DEF At
  <2>2. from[NULL] = <<>>
    BY <1>1, <1>4
  <2>3. SubSeq(s, Len(s) + 1, Len(s)) = <<>>
    BY <1>5, SubSeqEmpty
  <2>4. \A j \in 1..Len(s)+1 : j + 0 = Len(s) + 1 => j = Len(s) + 1
    BY <1>5
  <2>5. QED
    BY <2>1, <2>2, <2>3, <2>4
<1>7. ASSUME NEW k \in Nat, k \in T PROVE k + 1 \in T
  <2> SUFFICES ASSUME NEW j \in 1..Len(s)+1, j + (k + 1) = Len(s) + 1
               PROVE  from[At(s, j)] = SubSeq(s, j, Len(s))
    OBVIOUS
  <2>1. j \in 1..Len(s) /\ j + 1 \in 1..Len(s)+1 /\ (j + 1) + k = Len(s) + 1
    BY <1>5
  <2>2. from[At(s, j + 1)] = SubSeq(s, j + 1, Len(s))
    BY <1>7, <2>1
  <2>3. At(s, j) = s[j] /\ s[j] \in Places /\ s[j] # NULL /\ t.next[s[j]] = At(s, j + 1)
    BY <1>1, <1>5, <2>1 DEF At, Places
  <2>4. from[s[j]] = <<s[j]>> \o from[t.next[s[j]]]
    BY <1>4, <2>3
  <2>5. SubSeq(s, j, Len(s)) = <<s[j]>> \o SubSeq(s, j + 1, Len(s))
    BY <1>5, <2>1, SubSeqLemma
  <2>6. QED
    BY <2>2, <2>3, <2>4, <2>5
<1>8. Nat \subseteq T
  <2> HIDE DEF T
  <2>1. QED
    BY <1>6, <1>7, SetInduction
<1>9. from[At(s, 1)] = s
  <2>1. 1 \in 1..Len(s)+1 /\ 1 + Len(s) = Len(s) + 1
    BY <1>5
  <2>2. from[At(s, 1)] = SubSeq(s, 1, Len(s))
    BY <1>5, <1>8, <2>1
  <2>3. QED
    BY <1>5, <2>2, SubSeqFull
<1>10. Chain(t, t.data[i]) = from[t.data[i]]
  BY DEF Chain, from, Places
<1>11. QED
  BY <1>5, <1>9, <1>10 DEF s

(* binhash_list() lists what is in the chains, once each.                   *)
LEMMA ListLemma ==
    ASSUME NEW t \in Tables, NEW c, NEW E, NEW f, Chained(t, c, E, f), Loose(t, E)
    PROVE  /\ binhash_list(t) \in Seq(E) /\ Len(binhash_list(t)) \in Nat
           /\ \A i, j \in 1..Len(binhash_list(t)) : binhash_list(t)[i] = binhash_list(t)[j] => i = j
           /\ \A e \in E : \E i \in 1..Len(binhash_list(t)) : binhash_list(t)[i] = e
<1> DEFINE n == t.size
           cs == [i \in 1..n |-> c[i - 1]]
           SlotOf(e) == Slot(t, f[e].key)
<1>1. n \in Nat \ {0}
  BY TableLemma
<1>2. binhash_list(t) = FlattenSeq(cs)
  <2>1. \A i \in 1..n : Chain(t, t.data[i - 1]) = c[i - 1]
    <3> SUFFICES ASSUME NEW i \in 1..n PROVE Chain(t, t.data[i - 1]) = c[i - 1]
      OBVIOUS
    <3>1. i - 1 \in 0..t.size-1
      BY <1>1
    <3>2. QED
      BY <3>1, ChainLemma
  <2>2. QED
    BY <2>1 DEF binhash_list
<1>3. \A i \in 1..n : i - 1 \in 0..n-1 /\ cs[i] = c[i - 1] /\ cs[i] \in Seq(E)
  <2> SUFFICES ASSUME NEW i \in 1..n PROVE i - 1 \in 0..n-1 /\ c[i - 1] \in Seq(E)
    OBVIOUS
  <2>1. i - 1 \in 0..n-1
    BY <1>1
  <2>2. QED
    BY <2>1, ChainedLemma
<1>4. cs \in [1..n -> Seq(E)]
  BY <1>3
<1>5. \A i \in 1..n : /\ Len(cs[i]) \in Nat
                      /\ \A j \in 1..Len(cs[i]) : cs[i][j] \in E /\ SlotOf(cs[i][j]) = i - 1
                      /\ \A j, k \in 1..Len(cs[i]) : cs[i][j] = cs[i][k] => j = k
  <2> SUFFICES ASSUME NEW i \in 1..n
               PROVE  /\ Len(c[i - 1]) \in Nat
                      /\ \A j \in 1..Len(c[i - 1]) : c[i - 1][j] \in E /\ SlotOf(c[i - 1][j]) = i - 1
                      /\ \A j, k \in 1..Len(c[i - 1]) : c[i - 1][j] = c[i - 1][k] => j = k
    BY <1>3
  <2> DEFINE l == i - 1
  <2>1. l \in 0..t.size-1
    BY <1>3
  <2> HIDE DEF l
  <2>2. Len(c[l]) \in Nat
    BY <2>1, ChainedLemma
  <2>3. \A j \in 1..Len(c[l]) : c[l][j] \in E /\ Slot(t, f[c[l][j]].key) = l
    BY <2>1, ChainedLemma
  <2>4. \A j, k \in 1..Len(c[l]) : c[l][j] = c[l][k] => j = k
    BY <2>1, ChainedLemma
  <2>5. QED
    BY <2>2, <2>3, <2>4 DEF l
<1>6. \A e \in E : /\ SlotOf(e) \in 0..n-1
                   /\ \E j \in 1..Len(cs[SlotOf(e) + 1]) : cs[SlotOf(e) + 1][j] = e
  <2> SUFFICES ASSUME NEW e \in E
               PROVE  /\ SlotOf(e) \in 0..n-1
                      /\ \E j \in 1..Len(cs[SlotOf(e) + 1]) : cs[SlotOf(e) + 1][j] = e
    OBVIOUS
  <2> DEFINE k == SlotOf(e)
  <2>1. k \in 0..n-1 /\ \E j \in 1..Len(c[k]) : c[k][j] = e
    BY FoundLemma
  <2> HIDE DEF k
  <2>2. k + 1 \in 1..n /\ (k + 1) - 1 = k
    BY <1>1, <2>1
  <2>3. cs[k + 1] = c[k]
    <3>1. cs[k + 1] = c[(k + 1) - 1]
      BY <1>3, <2>2
    <3>2. QED
      BY <2>2, <3>1
  <2> HIDE DEF cs
  <2>4. QED
    BY <2>1, <2>3 DEF k
<1>0. PICK flat : Flattens(flat, E, n, cs)
  <2> HIDE DEF cs, n
  <2>1. QED
    BY <1>1, <1>4, FlattenLemma
<1>7. /\ flat \in [1..n -> Seq(E)] /\ flat[1] = cs[1]
      /\ \A j \in 2..n : flat[j] = flat[j - 1] \o cs[j]
      /\ FlattenSeq(cs) = flat[n]
  BY <1>0 DEF Flattens
<1> HIDE DEF cs, SlotOf, n
<1> DEFINE Listed(q, k) == /\ q \in Seq(E) /\ Len(q) \in Nat
                           /\ \A j \in 1..Len(q) : q[j] \in E /\ SlotOf(q[j]) < k
                           /\ \A i, j \in 1..Len(q) : q[i] = q[j] => i = j
                           /\ \A e \in E : SlotOf(e) < k => \E i \in 1..Len(q) : q[i] = e
           T == {k \in Nat : k \in 1..n => Listed(flat[k], k)}
<1>8. 0 \in T
  BY <1>1
<1>9. ASSUME NEW k \in Nat, k \in T PROVE k + 1 \in T
  <2> SUFFICES ASSUME k + 1 \in 1..n PROVE Listed(flat[k + 1], k + 1)
    <3> HIDE DEF Listed
    <3>1. QED
      OBVIOUS
  <2> DEFINE r == cs[k + 1]
  <2>1. /\ r \in Seq(E) /\ Len(r) \in Nat
        /\ \A j \in 1..Len(r) : r[j] \in E /\ SlotOf(r[j]) = k
        /\ \A i, j \in 1..Len(r) : r[i] = r[j] => i = j
    <3>1. (k + 1) - 1 = k
      OBVIOUS
    <3>2. QED
      BY <1>3, <1>5, <3>1
  <2>2. \A e \in E : SlotOf(e) \in Nat /\ (SlotOf(e) = k => \E i \in 1..Len(r) : r[i] = e)
    <3> SUFFICES ASSUME NEW e \in E
                 PROVE  SlotOf(e) \in Nat /\ (SlotOf(e) = k => \E i \in 1..Len(r) : r[i] = e)
      OBVIOUS
    <3>1. SlotOf(e) \in Nat
      BY <1>1, <1>6
    <3>2. ASSUME SlotOf(e) = k PROVE \E i \in 1..Len(r) : r[i] = e
      <4>1. \E j \in 1..Len(cs[SlotOf(e) + 1]) : cs[SlotOf(e) + 1][j] = e
        BY <1>6
      <4>2. QED
        BY <3>2, <4>1
    <3>3. QED
      BY <3>1, <3>2
  <2> HIDE DEF r
  <2>3. CASE k = 0
    <3>1. flat[k + 1] = r
      BY <1>7, <2>3 DEF r
    <3>2. \A e \in E : SlotOf(e) < k + 1 => SlotOf(e) = k
      BY <2>2, <2>3
    <3>3. QED
      BY <2>1, <2>2, <2>3, <3>1, <3>2
  <2>4. CASE k # 0
    <3> DEFINE q == flat[k]
               l == flat[k + 1]
    <3>1. k \in 1..n /\ k + 1 \in 2..n /\ (k + 1) - 1 = k
      BY <1>1, <2>4
    <3>2. Listed(q, k) /\ l = q \o r
      <4> HIDE DEF Listed
      <4>1. Listed(q, k)
        BY <1>9, <3>1
      <4>2. l = q \o r
        BY <1>7, <3>1 DEF r
      <4>3. QED
        BY <4>1, <4>2
    <3> HIDE DEF q, l
    <3>3. /\ q \in Seq(E) /\ Len(q) \in Nat
          /\ \A j \in 1..Len(q) : q[j] \in E /\ SlotOf(q[j]) < k
          /\ \A i, j \in 1..Len(q) : q[i] = q[j] => i = j
          /\ \A e \in E : SlotOf(e) < k => \E i \in 1..Len(q) : q[i] = e
      BY <3>2
    <3>4. /\ l \in Seq(E) /\ Len(l) = Len(q) + Len(r)
          /\ \A i \in 1..Len(q)+Len(r) : l[i] = IF i <= Len(q) THEN q[i] ELSE r[i - Len(q)]
      <4>1. /\ q \o r \in Seq(E) /\ Len(q \o r) = Len(q) + Len(r)
            /\ \A i \in 1..Len(q)+Len(r) : (q \o r)[i] = IF i <= Len(q) THEN q[i] ELSE r[i - Len(q)]
        BY <2>1, <3>3, ConcatProperties
      <4>2. QED
        BY <3>2, <4>1
    <3>5. ASSUME NEW i \in 1..Len(l)
          PROVE  \/ i \in 1..Len(q) /\ l[i] = q[i]
                 \/ i - Len(q) \in 1..Len(r) /\ l[i] = r[i - Len(q)] /\ i > Len(q)
      <4>1. i <= Len(q) => i \in 1..Len(q)
        BY <3>3
      <4>2. i > Len(q) => i - Len(q) \in 1..Len(r) /\ ~ (i <= Len(q))
        BY <2>1, <3>3, <3>4
      <4>3. i <= Len(q) \/ i > Len(q)
        BY <3>3
      <4>4. i \in 1..Len(q)+Len(r)
        BY <3>4
      <4>5. QED
        BY <3>4, <4>1, <4>2, <4>3, <4>4
    <3>6. ASSUME NEW i \in 1..Len(l) PROVE l[i] \in E /\ SlotOf(l[i]) < k + 1
      <4>1. CASE i \in 1..Len(q) /\ l[i] = q[i]
        <5>1. q[i] \in E /\ SlotOf(q[i]) < k
          BY <3>3, <4>1
        <5>2. SlotOf(q[i]) \in Nat
          BY <2>2, <5>1
        <5>3. QED
          BY <4>1, <5>1, <5>2
      <4>2. CASE i - Len(q) \in 1..Len(r) /\ l[i] = r[i - Len(q)]
        BY <2>1, <4>2
      <4>3. QED
        BY <3>5, <4>1, <4>2
    <3>7. ASSUME NEW i \in 1..Len(l), NEW j \in 1..Len(l), l[i] = l[j] PROVE i = j
      <4>1. CASE i \in 1..Len(q) /\ l[i] = q[i]
        <5>1. SlotOf(l[j]) < k /\ SlotOf(l[j]) \in Nat
          BY <2>2, <3>3, <3>7, <4>1
        <5>2. j \in 1..Len(q) /\ l[j] = q[j]
          <6>1. j - Len(q) \in 1..Len(r) /\ l[j] = r[j - Len(q)] => SlotOf(l[j]) = k
            BY <2>1
          <6>2. QED
            BY <3>5, <5>1, <6>1
        <5>3. QED
          BY <3>3, <3>7, <4>1, <5>2
      <4>2. CASE i - Len(q) \in 1..Len(r) /\ l[i] = r[i - Len(q)]
        <5>1. SlotOf(l[j]) = k
          BY <2>1, <3>7, <4>2
        <5>2. j - Len(q) \in 1..Len(r) /\ l[j] = r[j - Len(q)]
          <6>1. j \in 1..Len(q) /\ l[j] = q[j] => SlotOf(l[j]) < k
            BY <3>3
          <6>2. QED
            BY <3>5, <5>1, <6>1
        <5>3. i - Len(q) = j - Len(q)
          BY <2>1, <3>7, <4>2, <5>2
        <5>4. QED
          BY <3>3, <5>3
      <4>3. QED
        BY <3>5, <4>1, <4>2
    <3>8. ASSUME NEW e \in E, SlotOf(e) < k + 1 PROVE \E i \in 1..Len(l) : l[i] = e
      <4>1. CASE SlotOf(e) < k
        <5>1. PICK i \in 1..Len(q) : q[i] = e
          BY <3>3, <4>1
        <5>2. i \in 1..Len(l) /\ i \in 1..Len(q)+Len(r) /\ i <= Len(q)
          BY <2>1, <3>3, <3>4
        <5>3. QED
          BY <3>4, <5>1, <5>2
      <4>2. CASE SlotOf(e) = k
        <5>1. PICK i \in 1..Len(r) : r[i] = e
          BY <2>2, <4>2
        <5>2. /\ Len(q) + i \in 1..Len(l) /\ Len(q) + i \in 1..Len(q)+Len(r)
              /\ ~ (Len(q) + i <= Len(q)) /\ Len(q) + i - Len(q) = i
          BY <2>1, <3>3, <3>4
        <5>3. QED
          BY <3>4, <5>1, <5>2
      <4>3. QED
        BY <2>2, <3>8, <4>1, <4>2
    <3>9. Len(l) \in Nat
      BY <2>1, <3>3, <3>4
    <3>10. QED
      BY <3>4, <3>6, <3>7, <3>8, <3>9 DEF l
  <2>5. QED
    BY <2>3, <2>4
<1>10. Nat \subseteq T
  <2> HIDE DEF T
  <2>1. QED
    BY <1>8, <1>9, SetInduction
<1>11. Listed(flat[n], n)
  <2>1. n \in Nat /\ n \in 1..n
    BY <1>1
  <2> HIDE DEF Listed
  <2>2. QED
    BY <1>10, <2>1
<1>12. \A e \in E : SlotOf(e) < n
  BY <1>1, <1>6
<1>13. QED
  BY <1>2, <1>7, <1>11, <1>12

(* An array of empty chains.                                                *)
LEMMA SizeLemma ==
    ASSUME NEW size, NEW used, NEW data, NEW next \in [Nodes -> Places],
           NEW prev \in [Nodes -> Places], NEW n \in Nat \ {0}
    PROVE  LET u == binhash_size([size |-> size, used |-> used, data |-> data,
                                  next |-> next, prev |-> prev], n)
           IN  /\ u \in Tables /\ u.size >= n /\ u.used = 0
               /\ u.data = [i \in 0..u.size-1 |-> NULL]
               /\ u.next = next /\ u.prev = prev
<1> DEFINE m == IF n % 2 = 0 THEN n + 1 ELSE n
           empty == [i \in 0..m-1 |-> NULL]
           t == [size |-> size, used |-> used, data |-> data, next |-> next, prev |-> prev]
           u == [size |-> m, used |-> 0, data |-> empty, next |-> next, prev |-> prev]
<1>1. m \in Nat \ {0} /\ m >= n
  OBVIOUS
<1>2. empty \in [0..m-1 -> Places]
  BY DEF Places
<1>3. binhash_size(t, n) = u
  <2>1. binhash_size(t, n) = [t EXCEPT !.size = m, !.used = 0, !.data = empty]
    BY DEF binhash_size
  <2> HIDE DEF m, empty
  <2>2. QED
    BY <2>1
<1> HIDE DEF m
<1>4. u \in Tables
  <2> HIDE DEF empty
  <2>1. u \in TablesOf(m)
    BY <1>1, <1>2 DEF TablesOf
  <2>2. QED
    BY <1>1, <2>1, TablesLemma
<1>5. QED
  BY <1>1, <1>3, <1>4

(* The chains of an empty table.                                            *)
LEMMA EmptyLemma ==
    ASSUME NEW t \in Tables, t.data = [i \in 0..t.size-1 |-> NULL], NEW f
    PROVE  Chained(t, [i \in 0..t.size-1 |-> <<>>], {}, f)
<1> DEFINE c == [i \in 0..t.size-1 |-> <<>>]
<1>1. <<>> \in Seq({}) /\ Len(<<>>) = 0 /\ 1..0 = {}
  OBVIOUS
<1>2. c \in [0..t.size-1 -> Seq({})]
  BY <1>1
<1>3. \A i \in 0..t.size-1 : t.data[i] = NULL /\ c[i] = <<>>
  OBVIOUS
<1>4. Leads(t, NULL, <<>>)
  BY <1>1 DEF Leads, At
<1> HIDE DEF c
<1>5. Chained(t, c, {}, f)
  BY <1>1, <1>2, <1>3, <1>4 DEF Chained
<1>6. QED
  BY <1>5 DEF c

(* binhash_grow() loses no entry: every one is in the chain of its key in   *)
(* the longer array.                                                        *)
LEMMA GrowLemma ==
    ASSUME NEW t \in Tables, NEW c, NEW E, Chained(t, c, E, info), Loose(t, E)
    PROVE  /\ binhash_grow(t) \in Tables
           /\ binhash_grow(t).used = Len(binhash_list(t))
           /\ binhash_grow(t).size >= 2 * t.size
           /\ Loose(binhash_grow(t), E)
           /\ \E d : Chained(binhash_grow(t), d, E, info)
<1> DEFINE list == binhash_list(t)
           n == Len(list)
           start == binhash_size(t, 2 * t.size)
           Body(g) == g = [j \in 0..n |-> IF j = 0 THEN start
                                          ELSE binhash_link(g[j - 1], list[j], info[list[j]].key)]
           moved == CHOOSE g : Body(g)
           step == [j \in 0..n |-> [x \in Tables |->
                       IF j = 0 THEN x ELSE binhash_link(x, list[j], info[list[j]].key)]]
           First(j) == {list[i] : i \in 1..j}
<1>1. binhash_grow(t) = moved[n]
  BY DEF binhash_grow
<1>2. /\ list \in Seq(E) /\ n \in Nat
      /\ \A i, j \in 1..n : list[i] = list[j] => i = j
      /\ \A e \in E : \E i \in 1..n : list[i] = e
  BY ListLemma
<1>3. E \in SUBSET Nodes /\ \A e \in E : info[e] \in Infos /\ info[e].key \in Keys
  BY DEF Chained, Infos
<1> HIDE DEF list
<1>4. \A j \in 1..n : list[j] \in E /\ list[j] \in Nodes /\ info[list[j]] \in Infos /\ info[list[j]].key \in Keys
  BY <1>2, <1>3, ElementOfSeq
<1>5. /\ start \in Tables /\ start.size >= 2 * t.size /\ start.used = 0
      /\ start.data = [i \in 0..start.size-1 |-> NULL] /\ start.next = t.next
  <2>1. t = [size |-> t.size, used |-> t.used, data |-> t.data, next |-> t.next, prev |-> t.prev]
    BY TableLemma DEF TablesOf
  <2>2. 2 * t.size \in Nat \ {0} /\ t.next \in [Nodes -> Places] /\ t.prev \in [Nodes -> Places]
    BY TableLemma
  <2>3. QED
    BY <2>1, <2>2, SizeLemma
<1> HIDE DEF n, start
<1>6. \A j \in 0..n : \A x \in Tables :
         /\ step[j][x] = IF j = 0 THEN x ELSE binhash_link(x, list[j], info[list[j]].key)
         /\ step[j][x] \in Tables
  <2> SUFFICES ASSUME NEW j \in 0..n, NEW x \in Tables
               PROVE  step[j][x] \in Tables
    OBVIOUS
  <2>1. CASE j = 0
    BY <2>1
  <2>2. CASE j # 0
    <3>1. j \in 1..n
      BY <1>2, <2>2
    <3>2. QED
      BY <1>4, <2>2, <3>1, LinkType
  <2>3. QED
    BY <2>1, <2>2
<1> HIDE DEF step
<1>7. PICK g : Recursive(g, 0, n, Tables, start, step)
  <2>1. 0 \in Int /\ n \in Int /\ 0 <= n
    BY <1>2
  <2>2. QED
    BY <1>5, <1>6, <2>1, RecursionLemma
<1>8. Body(g)
  <2>1. ASSUME NEW j \in 0..n, j # 0
        PROVE  g[j] = binhash_link(g[j - 1], list[j], info[list[j]].key)
    <3>1. j - 1 \in 0..n
      BY <1>2, <2>1
    <3>2. g[j - 1] \in Tables /\ g[j] = step[j][g[j - 1]]
      BY <1>7, <2>1, <3>1 DEF Recursive
    <3>3. QED
      BY <1>6, <2>1, <3>2
  <2>2. g[0] = start /\ g = [j \in 0..n |-> g[j]]
    BY <1>7 DEF Recursive
  <2>3. QED
    BY <2>1, <2>2
<1>9. Body(moved)
  <2> HIDE DEF Body
  <2>1. QED
    BY <1>8
<1> HIDE DEF moved
<1>10. moved[0] = start
       /\ \A j \in 0..n : j # 0 => moved[j] = binhash_link(moved[j - 1], list[j], info[list[j]].key)
  <2>1. 0 \in 0..n
    BY <1>2
  <2>2. QED
    BY <1>9, <2>1
<1> DEFINE Moved(u, j) == /\ u \in Tables /\ u.used = j /\ u.size = start.size
                          /\ \E d : Chained(u, d, First(j), info)
                          /\ \A m \in Nodes \ E : u.next[m] = t.next[m]
           T == {k \in Nat : k \in 0..n => Moved(moved[k], k)}
<1>11. 0 \in T
  <2>1. First(0) = {}
    OBVIOUS
  <2> HIDE DEF First
  <2>2. Moved(start, 0)
    BY <1>5, <2>1, EmptyLemma
  <2> HIDE DEF Moved
  <2>3. QED
    BY <1>10, <2>2
<1>12. ASSUME NEW k \in Nat, k \in T PROVE k + 1 \in T
  <2> SUFFICES ASSUME k + 1 \in 0..n PROVE Moved(moved[k + 1], k + 1)
    <3> HIDE DEF Moved
    <3>1. QED
      OBVIOUS
  <2>0. PICK e, u, v : e = list[k + 1] /\ u = moved[k] /\ v = moved[k + 1]
    OBVIOUS
  <2>1. k \in 0..n /\ k + 1 \in 1..n /\ (k + 1) - 1 = k /\ k + 1 # 0
    BY <1>2
  <2>2. Moved(u, k)
    <3> HIDE DEF Moved
    <3>1. QED
      BY <1>12, <2>0, <2>1
  <2>3. v = binhash_link(u, e, info[e].key)
    BY <1>10, <2>0, <2>1
  <2>4. e \in E /\ e \in Nodes /\ info[e] \in Infos /\ info[e].key \in Keys
    BY <1>4, <2>0, <2>1
  <2>5. e \notin First(k) /\ First(k + 1) = First(k) \cup {e}
    <3>1. \A i \in 1..k : i \in 1..n /\ i # k + 1
      BY <1>2, <2>1
    <3>2. 1..(k + 1) = (1..k) \cup {k + 1}
      OBVIOUS
    <3>3. e \notin First(k)
      BY <1>2, <2>0, <2>1, <3>1
    <3>4. First(k + 1) = First(k) \cup {e}
      BY <2>0, <3>2
    <3>5. QED
      BY <3>3, <3>4
  <2> HIDE DEF First
  <2>6. /\ v \in Tables /\ v.size = u.size /\ v.used = u.used + 1
        /\ \A m \in Nodes : m # e => v.next[m] = u.next[m]
    <3>1. PICK key : key = info[e].key
      OBVIOUS
    <3>2. u \in Tables /\ e \in Nodes /\ key \in Keys /\ v = binhash_link(u, e, key)
      BY <2>2, <2>3, <2>4, <3>1
    <3>3. QED
      BY <3>2, LinkNext
  <2>7. \A m \in Nodes \ E : v.next[m] = t.next[m]
    BY <2>2, <2>4, <2>6
  <2>8. PICK d : Chained(u, d, First(k), info)
    BY <2>2
  <2>9. \E x : Chained(v, x, First(k + 1), info)
    <3>0. u \in Tables /\ e \notin First(k)
      BY <2>2, <2>5
    <3>1. \E x : Chained(v, x, First(k) \cup {e}, info)
      BY <2>3, <2>4, <2>8, <3>0, LinkExists
    <3>2. QED
      BY <2>5, <3>1
  <2>10. QED
    BY <2>0, <2>2, <2>6, <2>7, <2>9
<1>13. Nat \subseteq T
  <2> HIDE DEF T
  <2>1. QED
    BY <1>11, <1>12, SetInduction
<1>14. Moved(moved[n], n)
  <2> HIDE DEF Moved
  <2>1. n \in Nat /\ n \in 0..n
    BY <1>2
  <2>2. QED
    BY <1>13, <2>1
<1>15. First(n) = E
  BY <1>2, <1>4
<1> HIDE DEF First
<1>16. QED
  BY <1>1, <1>5, <1>14, <1>15 DEF Loose, n, list
-----------------------------------------------------------------------------
Used(f) == {n \in Nodes : f[n] # NULL}

\* What holds of the table t and of the entries f between two calls.
Sound(t, f) ==
    /\ t \in Tables
    /\ f \in [Nodes -> Infos \cup {NULL}]
    /\ IsFiniteSet(Used(f)) /\ t.used = Cardinality(Used(f)) /\ t.used <= t.size
    /\ Loose(t, Used(f))
    /\ \A m, n \in Used(f) : f[m].key = f[n].key => m = n
    /\ \E c : Chained(t, c, Used(f), f)

HashIInv == Sound(table, info)

Located(t, f, k) ==
    LET chain == Chain(t, t.data[Slot(t, k)])
        I == {i \in 1..Len(chain) : f[chain[i]].key = k}
    IN  IF \E i \in DOMAIN chain : f[chain[i]].key = k
        THEN chain[IF I # {} THEN Min(I) ELSE 0] ELSE NULL

(* The entries in use have keys and values.                                 *)
LEMMA UsedLemma ==
    ASSUME NEW f \in [Nodes -> Infos \cup {NULL}]
    PROVE  Used(f) \in SUBSET Nodes /\ \A n \in Used(f) : f[n] \in Infos /\ f[n].key \in Keys /\ f[n].value \in Values
BY DEF Used, Infos

(* The chains depend on the entries that are in them only.                  *)
LEMMA ChainedAgree ==
    ASSUME NEW t \in Tables, NEW c, NEW E, NEW f, NEW g, Chained(t, c, E, f),
           \A e \in E : g[e] = f[e]
    PROVE  Chained(t, c, E, g)
<1>1. \A i \in 0..t.size-1 : \A j \in 1..Len(c[i]) : c[i][j] \in E
  BY ChainedLemma
<1>2. QED
  BY <1>1 DEF Chained

(* A search along the chain of a key finds the entry of that key.           *)
LEMMA LocatedLemma ==
    ASSUME NEW t, NEW f, Sound(t, f), NEW k \in Keys
    PROVE  /\ \A n \in Used(f) : f[n].key = k => Located(t, f, k) = n
           /\ Located(t, f, k) # NULL => /\ Located(t, f, k) \in Used(f)
                                        /\ f[Located(t, f, k)].key = k
<1>1. PICK c : Chained(t, c, Used(f), f)
  BY DEF Sound
<1>2. t \in Tables /\ Loose(t, Used(f)) /\ f \in [Nodes -> Infos \cup {NULL}]
  BY DEF Sound
<1> DEFINE i == Slot(t, k)
           s == c[i]
           I == {j \in 1..Len(s) : f[s[j]].key = k}
<1>3. i \in 0..t.size-1
  BY <1>2, TableLemma, SlotLemma
<1> HIDE DEF i
<1>4. /\ s \in Seq(Used(f)) /\ Len(s) \in Nat
      /\ \A j \in 1..Len(s) : s[j] \in Used(f)
  BY <1>1, <1>2, <1>3, ChainedLemma
<1>5. Chain(t, t.data[i]) = s
  BY <1>1, <1>2, <1>3, ChainLemma
<1> HIDE DEF s
<1>6. DOMAIN s = 1..Len(s)
  BY <1>4
<1>7. I # {} => Min(I) \in I
  <2>1. I \in SUBSET Nat
    BY <1>4
  <2> HIDE DEF I
  <2>2. QED
    BY <2>1, MinLemma
<1>8. Located(t, f, k) = IF I # {} THEN s[Min(I)] ELSE NULL
  BY <1>5, <1>6 DEF Located, i
<1>9. ASSUME NEW n \in Used(f), f[n].key = k PROVE I # {}
  <2>1. \E j \in 1..Len(c[Slot(t, f[n].key)]) : c[Slot(t, f[n].key)][j] = n
    BY <1>1, <1>2, FoundLemma
  <2>2. PICK j \in 1..Len(s) : s[j] = n
    BY <1>9, <2>1 DEF s, i
  <2>3. QED
    BY <1>9, <2>2
<1>10. I # {} => s[Min(I)] \in Used(f) /\ f[s[Min(I)]].key = k
  BY <1>4, <1>7
<1> HIDE DEF I
<1>11. \A m, n \in Used(f) : f[m].key = f[n].key => m = n
  BY DEF Sound
<1>12. QED
  BY <1>8, <1>9, <1>10, <1>11

(* An empty table.                                                          *)
LEMMA CreateSound ==
    ASSUME NEW n \in Nat
    PROVE  Sound(binhash_create(n), [e \in Nodes |-> NULL])
<1> DEFINE m == IF n < MinSize THEN MinSize ELSE n
           none == [e \in Nodes |-> NULL]
           t == binhash_create(n)
<1>1. m \in Nat \ {0}
  BY BinHashAssumption
<1>2. none \in [Nodes -> Places]
  BY DEF Places
<1>3. /\ t \in Tables /\ t.size >= m /\ t.used = 0
      /\ t.data = [i \in 0..t.size-1 |-> NULL]
      /\ t.next = none
  <2> HIDE DEF m, none
  <2>1. PICK q : q = <<>>
    OBVIOUS
  <2> DEFINE u == binhash_size([size |-> 0, used |-> 0, data |-> q, next |-> none, prev |-> none], m)
  <2>2. t = u
    BY <2>1 DEF binhash_create, m, none
  <2>3. /\ u \in Tables /\ u.size >= m /\ u.used = 0
        /\ u.data = [i \in 0..u.size-1 |-> NULL]
        /\ u.next = none /\ u.prev = none
    BY <1>1, <1>2, SizeLemma
  <2> HIDE DEF t, u
  <2>4. QED
    BY <2>2, <2>3
<1> HIDE DEF t, m
<1>4. Used(none) = {} /\ none \in [Nodes -> Infos \cup {NULL}]
  BY DEF Used
<1>5. IsFiniteSet({}) /\ Cardinality({}) = 0
  BY FS_EmptySet
<1>6. Loose(t, {})
  BY <1>3 DEF Loose
<1>7. \E c : Chained(t, c, {}, none)
  BY <1>3, EmptyLemma
<1>8. t.used <= t.size
  BY <1>3, TableLemma
<1> HIDE DEF none
<1>9. Sound(t, none)
  BY <1>3, <1>4, <1>5, <1>6, <1>7, <1>8 DEF Sound
<1>10. QED
  BY <1>9 DEF t, none

(* binhash_enter() with a key that the table does not have.                 *)
LEMMA EnterSound ==
    ASSUME Sound(table, info), NEW k \in Keys, NEW n \in Nodes \ Used(info),
           \A m \in Used(info) : info[m].key # k,
           NEW g \in [Nodes -> Infos \cup {NULL}], g[n] \in Infos, g[n].key = k,
           \A m \in Nodes : m # n => g[m] = info[m],
           NEW t, t = IF table.used >= table.size THEN binhash_grow(table) ELSE table,
           NEW w, w = binhash_link(t, n, k)
    PROVE  /\ Sound(w, g)
           /\ Used(g) = Used(info) \cup {n}
<1> DEFINE E == Used(info)
           F == E \cup {n}
           u == IF table.used >= table.size THEN binhash_grow(table) ELSE table
<1>0. t = u
  OBVIOUS
<1>1. /\ table \in Tables /\ info \in [Nodes -> Infos \cup {NULL}] /\ IsFiniteSet(E)
      /\ table.used = Cardinality(E) /\ Loose(table, E) /\ E \in SUBSET Nodes
  BY UsedLemma DEF Sound
<1>2. PICK c : Chained(table, c, E, info)
  BY DEF Sound
<1>3. /\ t \in Tables /\ Loose(t, E) /\ t.used = Cardinality(E) /\ t.used < t.size
      /\ \E d : Chained(t, d, E, info)
  <2>1. CASE ~ (table.used >= table.size)
    <3>1. t = table /\ table.used < table.size
      BY <1>0, <1>1, <2>1, TableLemma
    <3>2. QED
      BY <1>1, <1>2, <3>1
  <2>2. CASE table.used >= table.size
    <3>1. t = binhash_grow(table)
      BY <1>0, <2>2
    <3>2. /\ t \in Tables /\ t.used = Len(binhash_list(table)) /\ t.size >= 2 * table.size
          /\ Loose(t, E) /\ \E d : Chained(t, d, E, info)
      BY <1>1, <1>2, <3>1, GrowLemma
    <3>3. Len(binhash_list(table)) = Cardinality(E)
      BY <1>1, <1>2, ListLemma, CardinalityLemma
    <3>4. table.used <= table.size /\ table.size \in Nat \ {0} /\ table.used \in Nat
          /\ t.size \in Nat
      BY <1>1, <3>2, TableLemma DEF Sound
    <3>5. t.used < t.size
      BY <1>1, <3>2, <3>3, <3>4
    <3>6. QED
      BY <3>2, <3>3, <3>5
  <2>3. QED
    BY <2>1, <2>2
<1>4. PICK d : Chained(t, d, E, info)
  BY <1>3
<1>5. /\ n \in Nodes /\ n \notin E /\ g \in [Nodes -> Infos \cup {NULL}]
      /\ g[n] \in Infos /\ g[n].key = k
      /\ \A m \in Nodes : m # n => g[m] = info[m]
  OBVIOUS
<1>6. Used(g) = F
  <2>1. g[n] # NULL
    BY <1>5, NullLemma
  <2>2. QED
    BY <1>5, <2>1 DEF Used
<1>7. \A e \in E : g[e] = info[e]
  BY <1>1, <1>5
<1> HIDE DEF E, u
<1>8. Chained(t, d, E, g)
  BY <1>3, <1>4, <1>7, ChainedAgree
<1>9. w = binhash_link(t, n, k)
  OBVIOUS
<1>10. \E c1 : Chained(w, c1, F, g)
  <2>1. t \in Tables /\ n \in Nodes /\ n \notin E /\ g[n] \in Infos /\ w = binhash_link(t, n, g[n].key)
    BY <1>3, <1>5, <1>9
  <2>2. \E c1 : Chained(w, c1, E \cup {n}, g)
    BY <1>8, <2>1, LinkExists
  <2>3. QED
    BY <2>2
<1>11. /\ w \in Tables /\ w.size = t.size /\ w.used = t.used + 1
       /\ \A m \in Nodes : m # n => w.next[m] = t.next[m]
  BY <1>3, <1>5, <1>9, LinkNext
<1>12. Loose(w, F)
  BY <1>3, <1>11 DEF Loose
<1>13. IsFiniteSet(F) /\ Cardinality(F) = Cardinality(E) + 1
  BY <1>1, <1>5, FS_AddElement
<1>14. w.used = Cardinality(F) /\ w.used <= w.size
  <2>1. t.used \in Nat /\ t.size \in Nat
    BY <1>3, TableLemma
  <2>2. QED
    BY <1>3, <1>11, <1>13, <2>1
<1>15. \A l, m \in F : g[l].key = g[m].key => l = m
  <2>1. \A l, m \in E : info[l].key = info[m].key => l = m
    BY DEF Sound, E
  <2>2. \A m \in E : g[m].key # k
    BY <1>7 DEF E
  <2>3. QED
    BY <1>5, <1>7, <2>1, <2>2
<1> HIDE DEF F
<1>16. Sound(w, g)
  BY <1>5, <1>6, <1>10, <1>11, <1>12, <1>13, <1>14, <1>15 DEF Sound
<1>17. QED
  BY <1>6, <1>16 DEF F, E

(* binhash_delete() with an entry of the table.                             *)
LEMMA DeleteSound ==
    ASSUME NEW t, NEW f, Sound(t, f), NEW e \in Used(f),
           NEW g \in [Nodes -> Infos \cup {NULL}], g[e] = NULL,
           \A m \in Nodes : m # e => g[m] = f[m]
    PROVE  /\ Sound(Unlink(t, e, f[e].key), g)
           /\ Used(g) = Used(f) \ {e}
<1> DEFINE E == Used(f)
           F == E \ {e}
           k == f[e].key
           i == Slot(t, k)
<1>1. /\ t \in Tables /\ f \in [Nodes -> Infos \cup {NULL}] /\ IsFiniteSet(E)
      /\ t.used = Cardinality(E) /\ t.used <= t.size /\ Loose(t, E) /\ E \in SUBSET Nodes
  BY UsedLemma DEF Sound
<1>2. PICK c : Chained(t, c, E, f)
  BY DEF Sound
<1>3. /\ e \in Nodes /\ g \in [Nodes -> Infos \cup {NULL}] /\ g[e] = NULL
      /\ \A m \in Nodes : m # e => g[m] = f[m]
  BY <1>1
<1>4. Used(g) = F
  BY <1>3 DEF Used
<1>5. \A m \in F : g[m] = f[m]
  BY <1>1, <1>3
<1> HIDE DEF E
<1>6. e \in E
  BY DEF E
<1>7. k \in Keys /\ i \in 0..t.size-1 /\ \E p \in 1..Len(c[i]) : c[i][p] = e
  BY <1>1, <1>2, <1>6, FoundLemma
<1>8. PICK p \in 1..Len(c[i]) : c[i][p] = e
  BY <1>7
<1>9. t.used > 0 /\ t.used \in Nat /\ t.size \in Nat
  <2>1. Cardinality(E) # 0
    BY <1>1, <1>6, FS_EmptySet
  <2>2. QED
    BY <1>1, <2>1, TableLemma
<1>10. PICK w : w = Unlink(t, e, k)
  OBVIOUS
<1>11. \E d : Chained(w, d, F, g)
  <2>1. \A m \in E \ {e} : g[m] = f[m]
    BY <1>5
  <2>2. p \in 1..Len(c[Slot(t, f[e].key)]) /\ c[Slot(t, f[e].key)][p] = e
    BY <1>8
  <2>3. Chained(Unlink(t, e, f[e].key),
                [c EXCEPT ![Slot(t, f[e].key)] = RemoveAt(@, p)], E \ {e}, g)
    BY <1>1, <1>2, <1>6, <1>9, <2>1, <2>2, UnlinkLemma
  <2>4. QED
    BY <1>10, <2>3
<1>12. w \in Tables /\ w.size = t.size /\ w.used = t.used - 1
  BY <1>1, <1>3, <1>7, <1>9, <1>10, UnlinkType
<1>13. \A m \in Nodes : w.next[m] = IF m = e THEN NULL
                                    ELSE IF m = t.prev[e] THEN t.next[e] ELSE t.next[m]
  BY <1>1, <1>3, <1>7, <1>9, <1>10, UnlinkType
<1>14. t.prev[e] \in E \cup {NULL}
  <2>1. c[i] \in Seq(E) /\ p \in Nat
    BY <1>1, <1>2, <1>7, ChainedLemma
  <2>2. t.prev[e] = At(c[i], p - 1)
    BY <1>1, <1>2, <1>7, <1>8, ChainedLemma
  <2>3. \A j \in 1..Len(c[i]) : c[i][j] \in E
    BY <1>1, <1>2, <1>7, ChainedLemma
  <2>4. QED
    BY <2>2, <2>3 DEF At
<1>15. Loose(w, F)
  <2>1. ASSUME NEW m \in Nodes \ F, m # e PROVE w.next[m] = NULL
    <3>1. m \notin E /\ m # NULL
      BY <2>1, NullLemma
    <3>2. m # t.prev[e] /\ t.next[m] = NULL
      BY <1>1, <1>14, <3>1 DEF Loose
    <3>3. QED
      BY <1>13, <2>1, <3>2
  <2>2. QED
    BY <1>3, <1>13, <2>1 DEF Loose
<1>16. IsFiniteSet(F) /\ Cardinality(F) = Cardinality(E) - 1
  BY <1>1, <1>6, FS_RemoveElement
<1>17. w.used = Cardinality(F) /\ w.used <= w.size
  BY <1>1, <1>9, <1>12, <1>16
<1>18. \A l, m \in F : g[l].key = g[m].key => l = m
  BY <1>5 DEF Sound, E
<1> HIDE DEF F, k
<1>19. Sound(w, g)
  BY <1>3, <1>4, <1>11, <1>12, <1>15, <1>16, <1>17, <1>18 DEF Sound
<1>20. QED
  BY <1>4, <1>10, <1>19 DEF k, F, E

(* What binhash_locate() finds before and after a step.                     *)
LEMMA LocateIs ==
    /\ \A k : binhash_locate(k) = Located(table, info, k)
    /\ \A k : binhash_locate(k)' = Located(table', info', k)
BY DEF binhash_locate, Located, SelectInSeq

\* A key is entered, or the entry of a key is deleted.
LEMMA HashStep ==
    ASSUME HashIInv, HashNext
    PROVE  \E k \in Keys :
              \/ \E n \in Nodes \ Used(info), x \in Values :
                    /\ info' = [info EXCEPT ![n] = [key |-> k, value |-> x]]
                    /\ \A m \in Used(info) : info[m].key # k
                    /\ HashIInv' /\ Used(info') = Used(info) \cup {n}
              \/ \E e \in Used(info) :
                    /\ info' = [info EXCEPT ![e] = NULL]
                    /\ info[e].key = k
                    /\ HashIInv' /\ Used(info') = Used(info) \ {e}
<1>1. PICK k \in Keys : \/ binhash_locate(k) = NULL /\ \E x \in Values : binhash_enter(k, x)
                        \/ binhash_delete(k)
  BY DEF HashNext
<1>2. Sound(table, info) /\ Used(info) \in SUBSET Nodes /\ Used(info) = InUse
  BY UsedLemma DEF HashIInv, Sound, Used, InUse
<1>3. CASE binhash_locate(k) = NULL /\ \E x \in Values : binhash_enter(k, x)
  <2>1. PICK x \in Values : binhash_enter(k, x)
    BY <1>3
  <2>2. PICK n \in Nodes \ Used(info) :
           /\ info' = [info EXCEPT ![n] = [key |-> k, value |-> x]]
           /\ table' = binhash_link(IF table.used >= table.size THEN binhash_grow(table) ELSE table,
                                    n, k)
    BY <1>2, <2>1 DEF binhash_enter
  <2>3. \A m \in Used(info) : info[m].key # k
    <3>1. \A m \in Used(info) : m # NULL
      BY <1>2, NullLemma
    <3>2. Located(table, info, k) = NULL
      BY <1>3, LocateIs
    <3>3. \A m \in Used(info) : info[m].key = k => Located(table, info, k) = m
      BY <1>2, LocatedLemma
    <3>4. QED
      BY <3>1, <3>2, <3>3
  <2>4. Sound(table', info') /\ Used(info') = Used(info) \cup {n}
    <3>1. PICK g, w, t : /\ g = info' /\ w = table'
                         /\ t = IF table.used >= table.size THEN binhash_grow(table) ELSE table
      OBVIOUS
    <3>2. /\ g \in [Nodes -> Infos \cup {NULL}] /\ g[n] \in Infos /\ g[n].key = k
          /\ \A m \in Nodes : m # n => g[m] = info[m]
      <4>1. info \in [Nodes -> Infos \cup {NULL}]
        BY <1>2 DEF Sound
      <4>2. [key |-> k, value |-> x] \in Infos
        BY DEF Infos
      <4>3. QED
        BY <2>2, <3>1, <4>1, <4>2
    <3>3. w = binhash_link(t, n, k)
      BY <2>2, <3>1
    <3>4. Sound(w, g) /\ Used(g) = Used(info) \cup {n}
      <4>1. Sound(table, info)
        BY <1>2
      <4>2. t = IF table.used >= table.size THEN binhash_grow(table) ELSE table
        BY <3>1
      <4>3. QED
        BY <2>3, <3>2, <3>3, <4>1, <4>2, EnterSound
    <3>5. QED
      BY <3>1, <3>4
  <2>5. QED
    BY <2>2, <2>3, <2>4 DEF HashIInv
<1>4. CASE binhash_delete(k)
  <2>1. PICK e : e = binhash_locate(k)
    OBVIOUS
  <2>2. e \in Used(info) /\ info[e].key = k
    BY <1>2, <1>4, <2>1, LocateIs, LocatedLemma DEF binhash_delete
  <2>3. info' = [info EXCEPT ![e] = NULL] /\ table' = Unlink(table, e, info[e].key)
    BY <1>4, <2>1, <2>2 DEF binhash_delete
  <2>4. Sound(table', info') /\ Used(info') = Used(info) \ {e}
    <3>1. PICK g : g = info'
      OBVIOUS
    <3>2. /\ g \in [Nodes -> Infos \cup {NULL}] /\ g[e] = NULL
          /\ \A m \in Nodes : m # e => g[m] = info[m]
          /\ Sound(table, info)
      <4>1. info \in [Nodes -> Infos \cup {NULL}] /\ e \in Nodes
        BY <1>2, <2>2 DEF Sound
      <4>2. QED
        BY <1>2, <2>3, <3>1, <4>1
    <3>3. Sound(Unlink(table, e, info[e].key), g) /\ Used(g) = Used(info) \ {e}
      BY <2>2, <3>2, DeleteSound
    <3>4. QED
      BY <2>3, <3>1, <3>3
  <2>5. QED
    BY <2>2, <2>3, <2>4 DEF HashIInv
<1>5. QED
  BY <1>1, <1>3, <1>4

(* The invariant of a hash table holds after every call.                    *)
LEMMA HashInvariance == HashSpec => []HashIInv
<1>1. HashInit => HashIInv
  BY CreateSound DEF HashInit, HashIInv
<1>2. HashIInv /\ [HashNext]_hashVars => HashIInv'
  <2> SUFFICES ASSUME HashIInv, [HashNext]_hashVars PROVE HashIInv'
    OBVIOUS
  <2>1. CASE HashNext
    BY <2>1, HashStep
  <2>2. CASE UNCHANGED hashVars
    BY <2>2 DEF HashIInv, hashVars
  <2>3. QED
    BY <2>1, <2>2
<1>3. QED
  BY <1>1, <1>2, PTL DEF HashSpec

(* The invariant gives ChainsSound.                                         *)
LEMMA ChainsLemma ==
    ASSUME HashIInv
    PROVE  ChainsSound
<1> DEFINE list == binhash_list(table)
<1>1. /\ table \in Tables /\ Loose(table, InUse) /\ table.used = Cardinality(InUse)
      /\ table.used <= table.size /\ InUse \in SUBSET Nodes /\ Used(info) = InUse
  BY DEF HashIInv, Sound, Used, InUse
<1>2. PICK c : Chained(table, c, InUse, info)
  BY <1>1 DEF HashIInv, Sound
<1>3. Len(list) = Cardinality(InUse)
  BY <1>1, <1>2, ListLemma, CardinalityLemma
<1>4. ASSUME NEW i \in 0..table.size-1, NEW chain, chain = Chain(table, table.data[i]),
             NEW j \in DOMAIN chain
      PROVE  /\ info[chain[j]] # NULL
             /\ Slot(table, info[chain[j]].key) = i
             /\ table.prev[chain[j]] = IF j = 1 THEN NULL ELSE chain[j - 1]
  <2>1. chain = c[i]
    BY <1>1, <1>2, <1>4, ChainLemma
  <2>2. chain \in Seq(InUse) /\ Len(chain) \in Nat
    BY <1>1, <1>2, <2>1, ChainedLemma
  <2>3. j \in 1..Len(chain)
    BY <2>2
  <2>4. /\ chain[j] \in InUse /\ Slot(table, info[chain[j]].key) = i
        /\ table.prev[chain[j]] = At(chain, j - 1)
    BY <1>1, <1>2, <2>1, <2>3, ChainedLemma
  <2>5. At(chain, j - 1) = IF j = 1 THEN NULL ELSE chain[j - 1]
    BY <2>2, <2>3 DEF At
  <2>6. QED
    BY <2>4, <2>5 DEF InUse
<1>5. ASSUME NEW i \in 0..table.size-1
      PROVE  LET chain == Chain(table, table.data[i])
             IN  \A j \in DOMAIN chain :
                    /\ info[chain[j]] # NULL
                    /\ Slot(table, info[chain[j]].key) = i
                    /\ table.prev[chain[j]] = IF j = 1 THEN NULL ELSE chain[j - 1]
  <2>1. PICK chain : chain = Chain(table, table.data[i])
    OBVIOUS
  <2>2. QED
    BY <1>4, <2>1
<1>6. QED
  BY <1>1, <1>3, <1>5 DEF ChainsSound

(* Every entry is in the chain of its key and in no other place, the two    *)
(* pointers of neighbours agree, and used is the number of entries, however *)
(* the table has grown (binhash_enter, binhash_grow, binhash_delete).       *)
THEOREM HashSound == HashSpec => []ChainsSound
BY HashInvariance, ChainsLemma, PTL
-----------------------------------------------------------------------------
\* What the table finds, as a function of its entries.
KeysOf(f) == {f[n].key : n \in Used(f)}
Found(t, f, k) == IF Located(t, f, k) = NULL THEN NULL ELSE f[Located(t, f, k)].value
Contents(t, f) == [k \in {l \in Keys : Found(t, f, l) # NULL} |-> Found(t, f, k)]

(* What is found are the values of the entries in use, by their keys.       *)
LEMMA FindLemma ==
    ASSUME NEW t, NEW f, Sound(t, f)
    PROVE  /\ DOMAIN Contents(t, f) = KeysOf(f)
           /\ \A n \in Used(f) : Contents(t, f)[f[n].key] = f[n].value
<1> DEFINE D == {l \in Keys : Found(t, f, l) # NULL}
<1>1. \A n \in Used(f) : f[n].key \in Keys /\ f[n].value \in Values
  BY UsedLemma DEF Sound
<1>2. ASSUME NEW n \in Used(f) PROVE Found(t, f, f[n].key) = f[n].value /\ f[n].key \in D
  <2>1. Located(t, f, f[n].key) = n
    BY <1>1, LocatedLemma
  <2>2. n # NULL /\ f[n].value # NULL
    BY <1>1, NullLemma DEF Used
  <2>3. QED
    BY <1>1, <2>1, <2>2 DEF Found
<1>3. ASSUME NEW k \in D PROVE k \in KeysOf(f)
  <2>1. Located(t, f, k) # NULL
    BY <1>3 DEF Found
  <2>2. Located(t, f, k) \in Used(f) /\ f[Located(t, f, k)].key = k
    BY <2>1, LocatedLemma
  <2>3. QED
    BY <2>2 DEF KeysOf
<1>4. D = KeysOf(f)
  BY <1>2, <1>3 DEF KeysOf
<1>5. Contents(t, f) = [k \in D |-> Found(t, f, k)]
  BY DEF Contents
<1> HIDE DEF D
<1>6. QED
  BY <1>2, <1>4, <1>5

(* What the table promises to hold, before and after a step.                *)
LEMMA ContentsIs ==
    /\ Contents(table, info) = [k \in Stored |-> binhash_find(k)]
    /\ Contents(table, info)' = [k \in Stored |-> binhash_find(k)]'
<1>1. /\ \A k : binhash_find(k) = Found(table, info, k)
      /\ \A k : binhash_find(k)' = Found(table', info', k)
  BY LocateIs DEF binhash_find, Found
<1>2. QED
  BY <1>1 DEF Contents, Stored

(* An empty table is an empty dictionary.                                   *)
LEMMA ContentsInit ==
    ASSUME HashInit
    PROVE  Promise!Init
<1>1. Sound(table, info)
  BY CreateSound DEF HashInit
<1>2. KeysOf(info) = {}
  BY DEF HashInit, KeysOf, Used
<1>3. DOMAIN Contents(table, info) = {}
  BY <1>1, <1>2, FindLemma
<1>4. Contents(table, info) = <<>>
  BY <1>3 DEF Contents
<1>5. QED
  BY <1>4, ContentsIs DEF Promise!Init

(* Every call on the table is a call on the dictionary.                     *)
LEMMA ContentsStep ==
    ASSUME HashIInv, HashNext
    PROVE  Promise!Next
<1> DEFINE d == Contents(table, info)
           e == Contents(table', info')
<1>1. /\ Sound(table, info) /\ DOMAIN d = KeysOf(info)
      /\ \A n \in Used(info) : d[info[n].key] = info[n].value
  BY FindLemma DEF HashIInv
<1>2. d = [k \in DOMAIN d |-> d[k]] /\ e = [k \in DOMAIN e |-> e[k]]
  BY DEF Contents
<1>3. d = [k \in Stored |-> binhash_find(k)] /\ e = [k \in Stored |-> binhash_find(k)]'
  BY ContentsIs
<1> HIDE DEF d, e
<1>4. PICK k \in Keys :
         \/ \E n \in Nodes \ Used(info), x \in Values :
               /\ info' = [info EXCEPT ![n] = [key |-> k, value |-> x]]
               /\ \A m \in Used(info) : info[m].key # k
               /\ HashIInv' /\ Used(info') = Used(info) \cup {n}
         \/ \E n \in Used(info) :
               /\ info' = [info EXCEPT ![n] = NULL]
               /\ info[n].key = k
               /\ HashIInv' /\ Used(info') = Used(info) \ {n}
  BY HashStep
<1>5. info \in [Nodes -> Infos \cup {NULL}] /\ Used(info) \in SUBSET Nodes
  BY <1>1 DEF Sound, Used
<1>6. ASSUME HashIInv'
      PROVE  /\ DOMAIN e = KeysOf(info')
             /\ \A n \in Used(info') : e[info'[n].key] = info'[n].value
  <2>1. Sound(table', info')
    BY <1>6 DEF HashIInv
  <2>2. QED
    BY <2>1, FindLemma DEF e
<1>7. ASSUME NEW n \in Nodes \ Used(info), NEW x \in Values,
             info' = [info EXCEPT ![n] = [key |-> k, value |-> x]],
             \A m \in Used(info) : info[m].key # k,
             HashIInv', Used(info') = Used(info) \cup {n}
      PROVE  Promise!Enter(k, x)
  <2>1. info'[n] = [key |-> k, value |-> x] /\ \A m \in Used(info) : info'[m] = info[m]
    BY <1>5, <1>7
  <2>2. k \notin DOMAIN d
    BY <1>1, <1>7 DEF KeysOf
  <2>3. DOMAIN e = DOMAIN d \cup {k}
    <3>1. KeysOf(info') = KeysOf(info) \cup {k}
      <4>1. info'[n].key = k
        BY <2>1
      <4>2. \A m \in Used(info) : info'[m].key = info[m].key
        BY <2>1
      <4>3. KeysOf(info') = {info'[m].key : m \in Used(info) \cup {n}}
        BY <1>7 DEF KeysOf
      <4>4. QED
        BY <4>1, <4>2, <4>3 DEF KeysOf
    <3>2. QED
      BY <1>1, <1>6, <1>7, <3>1
  <2>4. e[k] = x
    <3>1. info'[n].key = k /\ info'[n].value = x
      BY <2>1
    <3>0. n \in Used(info')
      BY <1>7
    <3>2. e[info'[n].key] = info'[n].value
      BY <1>6, <1>7, <3>0
    <3>3. QED
      BY <3>1, <3>2
  <2>5. ASSUME NEW l \in DOMAIN d PROVE e[l] = d[l]
    <3>1. PICK m \in Used(info) : info[m].key = l
      BY <1>1 DEF KeysOf
    <3>2. d[l] = info[m].value
      BY <1>1, <3>1
    <3>3. e[l] = info[m].value
      BY <1>6, <1>7, <2>1, <3>1
    <3>4. QED
      BY <3>2, <3>3
  <2>6. e = [l \in DOMAIN d \cup {k} |-> IF l = k THEN x ELSE d[l]]
    <3>1. e = [l \in DOMAIN d \cup {k} |-> e[l]]
      BY <1>2, <2>3
    <3>2. \A l \in DOMAIN d \cup {k} : e[l] = IF l = k THEN x ELSE d[l]
      BY <2>2, <2>4, <2>5
    <3>3. QED
      BY <3>1, <3>2
  <2>7. QED
    BY <1>3, <2>2, <2>6 DEF Promise!Enter
<1>8. ASSUME NEW n \in Used(info), info' = [info EXCEPT ![n] = NULL], info[n].key = k,
             HashIInv', Used(info') = Used(info) \ {n}
      PROVE  Promise!Delete(k)
  <2>1. \A m \in Used(info') : m \in Used(info) /\ info'[m] = info[m]
    BY <1>5, <1>8
  <2>2. \A m \in Used(info) : info[m].key = k => m = n
    BY <1>1, <1>8 DEF Sound
  <2>3. k \in DOMAIN d
    BY <1>1, <1>8 DEF KeysOf
  <2>4. DOMAIN e = DOMAIN d \ {k}
    <3>1. KeysOf(info') = KeysOf(info) \ {k}
      <4>1. \A m \in Used(info') : info'[m].key = info[m].key /\ info[m].key # k
        BY <1>8, <2>1, <2>2
      <4>2. \A m \in Used(info) : info[m].key # k => m \in Used(info')
        BY <1>8
      <4>3. ASSUME NEW l \in KeysOf(info') PROVE l \in KeysOf(info) \ {k}
        BY <2>1, <4>1, <4>3 DEF KeysOf
      <4>4. ASSUME NEW l \in KeysOf(info) \ {k} PROVE l \in KeysOf(info')
        BY <4>1, <4>2, <4>4 DEF KeysOf
      <4>5. QED
        BY <4>3, <4>4
    <3>2. QED
      BY <1>1, <1>6, <1>8, <3>1
  <2>5. ASSUME NEW l \in DOMAIN d \ {k} PROVE e[l] = d[l]
    <3>1. PICK m \in Used(info) : info[m].key = l
      BY <1>1 DEF KeysOf
    <3>2. d[l] = info[m].value /\ m \in Used(info')
      BY <1>1, <1>8, <2>5, <3>1
    <3>3. e[l] = info[m].value
      BY <1>6, <1>8, <2>1, <3>1, <3>2
    <3>4. QED
      BY <3>2, <3>3
  <2>6. e = [l \in DOMAIN d \ {k} |-> d[l]]
    <3>1. e = [l \in DOMAIN d \ {k} |-> e[l]]
      BY <1>2, <2>4
    <3>2. QED
      BY <2>5, <3>1
  <2>7. QED
    BY <1>3, <2>3, <2>6 DEF Promise!Delete
<1>9. QED
  BY <1>4, <1>7, <1>8 DEF Promise!Next

(* The table finds exactly what was entered and not deleted since, through  *)
(* collisions and growth (binhash_find, binhash_enter, binhash_delete).     *)
THEOREM HashImplementsDictionary == HashSpec => ImplementsDictionary
<1>1. HashInit => Promise!Init
  BY ContentsInit
<1>2. HashIInv /\ [HashNext]_hashVars => [Promise!Next]_[k \in Stored |-> binhash_find(k)]
  <2> SUFFICES ASSUME HashIInv, [HashNext]_hashVars
               PROVE  [Promise!Next]_[k \in Stored |-> binhash_find(k)]
    OBVIOUS
  <2>1. CASE HashNext
    BY <2>1, ContentsStep
  <2>2. CASE UNCHANGED hashVars
    <3>1. UNCHANGED [k \in Stored |-> binhash_find(k)]
      <4>1. Contents(table, info)' = Contents(table, info)
        BY <2>2 DEF hashVars, Contents, Found, Located
      <4>2. QED
        BY <4>1, ContentsIs
    <3>2. QED
      BY <3>1
  <2>3. QED
    BY <2>1, <2>2
<1>3. QED
  BY <1>1, <1>2, HashInvariance, PTL DEF HashSpec, ImplementsDictionary, Promise!Spec
(***************************************************************************)
(* The reader of master.cf.                                                *)
(***************************************************************************)
(* A service holds the blocks of two entries:                               *)
(* its struct, name, host and port are those of the entry that made it, its *)
(* path and its arguments those of the entry that was read last.            *)
Purposes == {"null", "empty_string", "MASTER_SERV", "address", "name", "path", "host", "port",
             "ARGV", "argv", "arg"}

Pointers == Nat \X Purposes \X Nat

Argvs == [struct : Pointers, array : Pointers, len : Nat, strings : Seq(Pointers)]

Services == [name : STRING, wakeup_time : Int, condwake : BOOLEAN, mark : BOOLEAN, max_proc : Int,
             struct : Pointers, copy : Pointers, path : Pointers, host : Pointers, port : Pointers,
             args : Argvs]

Heaps == [live : SUBSET Pointers, bad : Pointers]

Made(serv, o) ==
    /\ serv.struct = <<o, "MASTER_SERV", 0>> /\ serv.copy = <<o, "name", 0>>
    /\ serv.host \in {NULL_PTR, <<o, "host", 0>>}
    /\ serv.port \in {EMPTY_STRING, <<o, "port", 0>>}

Updater(serv, o) ==
    /\ serv.path = <<o, "path", 0>>
    /\ serv.args.struct = <<o, "ARGV", 0>> /\ serv.args.array = <<o, "argv", 0>>
    /\ \A k \in 1..Len(serv.args.strings) : serv.args.strings[k] = <<o, "arg", k>>
    /\ Len(serv.args.strings) < serv.args.len

Maker(serv) == serv.struct[1]
Reader(serv) == serv.path[1]

Held(serv, n) ==
    /\ Maker(serv) \in 1..n /\ Reader(serv) \in 1..n
    /\ Made(serv, Maker(serv)) /\ Updater(serv, Reader(serv))

Distinct(s) ==
    \A i, j \in 1..Len(s) :
       i # j => s[i].name # s[j].name /\ Maker(s[i]) # Maker(s[j]) /\ Reader(s[i]) # Reader(s[j])

(* A list of services that were made of n entries.                          *)
Listed(s, n) ==
    /\ s \in Seq(Services) /\ n \in Nat
    /\ \A i \in 1..Len(s) : Held(s[i], n)
    /\ Distinct(s)

AllOwned(s) == UNION {Owned(s[i]) : i \in 1..Len(s)}

Addresses(n) == {Address(m) : m \in 1..n}

HeapSound ==
    /\ memory \in Heaps
    /\ memory.bad \in {NULL_PTR, EMPTY_STRING}
    /\ place # "fatal" =>
          memory.bad = NULL_PTR /\ memory.live = AllOwned(services) \cup Addresses(entries)

EntTyped ==
    /\ place \in {"idle", "config", "delete", "fatal"}
    /\ lines \in Seq(Lines)

EntIInv == EntTyped /\ HeapSound /\ Listed(services, entries)

(* Blocks that are in use and all different can be freed, the shared empty  *)
(* string among them being refused.                                         *)
LEMMA FreeLemma ==
    ASSUME NEW heap \in Heaps, NEW ptrs \in Seq(Pointers), heap.bad = NULL_PTR,
           \A k \in 1..Len(ptrs) : ptrs[k] \in heap.live \/ ptrs[k] = EMPTY_STRING,
           \A k, l \in 1..Len(ptrs) : ptrs[k] = ptrs[l] /\ k # l => ptrs[k] = EMPTY_STRING
    PROVE  /\ myfree_all(heap, ptrs) \in Heaps
           /\ myfree_all(heap, ptrs).bad \in {NULL_PTR, EMPTY_STRING}
           /\ myfree_all(heap, ptrs).live = heap.live \ {ptrs[k] : k \in 1..Len(ptrs)}
<1> DEFINE n == Len(ptrs)
           Body(g) == g = [i \in 0..n |-> IF i = 0 THEN heap ELSE myfree(g[i - 1], ptrs[i])]
           freed == CHOOSE g : Body(g)
           step == [j \in 0..n |-> [x \in Heaps |-> IF j = 0 THEN x ELSE myfree(x, ptrs[j])]]
<1>1. n \in Nat /\ \A j \in 1..n : ptrs[j] \in Pointers
  BY LenProperties, ElementOfSeq
<1>2. myfree_all(heap, ptrs) = freed[n]
  BY DEF myfree_all
<1>3. ASSUME NEW x \in Heaps, NEW p \in Pointers
      PROVE  /\ myfree(x, p) \in Heaps
             /\ myfree(x, p).live = x.live \ {p}
             /\ myfree(x, p).bad = IF p \in x.live \/ x.bad # NULL_PTR THEN x.bad ELSE p
  BY <1>3 DEF myfree, CHECK_IN_PTR, Heaps
<1> HIDE DEF n
<1>4. \A j \in 0..n : \A x \in Heaps :
         /\ step[j][x] = IF j = 0 THEN x ELSE myfree(x, ptrs[j])
         /\ step[j][x] \in Heaps
  <2> SUFFICES ASSUME NEW j \in 0..n, NEW x \in Heaps
               PROVE  step[j][x] \in Heaps
    OBVIOUS
  <2>1. CASE j = 0
    BY <2>1
  <2>2. CASE j # 0
    <3>1. j \in 1..n
      BY <1>1, <2>2
    <3>2. QED
      BY <1>1, <1>3, <2>2, <3>1
  <2>3. QED
    BY <2>1, <2>2
<1> HIDE DEF step
<1>5. PICK g : Recursive(g, 0, n, Heaps, heap, step)
  <2>1. 0 \in Int /\ n \in Int /\ 0 <= n
    BY <1>1
  <2>2. QED
    BY <1>4, <2>1, RecursionLemma
<1>6. Body(g)
  <2>1. ASSUME NEW j \in 0..n, j # 0
        PROVE  g[j] = myfree(g[j - 1], ptrs[j])
    <3>1. j - 1 \in 0..n
      BY <1>1, <2>1
    <3>2. g[j - 1] \in Heaps /\ g[j] = step[j][g[j - 1]]
      BY <1>5, <2>1, <3>1 DEF Recursive
    <3>3. QED
      BY <1>4, <2>1, <3>2
  <2>2. g[0] = heap /\ g = [j \in 0..n |-> g[j]]
    BY <1>5 DEF Recursive
  <2>3. QED
    BY <2>1, <2>2
<1>7. Body(freed)
  <2> HIDE DEF Body
  <2>1. QED
    BY <1>6
<1> HIDE DEF freed
<1>8. freed[0] = heap /\ \A j \in 0..n : j # 0 => freed[j] = myfree(freed[j - 1], ptrs[j])
  <2>1. 0 \in 0..n
    BY <1>1
  <2>2. QED
    BY <1>7, <2>1
<1> DEFINE Freed(u, j) == /\ u \in Heaps /\ u.bad \in {NULL_PTR, EMPTY_STRING}
                          /\ u.live = heap.live \ {ptrs[k] : k \in 1..j}
           T == {k \in Nat : k \in 0..n => Freed(freed[k], k)}
<1>9. 0 \in T
  BY <1>8
<1>10. ASSUME NEW k \in Nat, k \in T
       PROVE  k + 1 \in T
  <2> SUFFICES ASSUME k + 1 \in 0..n
               PROVE  Freed(freed[k + 1], k + 1)
    OBVIOUS
  <2>1. k \in 0..n /\ k + 1 \in 1..n /\ (k + 1) - 1 = k /\ k + 1 # 0
    BY <1>1
  <2>2. Freed(freed[k], k)
    BY <1>10, <2>1
  <2>3. freed[k + 1] = myfree(freed[k], ptrs[k + 1])
    BY <1>8, <2>1
  <2>4. ptrs[k + 1] \in Pointers /\ ptrs[k + 1] \in heap.live \cup {EMPTY_STRING}
    BY <1>1, <2>1 DEF n
  <2> HIDE DEF freed
  <2>5. freed[k + 1] \in Heaps /\ freed[k + 1].live = freed[k].live \ {ptrs[k + 1]}
        /\ freed[k + 1].bad = IF ptrs[k + 1] \in freed[k].live \/ freed[k].bad # NULL_PTR
                              THEN freed[k].bad ELSE ptrs[k + 1]
    <3> DEFINE x == freed[k]
               p == ptrs[k + 1]
    <3>1. x \in Heaps /\ p \in Pointers /\ freed[k + 1] = myfree(x, p)
      BY <2>2, <2>3, <2>4
    <3> HIDE DEF x, p
    <3>2. /\ myfree(x, p) \in Heaps
          /\ myfree(x, p).live = x.live \ {p}
          /\ myfree(x, p).bad = IF p \in x.live \/ x.bad # NULL_PTR THEN x.bad ELSE p
      BY <1>3, <3>1
    <3>3. QED
      BY <3>1, <3>2 DEF x, p
  <2>6. 1..k+1 = (1..k) \cup {k + 1}
    BY <2>1
  <2>7. freed[k + 1].live = heap.live \ {ptrs[l] : l \in 1..k+1}
    BY <2>2, <2>5, <2>6
  <2>8. ptrs[k + 1] \in freed[k].live \/ ptrs[k + 1] = EMPTY_STRING
    <3>1. ASSUME ptrs[k + 1] # EMPTY_STRING, NEW l \in 1..k
          PROVE  ptrs[l] # ptrs[k + 1]
      <4>1. l \in 1..n /\ l # k + 1
        BY <1>1, <2>1
      <4>2. QED
        BY <2>1, <3>1, <4>1 DEF n
    <3>2. QED
      BY <2>2, <2>4, <3>1
  <2>9. QED
    BY <2>2, <2>5, <2>7, <2>8
<1> HIDE DEF Freed
<1>11. Nat \subseteq T
  <2> HIDE DEF T
  <2>1. QED
    BY <1>9, <1>10, SetInduction
<1>12. Freed(freed[n], n)
  BY <1>1, <1>11
<1>13. QED
  BY <1>2, <1>12 DEF Freed, n

(* A vector holds the strings that were added to it, and has room for its   *)
(* terminator.                                                              *)
LEMMA BuildLemma ==
    ASSUME NEW o \in Nat, NEW n \in Nat
    PROVE  LET args == argv_build(o, n)
           IN  /\ args \in Argvs
               /\ args.struct = <<o, "ARGV", 0>> /\ args.array = <<o, "argv", 0>>
               /\ Len(args.strings) < args.len
               /\ \A k \in 1..Len(args.strings) : args.strings[k] = <<o, "arg", k>>
<1> DEFINE Body(g) == g = [i \in 0..n |-> IF i = 0 THEN argv_alloc(o)
                                          ELSE argv_add(g[i - 1], <<o, "arg", i>>)]
           built == CHOOSE g : Body(g)
           start == argv_alloc(o)
           step == [j \in 0..n |-> [x \in Argvs |-> IF j = 0 THEN x ELSE argv_add(x, <<o, "arg", j>>)]]
<1>1. argv_build(o, n) = built[n]
  BY DEF argv_build
<1>2. /\ start \in Argvs /\ start.strings = <<>> /\ start.len = 2
      /\ start.struct = <<o, "ARGV", 0>> /\ start.array = <<o, "argv", 0>>
  <2>1. <<o, "ARGV", 0>> \in Pointers /\ <<o, "argv", 0>> \in Pointers
    BY DEF Pointers, Purposes
  <2>2. QED
    BY <2>1 DEF argv_alloc, Argvs
<1>3. ASSUME NEW x \in Argvs, NEW p \in Pointers
      PROVE  /\ argv_add(x, p) \in Argvs
             /\ argv_add(x, p).struct = x.struct /\ argv_add(x, p).array = x.array
             /\ argv_add(x, p).strings = Append(x.strings, p)
             /\ argv_add(x, p).len = IF Len(x.strings) + 1 >= x.len THEN 2 * x.len ELSE x.len
  <2>1. /\ x.strings \in Seq(Pointers) /\ x.len \in Nat /\ Append(x.strings, p) \in Seq(Pointers)
        /\ 2 * x.len \in Nat
    BY AppendProperties DEF Argvs
  <2>2. QED
    BY <2>1 DEF argv_add, Argvs
<1>4. \A j \in 0..n : <<o, "arg", j>> \in Pointers
  <2>1. 0..n \subseteq Nat /\ "arg" \in Purposes
    BY DEF Purposes
  <2>2. QED
    BY <2>1 DEF Pointers
<1>5. \A j \in 0..n : \A x \in Argvs :
         /\ step[j][x] = IF j = 0 THEN x ELSE argv_add(x, <<o, "arg", j>>)
         /\ step[j][x] \in Argvs
  BY <1>3, <1>4
<1> HIDE DEF step, start
<1>6. PICK g : Recursive(g, 0, n, Argvs, start, step)
  <2>1. 0 \in Int /\ n \in Int /\ 0 <= n
    OBVIOUS
  <2>2. QED
    BY <1>2, <1>5, <2>1, RecursionLemma
<1>7. Body(g)
  <2>1. ASSUME NEW j \in 0..n, j # 0
        PROVE  g[j] = argv_add(g[j - 1], <<o, "arg", j>>)
    <3>1. j - 1 \in 0..n
      BY <2>1
    <3>2. g[j - 1] \in Argvs /\ g[j] = step[j][g[j - 1]]
      BY <1>6, <2>1, <3>1 DEF Recursive
    <3>3. QED
      BY <1>5, <2>1, <3>2
  <2>2. g[0] = start /\ g = [j \in 0..n |-> g[j]]
    BY <1>6 DEF Recursive
  <2>3. QED
    BY <2>1, <2>2 DEF start
<1>8. Body(built)
  <2> HIDE DEF Body
  <2>1. QED
    BY <1>7
<1> HIDE DEF built
<1>9. built[0] = start /\ \A j \in 0..n : j # 0 => built[j] = argv_add(built[j - 1], <<o, "arg", j>>)
  <2>1. 0 \in 0..n
    OBVIOUS
  <2>2. QED
    BY <1>8, <2>1 DEF start
<1> DEFINE Built(x, j) == /\ x \in Argvs /\ x.struct = <<o, "ARGV", 0>> /\ x.array = <<o, "argv", 0>>
                          /\ Len(x.strings) = j /\ j < x.len
                          /\ \A k \in 1..j : x.strings[k] = <<o, "arg", k>>
           T == {k \in Nat : k \in 0..n => Built(built[k], k)}
<1>10. 0 \in T
  BY <1>2, <1>9
<1>11. ASSUME NEW k \in Nat, k \in T
       PROVE  k + 1 \in T
  <2> SUFFICES ASSUME k + 1 \in 0..n
               PROVE  Built(built[k + 1], k + 1)
    OBVIOUS
  <2> DEFINE x == built[k]
             p == <<o, "arg", k + 1>>
             y == argv_add(x, p)
  <2>1. k \in 0..n /\ (k + 1) - 1 = k /\ k + 1 # 0
    OBVIOUS
  <2>2. Built(x, k)
    BY <1>11, <2>1
  <2>3. built[k + 1] = y
    BY <1>9, <2>1
  <2>4. p \in Pointers
    BY <1>4
  <2> HIDE DEF x, p
  <2>5. /\ y \in Argvs /\ y.struct = x.struct /\ y.array = x.array
        /\ y.strings = Append(x.strings, p)
        /\ y.len = IF Len(x.strings) + 1 >= x.len THEN 2 * x.len ELSE x.len
    BY <1>3, <2>2, <2>4
  <2> HIDE DEF y
  <2>6. x.strings \in Seq(Pointers) /\ x.len \in Nat
    BY <2>2 DEF Argvs
  <2>7. /\ Len(y.strings) = k + 1 /\ y.strings[k + 1] = p
        /\ \A l \in 1..k : y.strings[l] = x.strings[l]
    BY <2>2, <2>4, <2>5, <2>6, AppendProperties
  <2>8. k + 1 < y.len
    BY <2>2, <2>5, <2>6
  <2>9. \A l \in 1..k+1 : y.strings[l] = <<o, "arg", l>>
    <3> SUFFICES ASSUME NEW l \in 1..k+1
                 PROVE  y.strings[l] = <<o, "arg", l>>
      OBVIOUS
    <3>1. CASE l = k + 1
      BY <2>7, <3>1 DEF p
    <3>2. CASE l \in 1..k
      BY <2>2, <2>7, <3>2
    <3>3. QED
      BY <3>1, <3>2
  <2>10. QED
    BY <2>2, <2>3, <2>5, <2>7, <2>8, <2>9
<1> HIDE DEF Built
<1>12. Nat \subseteq T
  <2> HIDE DEF T
  <2>1. QED
    BY <1>10, <1>11, SetInduction
<1>13. Built(built[n], n)
  BY <1>12
<1>14. QED
  BY <1>1, <1>13 DEF Built

MakerPart(serv) == {serv.struct, serv.copy, serv.host, serv.port} \ {NULL_PTR, EMPTY_STRING}

UpdaterPart(serv) ==
    {serv.path, serv.args.array, serv.args.struct}
    \cup {serv.args.strings[k] : k \in 1..Len(serv.args.strings)}

(* The blocks of a service are all different: where a block stands in their *)
(* sequence follows from its purpose and its number.                        *)
LEMMA BlocksLemma ==
    ASSUME NEW serv \in Services, NEW o \in Nat, NEW u \in Nat, o > 0, u > 0,
           Made(serv, o), Updater(serv, u)
    PROVE  /\ Blocks(serv) \in Seq(Pointers)
           /\ \A k, l \in 1..Len(Blocks(serv)) : Blocks(serv)[k] = Blocks(serv)[l] => k = l
           /\ Owned(serv) = MakerPart(serv) \cup UpdaterPart(serv)
<1> DEFINE args == serv.args
           H == IF serv.host = NULL_PTR THEN <<>> ELSE <<serv.host>>
           P == <<serv.port, serv.copy, serv.path>>
           S == args.strings
           A == <<args.array, args.struct>>
           Z == <<serv.struct>>
           h == Len(H)
           m == Len(S)
           HP == H \o P
           SA == S \o A
           HS == HP \o SA
           B == HS \o Z
<1>1. /\ serv.host \in Pointers /\ serv.port \in Pointers /\ serv.copy \in Pointers
      /\ serv.path \in Pointers /\ serv.struct \in Pointers
      /\ args.array \in Pointers /\ args.struct \in Pointers /\ S \in Seq(Pointers)
  BY DEF Services, Argvs
<1>2. /\ H \in Seq(Pointers) /\ h \in {0, 1} /\ Len(H) = h /\ (h = 1 <=> serv.host # NULL_PTR)
      /\ h = 1 => H[1] = serv.host
  BY <1>1
<1>3. /\ P \in Seq(Pointers) /\ Len(P) = 3
      /\ P[1] = serv.port /\ P[2] = serv.copy /\ P[3] = serv.path
  BY <1>1
<1>4. /\ A \in Seq(Pointers) /\ Len(A) = 2 /\ A[1] = args.array /\ A[2] = args.struct
      /\ Z \in Seq(Pointers) /\ Len(Z) = 1 /\ Z[1] = serv.struct
  BY <1>1
<1>5. m \in Nat /\ S \in Seq(Pointers) /\ Len(S) = m
  BY <1>1, LenProperties
<1>6. Blocks(serv) = B
  BY DEF Blocks, argv_blocks
<1> HIDE DEF H, P, S, A, Z, h, m
<1>7. /\ HP \in Seq(Pointers) /\ Len(HP) = h + 3
      /\ h = 1 => HP[1] = serv.host
      /\ HP[h + 1] = serv.port /\ HP[h + 2] = serv.copy /\ HP[h + 3] = serv.path
  <2>1. h \in Nat
    BY <1>2
  <2>2. /\ HP \in Seq(Pointers) /\ Len(HP) = h + 3
        /\ \A i \in 1..h : HP[i] = H[i]
        /\ \A i \in 1..3 : HP[h + i] = P[i]
    <3>1. H \in Seq(Pointers) /\ P \in Seq(Pointers)
      BY <1>2, <1>3
    <3>2. /\ HP \in Seq(Pointers) /\ Len(HP) = Len(H) + Len(P)
          /\ \A i \in 1..Len(H) : HP[i] = H[i]
          /\ \A i \in 1..Len(P) : HP[Len(H) + i] = P[i]
      BY <3>1, JoinLemma
    <3> HIDE DEF HP
    <3>3. QED
      BY <1>2, <1>3, <2>1, <3>2
  <2> HIDE DEF HP
  <2>3. QED
    BY <1>2, <1>3, <2>2
<1>8. /\ SA \in Seq(Pointers) /\ Len(SA) = m + 2
      /\ \A k \in 1..m : SA[k] = S[k]
      /\ SA[m + 1] = args.array /\ SA[m + 2] = args.struct
  <2>1. /\ SA \in Seq(Pointers) /\ Len(SA) = m + 2
        /\ \A i \in 1..m : SA[i] = S[i]
        /\ \A i \in 1..2 : SA[m + i] = A[i]
    <3>1. S \in Seq(Pointers) /\ A \in Seq(Pointers)
      BY <1>4, <1>5
    <3>2. /\ SA \in Seq(Pointers) /\ Len(SA) = Len(S) + Len(A)
          /\ \A i \in 1..Len(S) : SA[i] = S[i]
          /\ \A i \in 1..Len(A) : SA[Len(S) + i] = A[i]
      BY <3>1, JoinLemma
    <3> HIDE DEF SA
    <3>3. QED
      BY <1>4, <1>5, <3>2
  <2> HIDE DEF SA
  <2>2. QED
    BY <1>4, <2>1
<1> HIDE DEF HP, SA
<1>9. /\ HS \in Seq(Pointers) /\ Len(HS) = h + m + 5
      /\ \A k \in 1..h+3 : HS[k] = HP[k]
      /\ \A k \in 1..m+2 : HS[h + 3 + k] = SA[k]
  <2>1. h + 3 \in Nat /\ m + 2 \in Nat /\ (h + 3) + (m + 2) = h + m + 5
    BY <1>2, <1>5
  <2>2. QED
    <3>1. HP \in Seq(Pointers) /\ SA \in Seq(Pointers)
      BY <1>7, <1>8
    <3>2. /\ HS \in Seq(Pointers) /\ Len(HS) = Len(HP) + Len(SA)
          /\ \A i \in 1..Len(HP) : HS[i] = HP[i]
          /\ \A i \in 1..Len(SA) : HS[Len(HP) + i] = SA[i]
      BY <3>1, JoinLemma
    <3> HIDE DEF HS
    <3>3. QED
      BY <1>7, <1>8, <2>1, <3>2
<1> HIDE DEF HS
<1>10. /\ B \in Seq(Pointers) /\ Len(B) = h + m + 6
       /\ \A k \in 1..h+m+5 : B[k] = HS[k]
       /\ B[h + m + 6] = serv.struct
  <2>1. h + m + 5 \in Nat /\ (h + m + 5) + 1 = h + m + 6 /\ 1 \in 1..1 /\ 1 \in Nat
    BY <1>2, <1>5
  <2>2. /\ B \in Seq(Pointers) /\ Len(B) = (h + m + 5) + 1
        /\ \A k \in 1..h+m+5 : B[k] = HS[k]
        /\ \A k \in 1..1 : B[(h + m + 5) + k] = Z[k]
    <3>1. HS \in Seq(Pointers) /\ Z \in Seq(Pointers)
      BY <1>4, <1>9
    <3>2. /\ B \in Seq(Pointers) /\ Len(B) = Len(HS) + Len(Z)
          /\ \A i \in 1..Len(HS) : B[i] = HS[i]
          /\ \A i \in 1..Len(Z) : B[Len(HS) + i] = Z[i]
      BY <3>1, JoinLemma
    <3> HIDE DEF B
    <3>3. QED
      BY <1>4, <1>9, <2>1, <3>2
  <2> HIDE DEF B
  <2>3. QED
    BY <1>4, <2>1, <2>2
<1> HIDE DEF B
<1>11. /\ h = 1 => B[1] = serv.host
       /\ B[h + 1] = serv.port /\ B[h + 2] = serv.copy /\ B[h + 3] = serv.path
  <2>1. /\ h + 1 \in 1..h+3 /\ h + 2 \in 1..h+3 /\ h + 3 \in 1..h+3 /\ 1 \in 1..h+3
        /\ 1..h+3 \subseteq 1..h+m+5
    BY <1>2, <1>5
  <2>2. QED
    BY <1>7, <1>9, <1>10, <2>1
<1>12. /\ \A k \in 1..m : B[h + 3 + k] = S[k]
       /\ B[h + m + 4] = args.array /\ B[h + m + 5] = args.struct
  <2>1. ASSUME NEW k \in 1..m+2
        PROVE  B[h + 3 + k] = SA[k]
    <3>1. h + 3 + k \in 1..h+m+5
      BY <1>2, <1>5
    <3>2. QED
      BY <1>9, <1>10, <3>1
  <2>2. 1..m \subseteq 1..m+2 /\ m + 1 \in 1..m+2 /\ m + 2 \in 1..m+2
        /\ h + 3 + (m + 1) = h + m + 4 /\ h + 3 + (m + 2) = h + m + 5
    BY <1>2, <1>5
  <2>3. QED
    BY <1>8, <2>1, <2>2
<1>13. /\ \/ serv.host = NULL_PTR
          \/ serv.host = <<o, "host", 0>>
       /\ \/ serv.port = EMPTY_STRING
          \/ serv.port = <<o, "port", 0>>
       /\ serv.copy = <<o, "name", 0>> /\ serv.struct = <<o, "MASTER_SERV", 0>>
       /\ serv.path = <<u, "path", 0>>
       /\ args.struct = <<u, "ARGV", 0>> /\ args.array = <<u, "argv", 0>>
       /\ \A k \in 1..m : S[k] = <<u, "arg", k>>
  BY DEF Made, Updater, S, m
<1> DEFINE Place(p) == IF p[2] = "host" THEN 1
                       ELSE IF p[2] = "port" \/ p[2] = "empty_string" THEN h + 1
                       ELSE IF p[2] = "name" THEN h + 2
                       ELSE IF p[2] = "path" THEN h + 3
                       ELSE IF p[2] = "arg" THEN h + 3 + p[3]
                       ELSE IF p[2] = "argv" THEN h + m + 4
                       ELSE IF p[2] = "ARGV" THEN h + m + 5
                       ELSE h + m + 6
<1>14. ASSUME NEW k \in 1..h+m+6
       PROVE  \/ k = 1 /\ h = 1
              \/ k = h + 1
              \/ k = h + 2
              \/ k = h + 3
              \/ k - h - 3 \in 1..m
              \/ k = h + m + 4
              \/ k = h + m + 5
              \/ k = h + m + 6
  BY <1>2, <1>5
<1>15. ASSUME NEW k \in 1..h+m+6
       PROVE  Place(B[k]) = k
  <2>1. CASE k = 1 /\ h = 1
    <3>1. B[k] = <<o, "host", 0>>
      BY <1>2, <1>11, <1>13, <2>1
    <3>2. QED
      BY <2>1, <3>1
  <2>2. CASE k = h + 1
    <3>1. B[k] = <<0, "empty_string", 0>> \/ B[k] = <<o, "port", 0>>
      BY <1>11, <1>13, <2>2 DEF EMPTY_STRING
    <3>2. QED
      BY <2>2, <3>1
  <2>3. CASE k = h + 2
    BY <1>11, <1>13, <2>3
  <2>4. CASE k = h + 3
    BY <1>11, <1>13, <2>4
  <2>5. CASE k - h - 3 \in 1..m
    <3>1. k = h + 3 + (k - h - 3)
      BY <1>2
    <3>2. B[k] = <<u, "arg", k - h - 3>>
      BY <1>12, <1>13, <2>5, <3>1
    <3>3. QED
      BY <3>1, <3>2
  <2>6. CASE k = h + m + 4
    BY <1>12, <1>13, <2>6
  <2>7. CASE k = h + m + 5
    BY <1>12, <1>13, <2>7
  <2>8. CASE k = h + m + 6
    BY <1>10, <1>13, <2>8
  <2>9. QED
    BY <1>14, <2>1, <2>2, <2>3, <2>4, <2>5, <2>6, <2>7, <2>8
<1>16. \A k, l \in 1..h+m+6 : B[k] = B[l] => k = l
  <2> HIDE DEF Place
  <2>1. QED
    BY <1>15
<1>17. ASSUME NEW k \in 1..h+m+6, B[k] # EMPTY_STRING
       PROVE  B[k] \in MakerPart(serv) \cup UpdaterPart(serv)
  <2>1. serv.copy # NULL_PTR /\ serv.struct # NULL_PTR /\ serv.port # NULL_PTR
    <3>1. serv.port = <<0, "empty_string", 0>> \/ serv.port = <<o, "port", 0>>
      BY <1>13 DEF EMPTY_STRING
    <3>2. QED
      BY <1>13, <3>1 DEF NULL_PTR
  <2>2. CASE k = 1 /\ h = 1
    BY <1>2, <1>11, <1>17, <2>2 DEF MakerPart
  <2>3. CASE k \in {h + 1, h + 2, h + 3}
    BY <1>11, <1>17, <2>1, <2>3 DEF MakerPart, UpdaterPart
  <2>4. CASE k - h - 3 \in 1..m
    <3>1. k = h + 3 + (k - h - 3)
      BY <1>2
    <3>2. B[k] = S[k - h - 3]
      BY <1>12, <2>4, <3>1
    <3>3. QED
      BY <2>4, <3>2 DEF UpdaterPart, S, m
  <2>5. CASE k \in {h + m + 4, h + m + 5, h + m + 6}
    BY <1>10, <1>12, <1>17, <2>1, <2>5 DEF MakerPart, UpdaterPart
  <2>6. QED
    BY <1>14, <2>2, <2>3, <2>4, <2>5
<1>18. ASSUME NEW p \in MakerPart(serv) \cup UpdaterPart(serv)
       PROVE  p # EMPTY_STRING /\ \E k \in 1..h+m+6 : B[k] = p
  <2>1. /\ h + 1 \in 1..h+m+6 /\ h + 2 \in 1..h+m+6 /\ h + 3 \in 1..h+m+6
        /\ h + m + 4 \in 1..h+m+6 /\ h + m + 5 \in 1..h+m+6 /\ h + m + 6 \in 1..h+m+6
        /\ 1 \in 1..h+m+6
    BY <1>2, <1>5
  <2>2. CASE p \in MakerPart(serv)
    <3>1. p # EMPTY_STRING /\ p # NULL_PTR
      BY <2>2 DEF MakerPart
    <3>2. CASE p = serv.host
      BY <1>2, <1>11, <2>1, <3>1, <3>2
    <3>3. CASE p \in {serv.port, serv.copy, serv.struct}
      BY <1>10, <1>11, <2>1, <3>1, <3>3
    <3>4. QED
      BY <2>2, <3>2, <3>3 DEF MakerPart
  <2>3. CASE p \in {serv.path, args.array, args.struct}
    BY <1>11, <1>12, <1>13, <2>1, <2>3 DEF EMPTY_STRING
  <2>4. CASE \E k \in 1..m : p = S[k]
    <3>1. PICK k \in 1..m : p = S[k]
      BY <2>4
    <3>2. h + 3 + k \in 1..h+m+6 /\ B[h + 3 + k] = p /\ p = <<u, "arg", k>>
      BY <1>2, <1>5, <1>12, <1>13, <3>1
    <3>3. QED
      BY <3>2 DEF EMPTY_STRING
  <2>5. QED
    BY <2>2, <2>3, <2>4 DEF UpdaterPart, S, m
<1>19. Owned(serv) = {B[k] : k \in 1..h+m+6} \ {EMPTY_STRING}
  BY <1>6, <1>10 DEF Owned, ToSet
<1>20. Owned(serv) = MakerPart(serv) \cup UpdaterPart(serv)
  BY <1>17, <1>18, <1>19
<1>21. QED
  BY <1>6, <1>10, <1>16, <1>20

(* The blocks bear the number of the entry they belong to, and their        *)
(* purpose.                                                                 *)
LEMMA PartsLemma ==
    ASSUME NEW serv \in Services, NEW o \in Nat, NEW u \in Nat, Made(serv, o), Updater(serv, u)
    PROVE  /\ \A p \in MakerPart(serv) : p[1] = o /\ p[2] \in {"MASTER_SERV", "name", "host", "port"}
           /\ \A p \in UpdaterPart(serv) : p[1] = u /\ p[2] \in {"path", "argv", "ARGV", "arg"}
BY DEF Made, Updater, MakerPart, UpdaterPart, NULL_PTR, EMPTY_STRING

(* What is needed of a service: its blocks are those of its maker and       *)
(* those of its reader, and can be told apart.                              *)
LEMMA HeldLemma ==
    ASSUME NEW serv \in Services, NEW n \in Nat, Held(serv, n)
    PROVE  /\ Blocks(serv) \in Seq(Pointers)
           /\ \A k, l \in 1..Len(Blocks(serv)) : Blocks(serv)[k] = Blocks(serv)[l] => k = l
           /\ Owned(serv) = MakerPart(serv) \cup UpdaterPart(serv)
           /\ Owned(serv) \subseteq Pointers /\ EMPTY_STRING \notin Owned(serv)
           /\ \A p \in MakerPart(serv) :
                 p[1] = Maker(serv) /\ p[2] \in {"MASTER_SERV", "name", "host", "port"}
           /\ \A p \in UpdaterPart(serv) :
                 p[1] = Reader(serv) /\ p[2] \in {"path", "argv", "ARGV", "arg"}
<1>1. /\ Maker(serv) \in Nat /\ Reader(serv) \in Nat /\ Maker(serv) > 0 /\ Reader(serv) > 0
      /\ Made(serv, Maker(serv)) /\ Updater(serv, Reader(serv))
  BY DEF Held
<1> HIDE DEF Maker, Reader
<1>2. /\ Blocks(serv) \in Seq(Pointers)
      /\ \A k, l \in 1..Len(Blocks(serv)) : Blocks(serv)[k] = Blocks(serv)[l] => k = l
      /\ Owned(serv) = MakerPart(serv) \cup UpdaterPart(serv)
  BY <1>1, BlocksLemma
<1>3. /\ \A p \in MakerPart(serv) :
            p[1] = Maker(serv) /\ p[2] \in {"MASTER_SERV", "name", "host", "port"}
      /\ \A p \in UpdaterPart(serv) :
            p[1] = Reader(serv) /\ p[2] \in {"path", "argv", "ARGV", "arg"}
  BY <1>1, PartsLemma
<1>4. Owned(serv) \subseteq Pointers /\ EMPTY_STRING \notin Owned(serv)
  <2>1. \A k \in DOMAIN Blocks(serv) : Blocks(serv)[k] \in Pointers
    BY <1>2, ElementOfSeq
  <2>2. QED
    BY <2>1 DEF Owned, ToSet
<1>5. QED
  BY <1>2, <1>3, <1>4

(* The parts of services of which neither the makers nor the readers are    *)
(* the same have no block in common, and none is the copy of an address.    *)
LEMMA DisjointLemma ==
    ASSUME NEW s \in Services, NEW t \in Services, NEW m \in Nat, NEW n \in Nat, Held(s, m), Held(t, n)
    PROVE  /\ Maker(s) # Maker(t) => MakerPart(s) \cap MakerPart(t) = {}
           /\ Reader(s) # Reader(t) => UpdaterPart(s) \cap UpdaterPart(t) = {}
           /\ MakerPart(s) \cap UpdaterPart(t) = {}
           /\ UpdaterPart(s) \cap MakerPart(t) = {}
           /\ \A k \in Nat : Owned(s) \cap Addresses(k) = {}
<1> DEFINE M == {"MASTER_SERV", "name", "host", "port"}
           U == {"path", "argv", "ARGV", "arg"}
<1>1. /\ \A p \in MakerPart(s) : p[1] = Maker(s) /\ p[2] \in M
      /\ \A p \in UpdaterPart(s) : p[1] = Reader(s) /\ p[2] \in U
      /\ Owned(s) = MakerPart(s) \cup UpdaterPart(s)
  BY HeldLemma
<1>2. /\ \A p \in MakerPart(t) : p[1] = Maker(t) /\ p[2] \in M
      /\ \A p \in UpdaterPart(t) : p[1] = Reader(t) /\ p[2] \in U
  BY HeldLemma
<1>3. M \cap U = {} /\ "address" \notin M \cup U
  OBVIOUS
<1>4. \A k \in Nat : \A p \in Addresses(k) : p[2] = "address"
  BY DEF Addresses, Address
<1> HIDE DEF M, U
<1>5. QED
  BY <1>1, <1>2, <1>3, <1>4

(* What free_master_ent() leaves of a heap in which the blocks of the       *)
(* service are in use.                                                      *)
LEMMA FreeEntLemma ==
    ASSUME NEW heap \in Heaps, NEW serv \in Services, NEW n \in Nat, Held(serv, n),
           heap.bad = NULL_PTR, Owned(serv) \subseteq heap.live, EMPTY_STRING \notin heap.live
    PROVE  /\ free_master_ent(heap, serv) \in Heaps
           /\ free_master_ent(heap, serv).bad \in {NULL_PTR, EMPTY_STRING}
           /\ free_master_ent(heap, serv).live = heap.live \ Owned(serv)
<1> DEFINE B == Blocks(serv)
<1>1. /\ B \in Seq(Pointers)
      /\ \A k, l \in 1..Len(B) : B[k] = B[l] => k = l
  BY HeldLemma
<1>2. Owned(serv) = {B[k] : k \in 1..Len(B)} \ {EMPTY_STRING}
  BY <1>1, LenProperties DEF Owned, ToSet
<1> HIDE DEF B
<1>3. \A k \in 1..Len(B) : B[k] \in heap.live \/ B[k] = EMPTY_STRING
  BY <1>2
<1>4. /\ myfree_all(heap, B) \in Heaps
      /\ myfree_all(heap, B).bad \in {NULL_PTR, EMPTY_STRING}
      /\ myfree_all(heap, B).live = heap.live \ {B[k] : k \in 1..Len(B)}
  BY <1>1, <1>3, FreeLemma
<1>5. free_master_ent(heap, serv) = myfree_all(heap, B)
  BY DEF free_master_ent, B
<1>6. QED
  BY <1>2, <1>4, <1>5

(* The argument vector of a line that is not fatal is a sequence.           *)
LEMMA ArgumentsLemma ==
    ASSUME NEW line \in Lines, Len(line) >= 5
    PROVE  Len(Arguments(line)) \in Nat
<1> DEFINE W == STRING \cup {"-l", "-n", "-t"}
           a == <<line[5]>>
           b == IF get_int_ent(line, 4, var_proc_limit) = 1 THEN <<"-l">> ELSE <<>>
           c == IF basename[line[5]] # line[1] THEN <<"-n", line[1]>> ELSE <<>>
           d == <<"-t", line[2]>>
           e == SubSeq(line, 6, Len(line))
<1>1. line \in Seq(STRING) /\ Len(line) \in Nat /\ \A i \in 1..Len(line) : line[i] \in STRING
  BY EntAssumption, LenProperties, ElementOfSeq
<1>2. line[5] \in W /\ line[1] \in W /\ line[2] \in W /\ "-l" \in W /\ "-n" \in W /\ "-t" \in W
  BY <1>1
<1>3. line \in Seq(W)
  BY <1>1
<1> HIDE DEF W
<1>4. a \in Seq(W) /\ b \in Seq(W) /\ c \in Seq(W) /\ d \in Seq(W)
  BY <1>2
<1>5. e \in Seq(W)
  BY <1>1, <1>3, SubSeqProperties
<1> HIDE DEF a, b, c, d, e
<1>6. a \o b \in Seq(W)
  BY <1>4, ConcatProperties
<1>7. a \o b \o c \in Seq(W)
  BY <1>4, <1>6, ConcatProperties
<1>8. a \o b \o c \o d \in Seq(W)
  BY <1>4, <1>7, ConcatProperties
<1>9. a \o b \o c \o d \o e \in Seq(W)
  BY <1>5, <1>8, ConcatProperties
<1>10. Arguments(line) = a \o b \o c \o d \o e
  BY DEF Arguments, a, b, c, d, e
<1>11. QED
  BY <1>9, <1>10, LenProperties

(* The entry of a line holds blocks of its own.                             *)
LEMMA EntryLemma ==
    ASSUME NEW line \in Lines, ~ IsBlank(line), ~ IsFatal(line), NEW n \in Nat, n > 0, NEW condwake \in BOOLEAN
    PROVE  LET e == get_master_ent(n, line, condwake)
           IN  /\ e \in Services /\ e.name = line[1]
               /\ Held(e, n) /\ Maker(e) = n /\ Reader(e) = n
<1> DEFINE e == get_master_ent(n, line, condwake)
           a == argv_build(n, Len(Arguments(line)))
<1>1. line \in Seq(STRING) /\ Len(line) \in Nat /\ \A i \in 1..Len(line) : line[i] \in STRING
  BY EntAssumption, LenProperties, ElementOfSeq
<1>2. Len(line) >= 5
  <2>1. get_str_ent(line, 5, FATAL) # FATAL
    BY DEF IsFatal
  <2>2. QED
    BY <1>1, <2>1 DEF get_str_ent
<1>3. line[1] \in STRING
  BY <1>1, <1>2
<1>4. ASSUME NEW i \in Nat, NEW def_val \in Int
      PROVE  get_int_ent(line, i, def_val) \in Int
  BY <1>4, EntAssumption DEF get_int_ent
<1>5. get_int_ent(line, 3, 0) \in Int /\ get_int_ent(line, 4, var_proc_limit) \in Int
  BY <1>4 DEF var_proc_limit
<1>6. Len(Arguments(line)) \in Nat
  BY <1>2, ArgumentsLemma
<1>7. /\ a \in Argvs /\ a.struct = <<n, "ARGV", 0>> /\ a.array = <<n, "argv", 0>>
      /\ Len(a.strings) < a.len
      /\ \A k \in 1..Len(a.strings) : a.strings[k] = <<n, "arg", k>>
  BY <1>6, BuildLemma
<1> HIDE DEF a
<1>8. /\ e.name = line[1]
      /\ e.struct = <<n, "MASTER_SERV", 0>> /\ e.copy = <<n, "name", 0>> /\ e.path = <<n, "path", 0>>
      /\ e.host \in {NULL_PTR, <<n, "host", 0>>} /\ e.port \in {EMPTY_STRING, <<n, "port", 0>>}
      /\ e.args = a
  BY DEF get_master_ent, mystrdup, a
<1>9. e \in Services
  <2>1. /\ <<n, "MASTER_SERV", 0>> \in Pointers /\ <<n, "name", 0>> \in Pointers
        /\ <<n, "path", 0>> \in Pointers /\ <<n, "host", 0>> \in Pointers
        /\ <<n, "port", 0>> \in Pointers /\ NULL_PTR \in Pointers /\ EMPTY_STRING \in Pointers
    BY DEF Pointers, Purposes, NULL_PTR, EMPTY_STRING
  <2>2. /\ (IF host_port[line[1]][1] = "" THEN NULL_PTR ELSE <<n, "host", 0>>) \in Pointers
        /\ mystrdup(<<n, "port", 0>>, host_port[line[1]][2]) \in Pointers
    BY <2>1 DEF mystrdup
  <2>3. QED
    BY <1>3, <1>5, <1>7, <2>1, <2>2 DEF get_master_ent, Services, a
<1>10. Maker(e) = n /\ Reader(e) = n
  BY <1>8 DEF Maker, Reader
<1>11. Made(e, n) /\ Updater(e, n)
  BY <1>7, <1>8 DEF Made, Updater
<1>12. QED
  BY <1>8, <1>9, <1>10, <1>11 DEF Held

(* An update leaves the service its own struct, name, host and port, and    *)
(* gives it the path and the arguments of the entry.                        *)
LEMMA UpdatedLemma ==
    ASSUME NEW serv \in Services, NEW e \in Services, NEW n \in Nat, Held(serv, n), Held(e, n)
    PROVE  LET x == Updated(serv, e)[1]
               y == Updated(serv, e)[2]
           IN  /\ x \in Services /\ y \in Services /\ Held(x, n) /\ Held(y, n) /\ x.name = e.name
               /\ Maker(x) = Maker(serv) /\ Reader(x) = Reader(e)
               /\ Maker(y) = Maker(e) /\ Reader(y) = Reader(serv)
               /\ MakerPart(x) = MakerPart(serv) /\ UpdaterPart(x) = UpdaterPart(e)
               /\ MakerPart(y) = MakerPart(e) /\ UpdaterPart(y) = UpdaterPart(serv)
<1> DEFINE x == Updated(serv, e)[1]
           y == Updated(serv, e)[2]
<1>1. /\ x \in Services /\ x.name = e.name
      /\ x.struct = serv.struct /\ x.copy = serv.copy /\ x.host = serv.host /\ x.port = serv.port
      /\ x.path = e.path /\ x.args = e.args
  BY DEF Updated, Services
<1>2. /\ y \in Services
      /\ y.struct = e.struct /\ y.copy = e.copy /\ y.host = e.host /\ y.port = e.port
      /\ y.path = serv.path /\ y.args = serv.args
  BY DEF Updated, Services
<1> HIDE DEF x, y
<1>3. /\ Maker(x) = Maker(serv) /\ Reader(x) = Reader(e)
      /\ Maker(y) = Maker(e) /\ Reader(y) = Reader(serv)
  BY <1>1, <1>2 DEF Maker, Reader
<1>4. Held(x, n) /\ Held(y, n)
  BY <1>1, <1>2, <1>3 DEF Held, Made, Updater
<1>5. /\ MakerPart(x) = MakerPart(serv) /\ UpdaterPart(x) = UpdaterPart(e)
      /\ MakerPart(y) = MakerPart(e) /\ UpdaterPart(y) = UpdaterPart(serv)
  BY <1>1, <1>2 DEF MakerPart, UpdaterPart
<1>6. QED
  BY <1>1, <1>2, <1>3, <1>4, <1>5 DEF x, y

(* The types of what Listed() speaks about.                                 *)
LEMMA ListedLemma ==
    ASSUME NEW s, NEW n, Listed(s, n)
    PROVE  /\ n \in Nat /\ Len(s) \in Nat /\ s \in [1..Len(s) -> Services]
           /\ \A i \in 1..Len(s) : s[i] \in Services /\ Held(s[i], n)
BY LenProperties DEF Listed

(* A further entry takes nothing from a service.                            *)
LEMMA HeldGrows ==
    ASSUME NEW serv, NEW n \in Nat, Held(serv, n)
    PROVE  Held(serv, n + 1)
BY DEF Held

(* set_master_ent(): a mark on every service leaves them what they own.     *)
LEMMA MarkLemma ==
    ASSUME NEW s, NEW n, Listed(s, n)
    PROVE  LET t == [i \in DOMAIN s |-> [s[i] EXCEPT !.mark = TRUE]]
           IN  Listed(t, n) /\ AllOwned(t) = AllOwned(s)
<1> DEFINE t == [i \in DOMAIN s |-> [s[i] EXCEPT !.mark = TRUE]]
           m == Len(s)
<1>1. n \in Nat /\ m \in Nat /\ s \in [1..m -> Services] /\ \A i \in 1..m : s[i] \in Services /\ Held(s[i], n)
  BY ListedLemma
<1>2. Distinct(s)
  BY DEF Listed
<1> HIDE DEF m
<1>3. ASSUME NEW i \in 1..m
      PROVE  /\ t[i] \in Services /\ Held(t[i], n) /\ t[i].name = s[i].name
             /\ Maker(t[i]) = Maker(s[i]) /\ Reader(t[i]) = Reader(s[i])
             /\ Owned(t[i]) = Owned(s[i])
  <2> DEFINE x == s[i]
             y == [x EXCEPT !.mark = TRUE]
  <2>1. t[i] = y /\ x \in Services /\ Held(x, n)
    BY <1>1
  <2> HIDE DEF x, t
  <2>2. /\ y \in Services /\ y.name = x.name
        /\ y.struct = x.struct /\ y.copy = x.copy /\ y.host = x.host /\ y.port = x.port
        /\ y.path = x.path /\ y.args = x.args
    BY <2>1 DEF Services
  <2> HIDE DEF y
  <2>3. Maker(y) = Maker(x) /\ Reader(y) = Reader(x)
    BY <2>2 DEF Maker, Reader
  <2>4. Held(y, n)
    BY <2>1, <2>2, <2>3 DEF Held, Made, Updater
  <2>5. Owned(y) = Owned(x)
    BY <2>2 DEF Owned, Blocks
  <2>6. QED
    BY <2>1, <2>2, <2>3, <2>4, <2>5 DEF x
<1>4. DOMAIN t = 1..m
  BY <1>1
<1>5. t = [i \in 1..m |-> t[i]]
  BY <1>1
<1> HIDE DEF t
<1>6. t \in Seq(Services) /\ Len(t) = m
  <2>1. t \in [1..m -> Services]
    BY <1>3, <1>5
  <2>2. QED
    BY <1>1, <2>1
<1>7. Listed(t, n)
  BY <1>1, <1>2, <1>3, <1>6 DEF Listed, Distinct, m
<1>8. AllOwned(t) = AllOwned(s)
  BY <1>3, <1>6 DEF AllOwned, m
<1>9. QED
  BY <1>7, <1>8 DEF t

(* A service that a new entry makes is put in front of the list.            *)
LEMMA AddLemma ==
    ASSUME NEW s, NEW n, Listed(s, n), NEW e \in Services, Held(e, n + 1), Maker(e) = n + 1, Reader(e) = n + 1,
           \A i \in 1..Len(s) : s[i].name # e.name
    PROVE  Listed(<<e>> \o s, n + 1) /\ AllOwned(<<e>> \o s) = AllOwned(s) \cup Owned(e)
<1> DEFINE t == <<e>> \o s
           m == Len(s)
<1>1. n \in Nat /\ m \in Nat /\ \A i \in 1..m : s[i] \in Services /\ Held(s[i], n)
  BY ListedLemma
<1>2. Distinct(s) /\ s \in Seq(Services)
  BY DEF Listed
<1>3. /\ t \in Seq(Services) /\ Len(t) = m + 1 /\ t[1] = e
      /\ \A j \in 1..m : t[j + 1] = s[j]
      /\ \A j \in 2..m+1 : t[j] = s[j - 1]
  BY <1>2, ConsLemma
<1> HIDE DEF t, m
<1>4. \A i \in 1..m : s[i].name # e.name /\ Maker(s[i]) # Maker(e) /\ Reader(s[i]) # Reader(e)
  <2> SUFFICES ASSUME NEW i \in 1..m
               PROVE  s[i].name # e.name /\ Maker(s[i]) # Maker(e) /\ Reader(s[i]) # Reader(e)
    OBVIOUS
  <2>1. Maker(s[i]) \in 1..n /\ Reader(s[i]) \in 1..n
    BY <1>1 DEF Held
  <2>2. QED
    BY <1>1, <2>1 DEF m
<1>5. 1..m+1 = {1} \cup 2..m+1 /\ \A j \in 2..m+1 : j - 1 \in 1..m
  BY <1>1
<1>6. \A i \in 1..m+1 : Held(t[i], n + 1)
  BY <1>1, <1>3, <1>5, HeldGrows
<1>7. Distinct(t)
  <2> SUFFICES ASSUME NEW i \in 1..m+1, NEW j \in 1..m+1, i # j
               PROVE  /\ t[i].name # t[j].name
                      /\ Maker(t[i]) # Maker(t[j]) /\ Reader(t[i]) # Reader(t[j])
    BY <1>3 DEF Distinct
  <2>1. CASE i = 1
    BY <1>3, <1>4, <1>5, <2>1
  <2>2. CASE j = 1
    BY <1>3, <1>4, <1>5, <2>2
  <2>3. CASE i # 1 /\ j # 1
    <3>1. i - 1 \in 1..m /\ j - 1 \in 1..m /\ i - 1 # j - 1 /\ t[i] = s[i - 1] /\ t[j] = s[j - 1]
      BY <1>1, <1>3, <1>5, <2>3
    <3>2. QED
      BY <1>2, <3>1 DEF Distinct, m
  <2>4. QED
    BY <2>1, <2>2, <2>3
<1>8. AllOwned(t) = AllOwned(s) \cup Owned(e)
  <2>1. ASSUME NEW j \in 1..m PROVE j + 1 \in 1..m+1
    BY <1>1
  <2>2. 1 \in 1..m+1
    BY <1>1
  <2>3. AllOwned(t) \subseteq AllOwned(s) \cup Owned(e)
    BY <1>3, <1>5 DEF AllOwned, m
  <2>4. AllOwned(s) \cup Owned(e) \subseteq AllOwned(t)
    BY <1>3, <2>1, <2>2 DEF AllOwned, m
  <2>5. QED
    BY <2>3, <2>4
<1>9. n + 1 \in Nat
  BY <1>1
<1>10. QED
  BY <1>3, <1>6, <1>7, <1>8, <1>9 DEF Listed, t

(* A service that was read again stays where it is in the list.             *)
LEMMA ReplaceLemma ==
    ASSUME NEW s, NEW n, Listed(s, n), NEW i \in 1..Len(s), NEW x \in Services, Held(x, n + 1),
           Maker(x) = Maker(s[i]), Reader(x) = n + 1, x.name = s[i].name
    PROVE  /\ Listed([s EXCEPT ![i] = x], n + 1)
           /\ AllOwned([s EXCEPT ![i] = x]) = Owned(x) \cup UNION {Owned(s[j]) : j \in 1..Len(s) \ {i}}
<1> DEFINE t == [s EXCEPT ![i] = x]
           m == Len(s)
<1>1. n \in Nat /\ m \in Nat /\ s \in [1..m -> Services] /\ \A j \in 1..m : s[j] \in Services /\ Held(s[j], n)
  BY ListedLemma
<1>2. Distinct(s)
  BY DEF Listed
<1>3. /\ t \in Seq(Services) /\ Len(t) = m /\ t[i] = x
      /\ \A j \in 1..m \ {i} : t[j] = s[j]
  <2>1. t \in [1..m -> Services] /\ t[i] = x /\ \A j \in 1..m \ {i} : t[j] = s[j]
    BY <1>1
  <2> HIDE DEF t, m
  <2>2. QED
    BY <1>1, <2>1
<1>4. i \in 1..m
  OBVIOUS
<1> HIDE DEF t, m
<1>5. \A j \in 1..m : Reader(s[j]) # n + 1
  BY <1>1 DEF Held
<1>6. \A j \in 1..m : Held(t[j], n + 1)
  BY <1>1, <1>3, HeldGrows
<1>7. Distinct(t)
  <2> SUFFICES ASSUME NEW j \in 1..m, NEW k \in 1..m, j # k
               PROVE  /\ t[j].name # t[k].name
                      /\ Maker(t[j]) # Maker(t[k]) /\ Reader(t[j]) # Reader(t[k])
    BY <1>3 DEF Distinct
  <2>1. s[j].name # s[k].name /\ Maker(s[j]) # Maker(s[k]) /\ Reader(s[j]) # Reader(s[k])
    BY <1>2 DEF Distinct, m
  <2>2. CASE j = i
    BY <1>3, <1>5, <2>1, <2>2
  <2>3. CASE k = i
    BY <1>3, <1>5, <2>1, <2>3
  <2>4. CASE j # i /\ k # i
    BY <1>3, <2>1, <2>4
  <2>5. QED
    BY <2>2, <2>3, <2>4
<1>8. AllOwned(t) = Owned(x) \cup UNION {Owned(s[j]) : j \in 1..m \ {i}}
  BY <1>3, <1>4 DEF AllOwned
<1>9. n + 1 \in Nat
  BY <1>1
<1>10. QED
  BY <1>3, <1>6, <1>7, <1>8, <1>9 DEF Listed, t, m

(* A service that leaves the list takes along what it owns, and nothing     *)
(* that another one owns.                                                   *)
LEMMA RemoveLemma ==
    ASSUME NEW s, NEW n, Listed(s, n), NEW i \in 1..Len(s)
    PROVE  /\ Listed(RemoveAt(s, i), n)
           /\ AllOwned(RemoveAt(s, i)) = AllOwned(s) \ Owned(s[i])
<1> DEFINE t == RemoveAt(s, i)
           m == Len(s)
<1>1. n \in Nat /\ m \in Nat /\ \A j \in 1..m : s[j] \in Services /\ Held(s[j], n)
  BY ListedLemma
<1>2. Distinct(s) /\ s \in Seq(Services)
  BY DEF Listed
<1>3. /\ t \in Seq(Services) /\ Len(t) = m - 1
      /\ \A j \in 1..m-1 : t[j] = IF j < i THEN s[j] ELSE s[j + 1]
  BY <1>2, RemoveAtLemma
<1>4. i \in 1..m
  OBVIOUS
<1> HIDE DEF t, m
<1> DEFINE at(j) == IF j < i THEN j ELSE j + 1
<1>5. \A j \in 1..m-1 : at(j) \in 1..m /\ at(j) # i /\ t[j] = s[at(j)]
  BY <1>1, <1>3, <1>4
<1>6. \A j, k \in 1..m-1 : j # k => at(j) # at(k)
  BY <1>1, <1>4
<1>7. \A j \in 1..m \ {i} : \E k \in 1..m-1 : at(k) = j
  <2> SUFFICES ASSUME NEW j \in 1..m, j # i
               PROVE  \E k \in 1..m-1 : at(k) = j
    OBVIOUS
  <2>1. CASE j < i
    <3>1. j \in 1..m-1 /\ at(j) = j
      BY <1>1, <1>4, <2>1
    <3>2. QED
      BY <3>1
  <2>2. CASE j > i
    <3>1. j - 1 \in 1..m-1 /\ at(j - 1) = j
      BY <1>1, <1>4, <2>2
    <3>2. QED
      BY <3>1
  <2>3. QED
    BY <1>1, <1>4, <2>1, <2>2
<1> HIDE DEF at
<1>8. Listed(t, n)
  <2>1. \A j \in 1..m-1 : Held(t[j], n)
    BY <1>1, <1>5
  <2>2. Distinct(t)
    BY <1>2, <1>3, <1>5, <1>6 DEF Distinct, m
  <2>3. QED
    BY <1>1, <1>3, <2>1, <2>2 DEF Listed
<1>9. \A j \in 1..m \ {i} : Owned(s[j]) \cap Owned(s[i]) = {}
  <2> SUFFICES ASSUME NEW j \in 1..m, j # i
               PROVE  Owned(s[j]) \cap Owned(s[i]) = {}
    OBVIOUS
  <2>1. Maker(s[j]) # Maker(s[i]) /\ Reader(s[j]) # Reader(s[i])
    BY <1>2, <1>4 DEF Distinct, m
  <2>2. s[j] \in Services /\ s[i] \in Services /\ Held(s[j], n) /\ Held(s[i], n)
    BY <1>1, <1>4
  <2>3. /\ MakerPart(s[j]) \cap MakerPart(s[i]) = {} /\ UpdaterPart(s[j]) \cap UpdaterPart(s[i]) = {}
        /\ MakerPart(s[j]) \cap UpdaterPart(s[i]) = {} /\ UpdaterPart(s[j]) \cap MakerPart(s[i]) = {}
    BY <1>1, <2>1, <2>2, DisjointLemma
  <2>4. /\ Owned(s[j]) = MakerPart(s[j]) \cup UpdaterPart(s[j])
        /\ Owned(s[i]) = MakerPart(s[i]) \cup UpdaterPart(s[i])
    BY <1>1, <2>2, HeldLemma
  <2>5. QED
    BY <2>3, <2>4
<1>10. AllOwned(t) = UNION {Owned(s[j]) : j \in 1..m \ {i}}
  <2>1. AllOwned(t) \subseteq UNION {Owned(s[j]) : j \in 1..m \ {i}}
    BY <1>3, <1>5 DEF AllOwned
  <2>2. ASSUME NEW j \in 1..m \ {i} PROVE Owned(s[j]) \subseteq AllOwned(t)
    <3>1. PICK k \in 1..m-1 : at(k) = j
      BY <1>7
    <3>2. t[k] = s[j]
      BY <1>5, <3>1
    <3>3. QED
      BY <1>3, <3>2 DEF AllOwned
  <2>3. QED
    BY <2>1, <2>2
<1>11. AllOwned(t) = AllOwned(s) \ Owned(s[i])
  BY <1>4, <1>9, <1>10 DEF AllOwned, m
<1>12. QED
  BY <1>8, <1>11 DEF t

(* One more entry has been read.                                            *)
LEMMA AddressesGrow ==
    ASSUME NEW n \in Nat
    PROVE  Addresses(n + 1) = Addresses(n) \cup {Address(n + 1)}
<1>1. 1..n+1 = (1..n) \cup {n + 1}
  OBVIOUS
<1>2. QED
  BY <1>1 DEF Addresses

(* The shared empty string is never a block in use.                         *)
LEMMA NoEmptyString ==
    ASSUME NEW s, NEW n, Listed(s, n), NEW k \in Nat
    PROVE  /\ EMPTY_STRING \notin AllOwned(s) \cup Addresses(k)
           /\ AllOwned(s) \cup Addresses(k) \subseteq Pointers
<1>1. \A i \in 1..Len(s) : EMPTY_STRING \notin Owned(s[i]) /\ Owned(s[i]) \subseteq Pointers
  BY ListedLemma, HeldLemma
<1>2. \A m \in 1..k : Address(m) # EMPTY_STRING /\ Address(m) \in Pointers
  <2> SUFFICES ASSUME NEW m \in 1..k
               PROVE  Address(m) # EMPTY_STRING /\ Address(m) \in Pointers
    OBVIOUS
  <2>1. m \in Nat
    OBVIOUS
  <2>2. QED
    BY <2>1 DEF Address, EMPTY_STRING, Pointers, Purposes
<1>3. QED
  BY <1>1, <1>2 DEF AllOwned, Addresses

(* The update of a service, set against the heap: what it no longer owns,   *)
(* and nothing else, is freed.                                              *)
LEMMA UpdateHeap ==
    ASSUME NEW s, NEW n, Listed(s, n), NEW i \in 1..Len(s), NEW heap \in Heaps, NEW e \in Services,
           Held(e, n + 1), Maker(e) = n + 1, Reader(e) = n + 1, e.name = s[i].name,
           heap.bad = NULL_PTR,
           heap.live = AllOwned(s) \cup Addresses(n + 1) \cup Owned(e),
           NEW x, NEW y, x = Updated(s[i], e)[1], y = Updated(s[i], e)[2]
    PROVE  /\ Listed([s EXCEPT ![i] = x], n + 1)
           /\ free_master_ent(heap, y) \in Heaps
           /\ free_master_ent(heap, y).bad \in {NULL_PTR, EMPTY_STRING}
           /\ free_master_ent(heap, y).live = AllOwned([s EXCEPT ![i] = x]) \cup Addresses(n + 1)
<1> DEFINE u == s[i]
           t == [s EXCEPT ![i] = x]
           Rest == UNION {Owned(s[j]) : j \in 1..Len(s) \ {i}}
<1>1. /\ n \in Nat /\ n + 1 \in Nat /\ u \in Services /\ Held(u, n) /\ Held(u, n + 1)
      /\ \A j \in 1..Len(s) : s[j] \in Services /\ Held(s[j], n)
  BY ListedLemma, HeldGrows
<1>2. Distinct(s)
  BY DEF Listed
<1>3. /\ x \in Services /\ y \in Services /\ Held(x, n + 1) /\ Held(y, n + 1) /\ x.name = e.name
      /\ Maker(x) = Maker(u) /\ Reader(x) = Reader(e)
      /\ Maker(y) = Maker(e) /\ Reader(y) = Reader(u)
      /\ MakerPart(x) = MakerPart(u) /\ UpdaterPart(x) = UpdaterPart(e)
      /\ MakerPart(y) = MakerPart(e) /\ UpdaterPart(y) = UpdaterPart(u)
  <2>1. x = Updated(u, e)[1] /\ y = Updated(u, e)[2]
    OBVIOUS
  <2> HIDE DEF u
  <2>2. QED
    BY <1>1, <2>1, UpdatedLemma
<1>4. Listed(t, n + 1) /\ AllOwned(t) = Owned(x) \cup Rest
  <2>1. /\ x \in Services /\ Held(x, n + 1)
        /\ Reader(x) = n + 1 /\ x.name = s[i].name /\ Maker(x) = Maker(s[i])
    BY <1>3
  <2>2. Listed([s EXCEPT ![i] = x], n + 1)
    BY <2>1, ReplaceLemma
  <2>3. AllOwned([s EXCEPT ![i] = x]) = Owned(x) \cup UNION {Owned(s[j]) : j \in 1..Len(s) \ {i}}
    BY <2>1, ReplaceLemma, Zenon
  <2>4. QED
    BY <2>2, <2>3
<1>5. AllOwned(s) = Owned(u) \cup Rest
  BY DEF AllOwned
<1>6. /\ Owned(u) = MakerPart(u) \cup UpdaterPart(u) /\ Owned(e) = MakerPart(e) \cup UpdaterPart(e)
      /\ Owned(x) = MakerPart(u) \cup UpdaterPart(e) /\ Owned(y) = MakerPart(e) \cup UpdaterPart(u)
  <2> HIDE DEF u
  <2>1. QED
    BY <1>1, <1>3, HeldLemma
<1>7. /\ MakerPart(u) \cap MakerPart(e) = {} /\ UpdaterPart(u) \cap UpdaterPart(e) = {}
      /\ MakerPart(u) \cap UpdaterPart(u) = {} /\ MakerPart(e) \cap UpdaterPart(e) = {}
  <2> HIDE DEF u
  <2>1. Maker(u) # Maker(e) /\ Reader(u) # Reader(e)
    BY <1>1 DEF Held
  <2>2. QED
    BY <1>1, <2>1, DisjointLemma
<1>8. Rest \cap Owned(y) = {}
  <2> SUFFICES ASSUME NEW j \in 1..Len(s), j # i
               PROVE  Owned(s[j]) \cap Owned(y) = {}
    OBVIOUS
  <2> DEFINE v == s[j]
  <2>1. v \in Services /\ Held(v, n)
    BY <1>1
  <2>2. Reader(v) # Reader(y)
    BY <1>2, <1>3 DEF Distinct
  <2> HIDE DEF v
  <2>3. Maker(v) # Maker(y)
    BY <1>1, <1>3, <2>1 DEF Held
  <2>4. /\ MakerPart(v) \cap MakerPart(y) = {} /\ UpdaterPart(v) \cap UpdaterPart(y) = {}
        /\ MakerPart(v) \cap UpdaterPart(y) = {} /\ UpdaterPart(v) \cap MakerPart(y) = {}
    BY <1>1, <1>3, <2>1, <2>2, <2>3, DisjointLemma
  <2>5. Owned(v) = MakerPart(v) \cup UpdaterPart(v) /\ Owned(y) = MakerPart(y) \cup UpdaterPart(y)
    BY <1>1, <1>3, <2>1, HeldLemma
  <2>6. QED
    BY <2>4, <2>5 DEF v
<1>9. Owned(y) \cap Addresses(n + 1) = {}
  BY <1>1, <1>3, DisjointLemma
<1>10. EMPTY_STRING \notin heap.live
  BY <1>1, NoEmptyString, HeldLemma
<1> HIDE DEF Rest, u, t
<1>11. Owned(y) \subseteq heap.live
  BY <1>5, <1>6
<1>12. /\ free_master_ent(heap, y) \in Heaps
       /\ free_master_ent(heap, y).bad \in {NULL_PTR, EMPTY_STRING}
       /\ free_master_ent(heap, y).live = heap.live \ Owned(y)
  BY <1>1, <1>3, <1>10, <1>11, FreeEntLemma
<1>13. heap.live \ Owned(y) = AllOwned(t) \cup Addresses(n + 1)
  BY <1>4, <1>5, <1>6, <1>7, <1>8, <1>9
<1>14. QED
  BY <1>4, <1>12, <1>13 DEF t

(* An entry of the file: the blocks it allocates and does not free are owned *)
(* by the service it makes or updates.                                      *)
LEMMA ConfigStep ==
    ASSUME EntIInv, master_config
    PROVE  EntIInv'
<1> DEFINE number == entries + 1
           line == Head(lines)
<1>1. /\ place = "config" /\ lines # <<>> /\ ~ IsBlank(line) /\ ~ IsFatal(line)
      /\ lines' = Tail(lines) /\ entries' = number
  BY DEF master_config
<1>2. line \in Lines /\ lines' \in Seq(Lines)
  BY <1>1, HeadTailProperties DEF EntIInv, EntTyped
<1>3. /\ Listed(services, entries) /\ memory \in Heaps /\ memory.bad = NULL_PTR
      /\ memory.live = AllOwned(services) \cup Addresses(entries)
  BY <1>1 DEF EntIInv, HeapSound
<1>4. entries \in Nat /\ number \in Nat /\ number > 0
  BY <1>3, ListedLemma
<1> DEFINE old == {j \in DOMAIN services : services[j].name = line[1]}
           first == CHOOSE j \in old : \A k \in old : j <= k
<1>5. DOMAIN services = 1..Len(services) /\ Len(services) \in Nat
  BY <1>3, ListedLemma
<1>6. PICK condwake \in BOOLEAN :
         LET ent == get_master_ent(number, line, condwake)
             there == Allocate(memory, number, ent)
             both == Updated(services[first], ent)
         IN  IF old = {}
             THEN services' = <<ent>> \o services /\ memory' = there /\ UNCHANGED place
             ELSE /\ services' = [services EXCEPT ![first] = both[1]]
                  /\ memory' = free_master_ent(there, both[2])
                  /\ place' = Unless(memory', "config")
  BY <1>1 DEF master_config
<1> DEFINE entry == get_master_ent(number, line, condwake)
           there == Allocate(memory, number, entry)
<1>7. /\ entry \in Services /\ entry.name = line[1]
      /\ Held(entry, number) /\ Maker(entry) = number /\ Reader(entry) = number
  BY <1>1, <1>2, <1>4, EntryLemma
<1> HIDE DEF entry, line
<1>8. /\ there \in Heaps /\ there.bad = NULL_PTR
      /\ there.live = AllOwned(services) \cup Addresses(number) \cup Owned(entry)
  <2>1. Addresses(number) = Addresses(entries) \cup {Address(number)}
    BY <1>4, AddressesGrow
  <2>2. Owned(entry) \subseteq Pointers /\ AllOwned(services) \cup Addresses(number) \subseteq Pointers
    BY <1>3, <1>4, <1>7, HeldLemma, NoEmptyString
  <2>3. there = [memory EXCEPT !.live = @ \cup (Owned(entry) \cup {Address(number)})]
    BY DEF Allocate, mymalloc
  <2> HIDE DEF there, number
  <2>4. QED
    BY <1>3, <2>1, <2>2, <2>3 DEF Heaps
<1>9. CASE old = {}
  <2>1. services' = <<entry>> \o services /\ memory' = there /\ place' = place
    BY <1>6, <1>9 DEF entry
  <2>2. \A j \in 1..Len(services) : services[j].name # entry.name
    BY <1>5, <1>7, <1>9
  <2> HIDE DEF there
  <2>3. /\ Listed(services', entries')
        /\ AllOwned(services') = AllOwned(services) \cup Owned(entry)
    BY <1>1, <1>3, <1>7, <2>1, <2>2, AddLemma
  <2>4. HeapSound'
    <3>1. memory'.live = AllOwned(services') \cup Addresses(entries')
      BY <1>1, <1>8, <2>1, <2>3
    <3>2. QED
      BY <1>8, <2>1, <3>1 DEF HeapSound
  <2>5. EntTyped'
    BY <1>1, <1>2, <2>1 DEF EntTyped
  <2>6. QED
    BY <2>3, <2>4, <2>5 DEF EntIInv
<1>10. CASE old # {}
  <2>1. first \in old
    <3>1. old \subseteq Nat
      BY <1>5
    <3>2. \E j \in old : \A k \in old : j <= k
      BY <1>10, <3>1, LeastNumber
    <3>3. QED
      BY <3>2
  <2>2. first \in 1..Len(services) /\ entry.name = services[first].name
    BY <1>5, <1>7, <2>1
  <2> DEFINE updated == Updated(services[first], entry)[1]
             spare == Updated(services[first], entry)[2]
  <2>3. /\ services' = [services EXCEPT ![first] = updated]
        /\ memory' = free_master_ent(there, spare)
        /\ place' = Unless(memory', "config")
    BY <1>6, <1>10 DEF entry
  <2> HIDE DEF first, there
  <2>4. /\ Listed([services EXCEPT ![first] = updated], number)
        /\ free_master_ent(there, spare) \in Heaps
        /\ free_master_ent(there, spare).bad \in {NULL_PTR, EMPTY_STRING}
        /\ free_master_ent(there, spare).live = AllOwned([services EXCEPT ![first] = updated]) \cup Addresses(number)
    <3>1. /\ Listed(services, entries) /\ first \in 1..Len(services) /\ there \in Heaps /\ entry \in Services
          /\ Held(entry, entries + 1) /\ Maker(entry) = entries + 1 /\ Reader(entry) = entries + 1
          /\ entry.name = services[first].name /\ there.bad = NULL_PTR
          /\ there.live = AllOwned(services) \cup Addresses(entries + 1) \cup Owned(entry)
      BY <1>3, <1>7, <1>8, <2>2
    <3>2. updated = Updated(services[first], entry)[1] /\ spare = Updated(services[first], entry)[2]
      OBVIOUS
    <3> HIDE DEF updated, spare
    <3>3. Listed([services EXCEPT ![first] = updated], entries + 1)
      BY <3>1, <3>2, UpdateHeap
    <3>4. /\ free_master_ent(there, spare) \in Heaps
          /\ free_master_ent(there, spare).bad \in {NULL_PTR, EMPTY_STRING}
      BY <3>1, <3>2, UpdateHeap
    <3>5. free_master_ent(there, spare).live
             = AllOwned([services EXCEPT ![first] = updated]) \cup Addresses(entries + 1)
      BY <3>1, <3>2, UpdateHeap
    <3>6. QED
      BY <3>3, <3>4, <3>5
  <2> HIDE DEF updated, spare
  <2>5. Listed(services', entries')
    BY <1>1, <2>3, <2>4
  <2>6. HeapSound'
    <3>1. /\ memory' \in Heaps /\ memory'.bad \in {NULL_PTR, EMPTY_STRING}
          /\ memory'.live = AllOwned(services') \cup Addresses(entries')
      BY <1>1, <2>3, <2>4
    <3>2. place' # "fatal" => memory'.bad = NULL_PTR
      BY <2>3 DEF Unless
    <3>3. QED
      BY <3>1, <3>2 DEF HeapSound
  <2>7. EntTyped'
    BY <1>2, <2>3 DEF EntTyped, Unless
  <2>8. QED
    BY <2>5, <2>6, <2>7 DEF EntIInv
<1>11. QED
  BY <1>9, <1>10

(* Deleting the services that are no longer in the file.                    *)
LEMMA RefreshStep ==
    ASSUME EntIInv, master_refresh
    PROVE  EntIInv'
<1> DEFINE marked == {i \in DOMAIN services : services[i].mark}
           i == CHOOSE j \in marked : \A k \in marked : j <= k
           u == services[i]
<1>1. /\ place = "delete" /\ lines' = lines /\ entries' = entries
      /\ IF marked = {} THEN place' = "idle" /\ UNCHANGED <<services, memory>>
         ELSE /\ services' = RemoveAt(services, i)
              /\ memory' = free_master_ent(memory, u)
              /\ place' = Unless(memory', "delete")
  BY DEF master_refresh
<1>2. /\ Listed(services, entries) /\ memory \in Heaps /\ memory.bad = NULL_PTR
      /\ memory.live = AllOwned(services) \cup Addresses(entries) /\ lines \in Seq(Lines)
  BY <1>1 DEF EntIInv, HeapSound, EntTyped
<1>3. CASE marked = {}
  BY <1>1, <1>2, <1>3 DEF EntIInv, HeapSound, EntTyped
<1>4. CASE marked # {}
  <2>1. DOMAIN services = 1..Len(services) /\ Len(services) \in Nat /\ entries \in Nat
    BY <1>2, ListedLemma
  <2>2. i \in 1..Len(services)
    <3>1. marked \subseteq Nat
      BY <2>1
    <3>2. \E j \in marked : \A k \in marked : j <= k
      BY <1>4, <3>1, LeastNumber
    <3>3. i \in marked
      BY <3>2
    <3>4. QED
      BY <2>1, <3>3
  <2>3. /\ services' = RemoveAt(services, i) /\ memory' = free_master_ent(memory, u)
        /\ place' = Unless(memory', "delete")
    BY <1>1, <1>4
  <2> HIDE DEF i
  <2>4. u \in Services /\ Held(u, entries) /\ Owned(u) \subseteq AllOwned(services)
    BY <1>2, <2>2, ListedLemma DEF AllOwned
  <2>5. Listed(services', entries') /\ AllOwned(services') = AllOwned(services) \ Owned(u)
    BY <1>1, <1>2, <2>2, <2>3, RemoveLemma
  <2> HIDE DEF u
  <2>6. EMPTY_STRING \notin memory.live
    BY <1>2, <2>1, NoEmptyString
  <2>7. /\ memory' \in Heaps /\ memory'.bad \in {NULL_PTR, EMPTY_STRING}
        /\ memory'.live = memory.live \ Owned(u)
    BY <1>2, <2>1, <2>3, <2>4, <2>6, FreeEntLemma
  <2>8. Owned(u) \cap Addresses(entries) = {}
    BY <2>1, <2>4, DisjointLemma
  <2>9. memory'.live = AllOwned(services') \cup Addresses(entries')
    BY <1>1, <1>2, <2>5, <2>7, <2>8
  <2>10. HeapSound'
    <3>1. place' # "fatal" => memory'.bad = NULL_PTR
      BY <2>3 DEF Unless
    <3>2. QED
      BY <2>7, <2>9, <3>1 DEF HeapSound
  <2>11. EntTyped'
    BY <1>1, <1>2, <2>3 DEF EntTyped, Unless
  <2>12. QED
    BY <2>5, <2>10, <2>11 DEF EntIInv
<1>5. QED
  BY <1>3, <1>4

(* The state before the file is read for the first time.                    *)
LEMMA NoServices ==
    ASSUME NEW s, NEW n, s = <<>>, n = 0
    PROVE  Listed(s, n) /\ AllOwned(s) \cup Addresses(n) = {} /\ EmptyHeap \in Heaps
<1>1. 1..0 = {} /\ s \in Seq(Services) /\ Len(s) = 0
  OBVIOUS
<1>2. EmptyHeap \in Heaps
  BY DEF EmptyHeap, Heaps, Pointers, Purposes, NULL_PTR
<1>3. QED
  BY <1>1, <1>2 DEF Listed, Distinct, AllOwned, Addresses

(* The manager starts without services and without blocks.                  *)
LEMMA EntInitInv == MasterEntInit => EntIInv
<1> SUFFICES ASSUME MasterEntInit
             PROVE  EntIInv
  OBVIOUS
<1>1. Listed(services, entries) /\ AllOwned(services) \cup Addresses(entries) = {} /\ EmptyHeap \in Heaps
  BY NoServices DEF MasterEntInit
<1>2. QED
  BY <1>1 DEF EntIInv, EntTyped, HeapSound, MasterEntInit, EmptyHeap

(* Every action keeps the list and the heap in agreement.                   *)
LEMMA EntStepInv == EntIInv /\ [MasterEntNext]_entVars => EntIInv'
<1> SUFFICES ASSUME EntIInv, [MasterEntNext]_entVars
             PROVE  EntIInv'
  OBVIOUS
<1>1. CASE set_master_ent
  <2>1. /\ place = "idle" /\ place' = "config" /\ memory' = memory /\ entries' = entries
        /\ services' = [i \in DOMAIN services |-> [services[i] EXCEPT !.mark = TRUE]]
        /\ lines' \in SeqOf(Lines, MaxLines)
    BY <1>1 DEF set_master_ent
  <2>2. Listed(services', entries') /\ AllOwned(services') = AllOwned(services)
    BY <2>1, MarkLemma DEF EntIInv
  <2>3. lines' \in Seq(Lines)
    BY <2>1, EntAssumption DEF SeqOf
  <2>4. HeapSound'
    BY <2>1, <2>2 DEF EntIInv, HeapSound
  <2>5. QED
    BY <2>1, <2>2, <2>3, <2>4 DEF EntIInv, EntTyped
<1>2. CASE SkipLine
  <2>1. lines' \in Seq(Lines)
    BY <1>2, HeadTailProperties DEF SkipLine, EntIInv, EntTyped
  <2>2. QED
    BY <1>2, <2>1 DEF SkipLine, EntIInv, EntTyped, HeapSound
<1>3. CASE Fatal
  BY <1>3 DEF Fatal, EntIInv, EntTyped, HeapSound
<1>4. CASE master_config
  BY <1>4, ConfigStep
<1>5. CASE end_master_ent
  BY <1>5 DEF end_master_ent, EntIInv, EntTyped, HeapSound
<1>6. CASE master_refresh
  BY <1>6, RefreshStep
<1>7. CASE StartedAgain
  <2>1. /\ place' = "idle" /\ lines' = <<>> /\ services' = <<>> /\ memory' = EmptyHeap /\ entries' = 0
    BY <1>7 DEF StartedAgain
  <2>2. Listed(services', entries') /\ AllOwned(services') \cup Addresses(entries') = {} /\ EmptyHeap \in Heaps
    BY <2>1, NoServices
  <2>3. HeapSound'
    BY <2>1, <2>2 DEF HeapSound, EmptyHeap
  <2>4. QED
    BY <2>1, <2>2, <2>3 DEF EntIInv, EntTyped
<1>8. CASE UNCHANGED entVars
  BY <1>8 DEF entVars, EntIInv, EntTyped, HeapSound
<1>9. QED
  BY <1>1, <1>2, <1>3, <1>4, <1>5, <1>6, <1>7, <1>8 DEF MasterEntNext

(* The invariant gives the property, block by block.                        *)
LEMMA EntInvImplies == EntIInv => ServicesOwnMemory
<1> SUFFICES ASSUME EntIInv
             PROVE  ServicesOwnMemory
  OBVIOUS
<1>1. Listed(services, entries) /\ HeapSound
  BY DEF EntIInv
<1>2. /\ DOMAIN services = 1..Len(services) /\ entries \in Nat
      /\ \A i \in 1..Len(services) : services[i] \in Services /\ Held(services[i], entries)
  BY <1>1, ListedLemma
<1>3. Distinct(services)
  BY <1>1 DEF Listed
<1>4. place # "fatal" =>
         memory.live = (UNION {Owned(services[i]) : i \in DOMAIN services})
                          \cup {Address(n) : n \in 1..entries}
  BY <1>1, <1>2 DEF HeapSound, AllOwned, Addresses
<1>5. ASSUME NEW i \in DOMAIN services, NEW j \in DOMAIN services,
             NEW k \in DOMAIN Blocks(services[i]), NEW l \in DOMAIN Blocks(services[j]),
             Blocks(services[i])[k] = Blocks(services[j])[l], <<i, k>> # <<j, l>>
      PROVE  Blocks(services[i])[k] = EMPTY_STRING
  <2> DEFINE s == services[i]
             t == services[j]
             p == Blocks(s)[k]
  <2>1. s \in Services /\ t \in Services /\ Held(s, entries) /\ Held(t, entries)
    BY <1>2, <1>5
  <2>2. CASE i = j
    <3>1. k # l
      BY <1>5, <2>2
    <3>2. /\ Blocks(s) \in Seq(Pointers)
          /\ \A a, b \in 1..Len(Blocks(s)) : Blocks(s)[a] = Blocks(s)[b] => a = b
      BY <1>2, <2>1, HeldLemma
    <3>3. k \in 1..Len(Blocks(s)) /\ l \in 1..Len(Blocks(s))
      BY <1>5, <2>2, <3>2
    <3>4. QED
      BY <1>5, <2>2, <3>1, <3>2, <3>3
  <2>3. CASE i # j
    <3>1. Maker(s) # Maker(t) /\ Reader(s) # Reader(t)
      BY <1>2, <1>3, <1>5, <2>3 DEF Distinct
    <3>2. p # EMPTY_STRING => p \in Owned(s) /\ p \in Owned(t)
      BY <1>5 DEF Owned, ToSet
    <3> HIDE DEF s, t, p
    <3>3. /\ MakerPart(s) \cap MakerPart(t) = {} /\ UpdaterPart(s) \cap UpdaterPart(t) = {}
          /\ MakerPart(s) \cap UpdaterPart(t) = {} /\ UpdaterPart(s) \cap MakerPart(t) = {}
      BY <1>2, <2>1, <3>1, DisjointLemma
    <3>4. Owned(s) = MakerPart(s) \cup UpdaterPart(s) /\ Owned(t) = MakerPart(t) \cup UpdaterPart(t)
      BY <1>2, <2>1, HeldLemma
    <3>5. p = EMPTY_STRING
      BY <3>2, <3>3, <3>4
    <3>6. QED
      BY <3>5 DEF p, s
  <2>4. QED
    BY <2>2, <2>3
<1>6. \A i, j \in DOMAIN services : services[i].name = services[j].name => i = j
  BY <1>2, <1>3 DEF Distinct
<1>7. \A i \in DOMAIN services : Len(services[i].args.strings) < services[i].args.len
  BY <1>2 DEF Held, Updater
<1>8. memory.bad \in {NULL_PTR, EMPTY_STRING}
  BY <1>1 DEF HeapSound
<1>9. QED
  BY <1>4, <1>5, <1>6, <1>7, <1>8 DEF ServicesOwnMemory

(* Whatever the file says and however often it is read: the manager's       *)
(* memory is that of its services and one copy of each name ever read,      *)
(* services share no block, an update or a deletion frees what it should,   *)
(* once, and the allocator refuses no pointer but the shared empty string.  *)
THEOREM MemoryOwned == MasterEntSpec => []ServicesOwnMemory
<1>1. QED
  BY EntInitInv, EntStepInv, EntInvImplies, PTL DEF MasterEntSpec
=============================================================================
