-------------------------------- MODULE Ring --------------------------------
(***************************************************************************)
(* The rings of src/util/ring.c, on which the timer queue and the job      *)
(* queue are built: a head and entries that point at each other.  The      *)
(* other modules treat those queues as sequences; here each operation is   *)
(* compared with the sequence that a walk from the head meets.             *)
(***************************************************************************)
EXTENDS Integers, Sequences, SequencesExt

CONSTANTS Entries,
          head,
          NIL

ASSUME RingAssumption == head # NIL /\ Entries \cap {head, NIL} = {}

RINGS == Entries \cup {head}

VARIABLE ring    \* the succ and pred pointers of the head and the entries

RingTypeOK == ring \in [succ : [RINGS -> RINGS \cup {NIL}], pred : [RINGS -> RINGS \cup {NIL}]]

ring_init ==
    ring = [succ |-> [r \in RINGS |-> IF r = head THEN head ELSE NIL],
            pred |-> [r \in RINGS |-> IF r = head THEN head ELSE NIL]]

Linked == {r \in RINGS : ring.succ[r] # NIL}
-----------------------------------------------------------------------------
\* The assignments of the functions in their order: one through a pointer sees
\* those before it.  Entry e goes behind r.
ring_append(g, r, e) ==
    LET succ == [g.succ EXCEPT ![e] = g.succ[r]]
    IN  [succ |-> [succ EXCEPT ![r] = e],
         pred |-> [g.pred EXCEPT ![e] = r, ![succ[r]] = e]]

\* Faulty variant: the entry goes behind r.
ring_prepend_behind(g, r, e) == ring_append(g, r, e)

\* Entry e goes before r.
ring_prepend(g, r, e) ==
    LET pred == [g.pred EXCEPT ![e] = g.pred[r]]
    IN  [succ |-> [g.succ EXCEPT ![e] = r, ![pred[r]] = e],
         pred |-> [pred EXCEPT ![r] = e]]

\* Faulty variant: the pointers of the entry itself are kept.
ring_detach_dangling(g, e) ==
    [succ |-> [g.succ EXCEPT ![g.pred[e]] = g.succ[e]],
     pred |-> [g.pred EXCEPT ![g.succ[e]] = g.pred[e]]]

\* The pointers of the entry are read first and cleared last.
ring_detach(g, e) ==
    [succ |-> [g.succ EXCEPT ![g.pred[e]] = g.succ[e], ![e] = NIL],
     pred |-> [g.pred EXCEPT ![g.succ[e]] = g.pred[e], ![e] = NIL]]

\* Callers append and prepend what is in no ring, next to what is in one, and
\* detach what is in one; the head stays.
RingNext ==
    \/ \E r \in Linked, e \in Entries \ Linked :
          ring' = ring_append(ring, r, e) \/ ring' = ring_prepend(ring, r, e)
    \/ \E e \in Entries \cap Linked : ring' = ring_detach(ring, e)

RingSpec == ring_init /\ [][RingNext]_ring
-----------------------------------------------------------------------------
\* The entries that FOREACH_QUEUE_ENTRY meets.
Walk(g) ==
    LET on == {r \in RINGS : g.succ[r] # NIL}
        from[r \in on] == IF r = head THEN <<>> ELSE <<r>> \o from[g.succ[r]]
    IN  from[g.succ[head]]

\* The place of r in a sequence of entries; the head is behind the last one.
Position(s, r) == IF r = head THEN Len(s) + 1 ELSE SelectInSeq(s, LAMBDA x : x = r)

(* The two pointers agree, and an entry that was detached has neither.      *)
PointersAgree ==
    \A r \in RINGS :
        /\ r \in Linked <=> ring.pred[r] # NIL
        /\ r \in Linked => ring.pred[ring.succ[r]] = r /\ ring.succ[ring.pred[r]] = r

(* The operations do to the sequence of entries what the timer queue and    *)
(* the job queue use them for: ring_prepend() inserts before an entry or,   *)
(* at the head, behind all; ring_append() inserts behind an entry or, at    *)
(* the head, before all; ring_detach() removes one and keeps the order of   *)
(* the others.  They neither lose nor repeat an entry.                      *)
OperationsOnSequences ==
    LET s == Walk(ring)
    IN  /\ ToSet(s) = Linked \ {head} /\ IsInjective(s)
        /\ \A r \in Linked, e \in Entries \ Linked :
              /\ Walk(ring_prepend(ring, r, e)) = InsertAt(s, Position(s, r), e)
              /\ Walk(ring_append(ring, r, e)) =
                    InsertAt(s, IF r = head THEN 1 ELSE Position(s, r) + 1, e)
        /\ \A e \in Linked \ {head} : Walk(ring_detach(ring, e)) = RemoveFirst(s, e)
=============================================================================
