------------------------------- MODULE BinHash -------------------------------
(***************************************************************************)
(* The hash table of src/util/binhash.c, with its chains as the pointers   *)
(* that the code follows.  The manager keeps its processes in one, by pid. *)
(*                                                                         *)
(* A table is a record: the array data of chain heads, its length size,    *)
(* the number used of entries, and the next and prev pointers of all       *)
(* entries.  An entry is the address of a BINHASH_INFO.  Keys are what the *)
(* caller passes; Hash is the value that binhash_hash() computes for them  *)
(* before it takes the remainder.                                          *)
(***************************************************************************)
EXTENDS Integers, Sequences, SequencesExt, FiniteSets

CONSTANTS Keys, Values,
          Nodes,     \* addresses that mymalloc() returns for entries
          NULL,
          Hash,      \* the hash value of every key
          MinSize    \* the least size that binhash_create() accepts

ASSUME BinHashAssumption ==
    /\ Hash \in [Keys -> Nat]
    /\ MinSize \in Nat \ {0}
    /\ NULL \notin Nodes \cup Values \cup [key : Keys, value : Values]
    /\ Cardinality(Keys) <= Cardinality(Nodes)

VARIABLES table,
          info       \* key and value of the entries in use; NULL when free

hashVars == <<table, info>>

InUse == {n \in Nodes : info[n] # NULL}

-----------------------------------------------------------------------------
Slot(t, k) == Hash[k] % t.size

\* An array of size | 1 empty chains.
binhash_size(t, n) ==
    LET size == IF n % 2 = 0 THEN n + 1 ELSE n
    IN  [t EXCEPT !.size = size, !.used = 0, !.data = [i \in 0..size-1 |-> NULL]]

binhash_create(n) ==
    binhash_size([size |-> 0, used |-> 0, data |-> <<>>,
                  next |-> [e \in Nodes |-> NULL], prev |-> [e \in Nodes |-> NULL]],
                 IF n < MinSize THEN MinSize ELSE n)

\* Faulty variant: an entry that is moved keeps its prev pointer.
binhash_link_stale(t, e, k) ==
    LET first == t.data[Slot(t, k)]
    IN  [t EXCEPT !.data[Slot(t, k)] = e,
                  !.used = @ + 1,
                  !.next[e] = first,
                  !.prev = [n \in Nodes |-> IF n = first THEN e ELSE @[n]]]

\* The entry becomes the first of its chain.
binhash_link(t, e, k) ==
    LET first == t.data[Slot(t, k)]
    IN  [t EXCEPT !.data[Slot(t, k)] = e,
                  !.used = @ + 1,
                  !.next[e] = first,
                  !.prev = [n \in Nodes |-> IF n = e THEN NULL
                                            ELSE IF n = first THEN e ELSE @[n]]]

\* The entries from n on, as the next pointers lead to them.
Chain(t, n) ==
    LET from[e \in Nodes \cup {NULL}] ==
            IF e = NULL THEN <<>> ELSE <<e>> \o from[t.next[e]]
    IN  from[n]

\* All entries, chain by chain.
binhash_list(t) == FlattenSeq([i \in 1..t.size |-> Chain(t, t.data[i - 1])])

\* The entries are linked anew in that order; the pointer to the next one is
\* read before its predecessor moves.
binhash_grow(t) ==
    LET list == binhash_list(t)
        moved[n \in 0..Len(list)] ==
            IF n = 0 THEN binhash_size(t, 2 * t.size)
            ELSE binhash_link(moved[n - 1], list[n], info[list[n]].key)
    IN  moved[Len(list)]

binhash_locate(k) ==
    LET chain == Chain(table, table.data[Slot(table, k)])
    IN  IF \E i \in DOMAIN chain : info[chain[i]].key = k
        THEN chain[SelectInSeq(chain, LAMBDA n : info[n].key = k)] ELSE NULL

binhash_find(k) == IF binhash_locate(k) = NULL THEN NULL ELSE info[binhash_locate(k)].value
-----------------------------------------------------------------------------
HashInit ==
    /\ table = binhash_create(0)
    /\ info = [n \in Nodes |-> NULL]

binhash_enter(k, x) ==
    \E n \in Nodes \ InUse :
        /\ info' = [info EXCEPT ![n] = [key |-> k, value |-> x]]
        /\ table' = binhash_link(IF table.used >= table.size THEN binhash_grow(table) ELSE table,
                                 n, k)

\* Faulty variant: the chain is cut at the entry.
Unlink_cut(t, n, k) ==
    [t EXCEPT !.used = @ - 1,
              !.prev = [m \in Nodes |-> IF m \in {n, t.next[n]} THEN NULL ELSE @[m]],
              !.next[n] = NULL,
              !.data[Slot(t, k)] = t.next[n]]

\* The neighbours of an entry are joined; an entry without prev is the first
\* of its chain.  myfree() overwrites the pointers of the entry itself.
Unlink(t, n, k) ==
    [t EXCEPT !.used = @ - 1,
              !.prev = [m \in Nodes |-> IF m = n THEN NULL
                                        ELSE IF m = t.next[n] THEN t.prev[n] ELSE @[m]],
              !.next = [m \in Nodes |-> IF m = n THEN NULL
                                        ELSE IF m = t.prev[n] THEN t.next[n] ELSE @[m]],
              !.data[Slot(t, k)] = IF t.prev[n] = NULL THEN t.next[n] ELSE @]

\* An unknown key is a panic.
binhash_delete(k) ==
    /\ binhash_locate(k) # NULL
    /\ table' = Unlink(table, binhash_locate(k), k)
    /\ info' = [info EXCEPT ![binhash_locate(k)] = NULL]

\* The callers enter a pid once, and delete only what they have found.
HashNext ==
    \E k \in Keys :
        \/ binhash_locate(k) = NULL /\ \E x \in Values : binhash_enter(k, x)
        \/ binhash_delete(k)

HashSpec == HashInit /\ [][HashNext]_hashVars
-----------------------------------------------------------------------------
(* Every entry is in the chain of its key and in no other place, the two    *)
(* pointers of neighbours agree, and used is the number of entries: what    *)
(* binhash_list() allocates is enough for what it writes, also after the    *)
(* table has grown (binhash_grow, binhash_delete, binhash_list).            *)
ChainsSound ==
    LET list == binhash_list(table)
    IN  /\ table.used = Len(list) /\ Len(list) = Cardinality(InUse)
        /\ table.used <= table.size
        /\ \A i \in 0..table.size-1 :
              LET chain == Chain(table, table.data[i])
              IN  \A j \in DOMAIN chain :
                     /\ info[chain[j]] # NULL
                     /\ Slot(table, info[chain[j]].key) = i
                     /\ table.prev[chain[j]] = IF j = 1 THEN NULL ELSE chain[j - 1]

Stored == {k \in Keys : binhash_find(k) # NULL}

Promise == INSTANCE Dictionary WITH dict <- [k \in Stored |-> binhash_find(k)]

(* The table finds exactly what was entered and not deleted since, through  *)
(* collisions and growth: it implements Dictionary.                         *)
ImplementsDictionary == Promise!Spec
=============================================================================
