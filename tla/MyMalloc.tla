------------------------------ MODULE MyMalloc ------------------------------
(***************************************************************************)
(* The allocator of src/util/mymalloc.c, whose blocks bear a signature     *)
(* while they are in use, and the string vectors of src/util/argv.c.       *)
(*                                                                         *)
(* A pointer is the name of a block: who allocated it, for what, and a     *)
(* number.  The heap is a record: live, the blocks that bear the           *)
(* signature; bad, the first pointer that CHECK_IN_PTR() refused, which    *)
(* ends the process.  Operations are functions on the heap.                *)
(***************************************************************************)
EXTENDS Integers, Sequences, SequencesExt

NULL_PTR == <<0, "null", 0>>
EMPTY_STRING == <<0, "empty_string", 0>>    \* the shared constant, not a block

EmptyHeap == [live |-> {}, bad |-> NULL_PTR]

\* The allocation of some blocks; their order leaves no trace.
mymalloc(heap, blocks) == [heap EXCEPT !.live = @ \cup blocks]

CHECK_IN_PTR(heap, p) ==
    IF p \in heap.live \/ heap.bad # NULL_PTR THEN heap ELSE [heap EXCEPT !.bad = p]

myfree(heap, p) == [CHECK_IN_PTR(heap, p) EXCEPT !.live = @ \ {p}]

myfree_all(heap, ptrs) ==
    LET freed[i \in 0..Len(ptrs)] == IF i = 0 THEN heap ELSE myfree(freed[i - 1], ptrs[i])
    IN  freed[Len(ptrs)]

\* mystrdup(): where the copy of a string is, p being a block for it.
mystrdup(p, string) == IF string = "" THEN EMPTY_STRING ELSE p
-----------------------------------------------------------------------------
\* A vector has its struct, its array of len + 1 pointers, and argc strings.
argv_alloc(owner) ==
    [struct |-> <<owner, "ARGV", 0>>, array |-> <<owner, "argv", 0>>, len |-> 2, strings |-> <<>>]

\* The array doubles before its last free element is used; its block keeps its
\* name through myrealloc().
argv_add(argv, p) ==
    [argv EXCEPT !.strings = Append(@, p),
                 !.len = IF Len(argv.strings) + 1 >= argv.len THEN 2 * @ ELSE @]

\* The vector with the copies of n strings, added one by one.
argv_build(owner, n) ==
    LET built[i \in 0..n] ==
            IF i = 0 THEN argv_alloc(owner) ELSE argv_add(built[i - 1], <<owner, "arg", i>>)
    IN  built[n]

argv_blocks(argv) == argv.strings \o <<argv.array, argv.struct>>
=============================================================================
