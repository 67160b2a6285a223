------------------------------- MODULE VString -------------------------------
(***************************************************************************)
(* The growing strings of src/util/vstring.c and the formatting into them  *)
(* of src/util/vbuf_print.c, with which the manager reports errors and     *)
(* builds default values.                                                  *)
(*                                                                         *)
(* A string is a record: data, the bytes that are allocated; ptr, the      *)
(* offset of the write position; cnt, the bytes left behind it as the code *)
(* keeps count of them; and wild, whether a byte outside data was written. *)
(* Operations are functions on that record.  A format string is the list   *)
(* of its pieces, each with the text it makes and the room that is asked   *)
(* for it at a time: 0 for text that is put byte by byte.                  *)
(***************************************************************************)
EXTENDS Integers, Sequences, SequencesExt

CONSTANTS Chars,     \* bytes of C strings
          NUL,
          FILLER,    \* what mymalloc() and myrealloc() leave
          INT_SPACE, \* room for a number and its zero byte
          MaxText,   \* bound on the length of the texts that are added
          MaxLiteral, \* bound on the length of the literal text of a format
          MaxLen     \* bound on the length of what they are added to

ASSUME VStringAssumption ==
    /\ NUL \notin Chars /\ FILLER \notin Chars \cup {NUL}
    /\ INT_SPACE \in Nat \ {0} /\ {MaxText, MaxLiteral, MaxLen} \subseteq Nat

VARIABLE vp

Bytes == Chars \cup {NUL}

VBUF == [data : Seq(Bytes \cup {FILLER}), ptr : Nat, cnt : Int, wild : BOOLEAN]

VSTRING_LEN(v) == v.ptr

\* The bytes of the string, and the C string that starts where it starts.
Text(v) == SubSeq(v.data, 1, v.ptr)
CString(v) == SubSeq(v.data, 1, SelectInSeq(v.data, LAMBDA c : c = NUL) - 1)

Fill(n) == [i \in 1..n |-> FILLER]

\* Bytes s are written at offset p.
Write(v, p, s) ==
    IF p + Len(s) > Len(v.data) THEN [v EXCEPT !.wild = TRUE]
    ELSE [v EXCEPT !.data = SubSeq(@, 1, p) \o s \o SubSeq(@, p + Len(s) + 1, Len(@))]
-----------------------------------------------------------------------------
vstring_extend(v, incr) ==
    LET data == v.data \o Fill(IF Len(v.data) > incr THEN Len(v.data) ELSE incr)
    IN  [v EXCEPT !.data = data, !.cnt = Len(data) - v.ptr]

VSTRING_SPACE(v, n) == IF n > v.cnt THEN vstring_extend(v, n - v.cnt) ELSE v

VSTRING_RESET(v) == [v EXCEPT !.ptr = 0, !.cnt = Len(v.data)]

VSTRING_AT_OFFSET(v, n) == [v EXCEPT !.ptr = n, !.cnt = Len(v.data) - n]

\* Faulty variant: no room is made for the zero byte.
VSTRING_TERMINATE_full(v) == Write(v, v.ptr, <<NUL>>)

VSTRING_TERMINATE(v) == Write(VSTRING_SPACE(v, 1), v.ptr, <<NUL>>)

VSTRING_ADDCH(v, c) ==
    LET w == IF v.cnt > 0 THEN v ELSE vstring_extend(v, 0)
    IN  [Write(w, w.ptr, <<c>>) EXCEPT !.ptr = @ + 1, !.cnt = @ - 1]

AddString(v, s) ==
    LET added[n \in 0..Len(s)] == IF n = 0 THEN v ELSE VSTRING_ADDCH(added[n - 1], s[n])
    IN  added[Len(s)]

vstring_alloc(n) == [data |-> <<NUL>> \o Fill(n - 1), ptr |-> 0, cnt |-> n, wild |-> FALSE]

vstring_strcpy(v, s) == VSTRING_TERMINATE(AddString(VSTRING_RESET(v), s))

vstring_strcat(v, s) == VSTRING_TERMINATE(AddString(v, s))

Prefix(s, n) == SubSeq(s, 1, IF n < Len(s) THEN n ELSE Len(s))

vstring_strncpy(v, s, n) == vstring_strcpy(v, Prefix(s, n))

vstring_strncat(v, s, n) == vstring_strcat(v, Prefix(s, n))

vstring_memcpy(v, s) ==
    LET w == VSTRING_SPACE(VSTRING_RESET(v), Len(s))
    IN  VSTRING_AT_OFFSET(Write(w, 0, s), Len(s))

\* Faulty variant: the write position ends up behind the length of the piece.
vstring_memcat_offset(v, s) ==
    LET w == VSTRING_SPACE(v, Len(s))
    IN  VSTRING_AT_OFFSET(Write(w, w.ptr, s), Len(s))

vstring_memcat(v, s) ==
    LET w == VSTRING_SPACE(v, Len(s))
    IN  VSTRING_AT_OFFSET(Write(w, w.ptr, s), w.ptr + Len(s))

\* No zero byte is written.
vstring_truncate(v, n) == IF n < VSTRING_LEN(v) THEN VSTRING_AT_OFFSET(v, n) ELSE v

\* The write position moves to the zero byte that sprintf() has left.
VBUF_SKIP(v) ==
    LET n == CHOOSE n \in 0..v.cnt :
                /\ n = v.cnt \/ v.data[v.ptr + n + 1] = NUL
                /\ \A m \in 0..n-1 : v.data[v.ptr + m + 1] # NUL
    IN  [v EXCEPT !.ptr = @ + n, !.cnt = @ - n]

AddPiece(v, piece) ==
    IF piece.space = 0 THEN AddString(v, piece.text)
    ELSE LET w == VSTRING_SPACE(v, piece.space)
         IN  VBUF_SKIP(Write(w, w.ptr, piece.text \o <<NUL>>))

vbuf_print(v, pieces) ==
    LET printed[n \in 0..Len(pieces)] == IF n = 0 THEN v ELSE AddPiece(printed[n - 1], pieces[n])
    IN  printed[Len(pieces)]

vstring_vsprintf(v, pieces) == VSTRING_TERMINATE(vbuf_print(VSTRING_RESET(v), pieces))

\* Bytes from start to end go to the front; the length shrinks by start,
\* whatever end is.  Nothing is left when start is 0.
vstring_range(v, start, end) ==
    LET len == VSTRING_LEN(v)
        Offset(i) == IF i >= 0 THEN i ELSE IF len + i >= 0 THEN len + i ELSE 0
        first == Offset(start)
        last == IF Offset(end) < len THEN Offset(end) ELSE len - 1
    IN  IF len = 0 THEN v
        ELSE VSTRING_TERMINATE(
                IF 0 < first /\ first <= last
                THEN [Write(v, 0, SubSeq(v.data, first + 1, last + 1))
                         EXCEPT !.ptr = @ - first, !.cnt = @ + first]
                ELSE VSTRING_RESET(v))
-----------------------------------------------------------------------------
VStringInit == \E n \in 1..2 : vp = vstring_alloc(n)

\* A literal text and a number of at least that width.
Pieces == UNION {{<<[text |-> s, space |-> 0], [text |-> t, space |-> INT_SPACE + width]>> :
                     s \in SeqOf(Chars, MaxLiteral), t \in SeqOf(Chars, INT_SPACE + width - 1)} :
                 width \in 0..1}

VStringNext ==
    \/ \E s \in SeqOf(Chars, MaxText) :
          \/ vp' = vstring_strcpy(vp, s)
          \/ VSTRING_LEN(vp) + Len(s) <= MaxLen /\ vp' = vstring_strcat(vp, s)
          \/ \E n \in 0..Len(s) :
                \/ vp' = vstring_strncpy(vp, s, n)
                \/ VSTRING_LEN(vp) + n <= MaxLen /\ vp' = vstring_strncat(vp, s, n)
    \/ \E s \in SeqOf(Bytes, MaxText) :
          \/ vp' = vstring_memcpy(vp, s)
          \/ VSTRING_LEN(vp) + Len(s) <= MaxLen /\ vp' = vstring_memcat(vp, s)
    \/ \E pieces \in Pieces : vp' = vstring_vsprintf(vp, pieces)
    \/ \E n \in 0..MaxLen : vp' = vstring_truncate(vp, n)
    \/ \E i, j \in -MaxLen..MaxLen : vp' = vstring_range(vp, i, j)

VStringSpec == VStringInit /\ [][VStringNext]_vp
-----------------------------------------------------------------------------
(* The count of bytes left is exact, and no sequence of operations writes   *)
(* outside the buffer, the zero byte included: cnt is unsigned in the code  *)
(* and would not notice a deficit (vstring_extend, VSTRING_TERMINATE,       *)
(* vstring_range).                                                          *)
BufferSound ==
    /\ vp \in VBUF
    /\ ~vp.wild
    /\ vp.cnt = Len(vp.data) - vp.ptr /\ vp.cnt >= 0

(* In every state that the operations lead to, vstring_strcpy,              *)
(* vstring_strcat, vstring_memcpy, vstring_memcat, vstring_vsprintf and     *)
(* vstring_truncate make the text they are named for, whatever growth it    *)
(* takes and whatever bytes are left from longer texts; the two for strings *)
(* and the formatting make it the C string too.  vstring_range does not     *)
(* make its text; vstring_strncpy and vstring_strncat are among the         *)
(* operations that lead to the states and are not compared with a text.     *)
OperationsOnText ==
    /\ \A s \in SeqOf(Chars, MaxText) :
          /\ Text(vstring_strcpy(vp, s)) = s
          /\ CString(vstring_strcpy(vp, s)) = s
          /\ Text(vstring_strcat(vp, s)) = Text(vp) \o s
          /\ ~Contains(Text(vp), NUL) => CString(vstring_strcat(vp, s)) = Text(vp) \o s
    /\ \A s \in SeqOf(Bytes, MaxText) :
          /\ Text(vstring_memcpy(vp, s)) = s
          /\ Text(vstring_memcat(vp, s)) = Text(vp) \o s
    /\ \A pieces \in Pieces :
          LET v == vstring_vsprintf(vp, pieces)
          IN  Text(v) = pieces[1].text \o pieces[2].text /\ CString(v) = Text(v)
    /\ \A n \in 0..MaxLen : Text(vstring_truncate(vp, n)) = Prefix(Text(vp), n)
=============================================================================
