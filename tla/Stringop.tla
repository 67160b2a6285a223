------------------------------ MODULE Stringop ------------------------------
(***************************************************************************)
(* string2ll() of src/util/stringop.c, the parser of signed decimal        *)
(* numbers, at a small width: long long has WIDTH bits here.  A string is  *)
(* a sequence of characters, each a pair of its kind and the value of a    *)
(* digit; text is the string that is parsed, one character longer at every *)
(* step.                                                                   *)
(***************************************************************************)
EXTENDS Integers, Sequences

CONSTANTS WIDTH,    \* bits of a long long
          MaxDigits \* bound on the length of the string

ASSUME StringopAssumption == WIDTH \in Nat /\ 2^WIDTH \in Nat /\ 2^WIDTH > 10 /\ MaxDigits \in Nat

VARIABLE text

Modulus == 2^WIDTH
ULLONG_MAX == Modulus - 1
LLONG_MAX == (Modulus \div 2) - 1
LLONG_MIN == - (Modulus \div 2)

Digit(d) == <<"digit", d>>
Minus == <<"minus", 0>>
Characters == {Digit(d) : d \in 0..9} \cup {Minus, <<"other", 0>>}

IsDigit(c) == c[1] = "digit"

Failure == [ok |-> FALSE, value |-> 0]
Success(n) == [ok |-> TRUE, value |-> n]

\* An unsigned long long that is assigned to a long long.
ToSigned(v) == IF v > LLONG_MAX THEN v - Modulus ELSE v

\* Faulty variant: the product is not checked, only the sum.
Accumulate_unchecked(v, d) ==
    LET product == (v * 10) % Modulus
    IN  IF product > ULLONG_MAX - d THEN [ok |-> FALSE, v |-> v]
        ELSE [ok |-> TRUE, v |-> product + d]

\* One more digit, in unsigned arithmetic, with the two checks of the loop.
Accumulate(v, d) ==
    LET product == (v * 10) % Modulus
    IN  IF v > ULLONG_MAX \div 10 \/ product > ULLONG_MAX - d THEN [ok |-> FALSE, v |-> v]
        ELSE [ok |-> TRUE, v |-> product + d]

\* The loop: the digits from position i on.  What is not a digit ends it, and
\* then not all the bytes were used.
Digits(s, i) ==
    LET loop[j \in i..Len(s) + 1] ==    \* the value of the digits before j
            IF j = i THEN [ok |-> TRUE, v |-> 0]
            ELSE IF ~loop[j-1].ok \/ ~IsDigit(s[j-1]) THEN [ok |-> FALSE, v |-> 0]
            ELSE Accumulate(loop[j-1].v, s[j-1][2])
    IN  loop[Len(s) + 1]

string2ll(s) ==
    LET negative == s # <<>> /\ s[1] = Minus
        first == IF negative THEN 2 ELSE 1
        r == Digits(s, first)
    IN  IF s = <<>> THEN Failure
        ELSE IF s = <<Digit(0)>> THEN Success(0)
        ELSE IF first > Len(s) \/ ~IsDigit(s[first]) \/ s[first] = Digit(0) THEN Failure
        ELSE IF ~r.ok \/ r.v > (IF negative THEN LLONG_MAX + 1 ELSE LLONG_MAX) THEN Failure
        ELSE Success(ToSigned(IF negative THEN (Modulus - r.v) % Modulus ELSE r.v))
-----------------------------------------------------------------------------
StringopInit == text = <<>>

StringopNext ==
    IF Len(text) < MaxDigits THEN \E c \in Characters : text' = Append(text, c)
    ELSE text' = <<>>

StringopSpec == StringopInit /\ [][StringopNext]_text

\* The number that a string of digits writes.
Number(s) ==
    LET value[i \in 0..Len(s)] == IF i = 0 THEN 0 ELSE 10 * value[i-1] + s[i][2]
    IN  value[Len(s)]

\* A decimal number without leading zeros and without a minus before zero.
Canonical(s) ==
    /\ s # <<>>
    /\ \A i \in 1..Len(s) : IsDigit(s[i])
    /\ s[1] = Digit(0) => Len(s) = 1

(* string2ll() accepts exactly the canonical decimal numbers that a long    *)
(* long holds, with the value they write: neither the product nor the sum   *)
(* of its loop wraps unseen, and both ends of the range are in.             *)
ParsesExactly ==
    LET tail == IF text # <<>> THEN Tail(text) ELSE <<>>
        minus == text # <<>> /\ text[1] = Minus /\ tail # <<Digit(0)>>
        digits == IF minus THEN tail ELSE text
        n == IF minus THEN - Number(digits) ELSE Number(digits)
    IN  string2ll(text) =
            IF Canonical(digits) /\ LLONG_MIN <= n /\ n <= LLONG_MAX THEN Success(n) ELSE Failure
=============================================================================
