----------------------------- MODULE Dictionary -----------------------------
(***************************************************************************)
(* What a table from keys to values promises to callers that enter no key  *)
(* twice and delete no key that is not there.                              *)
(***************************************************************************)
CONSTANTS Keys, Values

VARIABLE dict    \* a function from the keys entered to their values

Init == dict = <<>>

Enter(k, x) ==
    /\ k \notin DOMAIN dict
    /\ dict' = [l \in DOMAIN dict \cup {k} |-> IF l = k THEN x ELSE dict[l]]

Delete(k) ==
    /\ k \in DOMAIN dict
    /\ dict' = [l \in DOMAIN dict \ {k} |-> dict[l]]

Next == \E k \in Keys : Delete(k) \/ \E x \in Values : Enter(k, x)

Spec == Init /\ [][Next]_dict
=============================================================================
