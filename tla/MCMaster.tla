------------------------------ MODULE MCMaster ------------------------------
(* Small instances of the process manager for TLC. *)
EXTENDS Master, TLC

CONSTANTS s1, s2, p1, p2, p3

\* The order of the entries in master.cf.
MCPosition == [s \in Services |-> IF s = s1 THEN 0 ELSE 1]

OneProc == [s \in Services |-> 1]
TwoProcs == [s \in Services |-> 2]

\* Process ids are only compared, and no property names one.
PidSymmetry == Permutations(Pids)
=============================================================================
