---------------------------- MODULE MCStructures ----------------------------
(* The library and the reader of master.cf: small instances for TLC.  They  *)
(* share nothing here, so one of them is in use at a time.                  *)
EXTENDS BinHash, Ring, VString, Stringop, Iostuff, MasterEnt

CONSTANTS k1, k2, k3, k4

Symmetry == Permutations(Nodes) \cup Permutations(Entries) \cup Permutations(Values)

\* Collisions in tables of one, three and seven chains.
MCHash == (k1 :> 1) @@ (k2 :> 8) @@ (k3 :> 4) @@ (k4 :> 2)

\* Two entries of one name, one of them with default values and arguments; a
\* port that is missing and a host that is; a missing command; a comment.
MCLines == {<<"h:p", "inet", "-", "2", "c">>, <<"h:p", "inet", "5", "-", "c", "x", "y">>,
            <<"h:", "inet", "-", "0", "c">>, <<"p", "inet", "-", "z", "d/p">>,
            <<"p", "inet", "-", "-">>, <<"#">>}
MCHostPort == ("h:p" :> <<"h", "p">>) @@ ("h:" :> <<"h", "">>) @@ ("p" :> <<"", "p">>)
MCAtoi == ("0" :> 0) @@ ("2" :> 2) @@ ("5" :> 5)
MCBasename == ("c" :> "c") @@ ("d/p" :> "p")

vars == <<hashVars, ring, vp, text, ioVars, entVars>>

Init == HashInit /\ ring_init /\ VStringInit /\ StringopInit /\ IostuffInit /\ MasterEntInit

HashIdle == HashInit /\ UNCHANGED hashVars
RingIdle == ring_init /\ UNCHANGED ring
VStringIdle == vp = vstring_alloc(1) /\ UNCHANGED vp
StringopIdle == StringopInit /\ UNCHANGED text
IostuffIdle == IostuffInit /\ UNCHANGED ioVars
MasterEntIdle == MasterEntInit /\ UNCHANGED entVars

Next ==
    \/ HashNext /\ RingIdle /\ VStringIdle /\ StringopIdle /\ IostuffIdle /\ MasterEntIdle
    \/ HashIdle /\ RingNext /\ VStringIdle /\ StringopIdle /\ IostuffIdle /\ MasterEntIdle
    \/ HashIdle /\ RingIdle /\ VStringNext /\ StringopIdle /\ IostuffIdle /\ MasterEntIdle
    \/ HashIdle /\ RingIdle /\ VStringIdle /\ StringopNext /\ IostuffIdle /\ MasterEntIdle
    \/ HashIdle /\ RingIdle /\ VStringIdle /\ StringopIdle /\ IostuffNext /\ MasterEntIdle
    \/ HashIdle /\ RingIdle /\ VStringIdle /\ StringopIdle /\ IostuffIdle /\ MasterEntNext

Spec == Init /\ [][Next]_vars
=============================================================================
