------------------------------- MODULE Alarms -------------------------------
(***************************************************************************)
(* What the timers of the event loop promise, whatever keeps them: each    *)
(* timer is set for at most one second, a timer that is set again gives up *)
(* its old place, timers go off never before their second, the earliest    *)
(* first, and those of one second in the order in which they were set.     *)
(***************************************************************************)
EXTENDS Integers, Sequences, SequencesExt

CONSTANTS Timers,   \* the timers
          Delays,   \* the delays a timer may be set for, in seconds
          Horizon   \* no timer is ever set for a later second

VARIABLES now,      \* the time of day, in seconds
          line      \* for every second, the timers set for it, in order

vars == <<now, line>>

\* The lines once timer t has left the one it stood in.
Without(t) == [w \in 0..Horizon |-> RemoveFirst(line[w], t)]

Init == now = 0 /\ line = [w \in 0..Horizon |-> <<>>]

SetTimer(t, d) ==
    /\ now + d <= Horizon
    /\ line' = [Without(t) EXCEPT ![now + d] = Append(@, t)]
    /\ UNCHANGED now

Cancel(t) == line' = Without(t) /\ UNCHANGED now

GoesOff ==
    \E w \in 0..now :
        /\ line[w] # <<>>
        /\ \A early \in 0..w-1 : line[early] = <<>>
        /\ line' = [line EXCEPT ![w] = Tail(@)]
        /\ UNCHANGED now

Tick == now' = now + 1 /\ UNCHANGED line

Next ==
    \/ \E t \in Timers : Cancel(t) \/ \E d \in Delays : SetTimer(t, d)
    \/ GoesOff
    \/ Tick

Spec == Init /\ [][Next]_vars
=============================================================================
