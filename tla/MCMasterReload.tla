---------------------------- MODULE MCMasterReload ----------------------------
(* A small instance of the manager that reloads its configuration. *)
EXTENDS MasterReload, TLC

CONSTANTS s1, s2, p1, p2, p3

\* The service that may have several processes has the second entry.
MCPosition == (s1 :> 1) @@ (s2 :> 0)

\* One service is limited to a process; the other has no limit, until it is
\* limited to one, too, and the limit may be lifted again.
MCMaxProc == (s1 :> 0) @@ (s2 :> 1)
MCLimits == (s1 :> {0, 1}) @@ (s2 :> {1})
=============================================================================
