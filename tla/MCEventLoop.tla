----------------------------- MODULE MCEventLoop -----------------------------
(* A small instance of the event loop for TLC. *)
EXTENDS EventLoop

\* One descriptor is used both ways; the highest stands for a status channel.
MCRequests == {<<0, "read">>, <<1, "read">>, <<1, "write">>, <<2, "read">>}
=============================================================================
