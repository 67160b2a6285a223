---------------------------- MODULE MasterProto ----------------------------
(***************************************************************************)
(* The protocol between the process manager and its children               *)
(* (src/master/master_proto.h, master_proto.c): the two availability codes *)
(* and the status message a child writes on the channel it shares with its *)
(* siblings and the manager.                                               *)
(***************************************************************************)
EXTENDS Integers, Sequences

MASTER_STAT_TAKEN == 0   \* the child is occupied
MASTER_STAT_AVAIL == 1   \* the child is idle

Availability == {MASTER_STAT_TAKEN, MASTER_STAT_AVAIL}

\* struct MASTER_STATUS; a message is 8 bytes, so a write of one is atomic.
MASTER_STATUS(pids) == [pid : pids, avail : Availability]

\* The write of master_notify() on a channel: blocked while the channel is
\* full, an ignored EPIPE error once the reader is gone, one message at the
\* end of the channel otherwise.
CanWrite(channel, open, capacity) == open => Len(channel) < capacity

\* Faulty variant: the channel does not keep the order of the messages.
master_notify_unordered(channel, open, p, status) ==
    IF open THEN <<[pid |-> p, avail |-> status]>> \o channel ELSE channel

master_notify(channel, open, p, status) ==
    IF open THEN Append(channel, [pid |-> p, avail |-> status]) ELSE channel
============================================================================
