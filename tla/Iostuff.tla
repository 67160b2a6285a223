------------------------------- MODULE Iostuff -------------------------------
(***************************************************************************)
(* Calls on a descriptor that take time: write_buf(), timed_read() and     *)
(* timed_write() of src/util/iostuff.c and inet_connect() of               *)
(* src/util/inet_stuff.c, with the poll() loop of read_wait() and          *)
(* write_wait() under them, one call at a time.                            *)
(*                                                                         *)
(* The clock may tick at any step.  A tick while the thread is in poll()   *)
(* is sleep, which poll() limits; any other tick is delay: the scheduler,  *)
(* or a system call on a blocking descriptor.                              *)
(*                                                                         *)
(* The result of read() and write() is kept in a size_t, so that a failed  *)
(* call is a count of -1 like any other: no branch for errors is taken.    *)
(***************************************************************************)
EXTENDS Integers, Sequences, SequencesExt

CONSTANTS MaxBuf,     \* bound on the length of a buffer
          MaxTimeout, \* bound on time-outs
          MaxFailures,\* bound on the system calls that fail in a call
          MaxSignals, \* bound on the signals that interrupt poll() in a call
          MaxNow      \* bound on the clock

ASSUME IostuffAssumption ==
    {MaxBuf, MaxTimeout, MaxFailures, MaxSignals, MaxNow} \subseteq Nat

VARIABLES call,   \* the arguments of the call, or NoCall
          iopc,   \* where it is
          buf,    \* write_buf(): bytes of the buffer behind the pointer buf
          len,    \* write_buf(): len
          expire, \* write_buf(): expire
          left,   \* time_left, the argument of write_wait()
          waited, \* seconds that the present poll() has slept
          now,    \* the clock, zero when the call began
          sent,   \* positions in the buffer of the bytes that were written
          failures, signals, delay,   \* how often in this call
          sock,   \* the socket of inet_connect()
          result  \* what the call returned

ioVars == <<call, iopc, buf, len, expire, left, waited, now, sent, failures, signals, delay, sock, result>>

NoCall == [fn |-> "none", n |-> 0, timeout |-> 0, non_blocking |-> FALSE]
NoSocket == [open |-> FALSE, non_blocking |-> FALSE, state |-> "new"]

Calls ==
    [fn : {"write_buf", "timed_read", "timed_write"}, n : 1..MaxBuf, timeout : 0..MaxTimeout,
     non_blocking : {FALSE}]
    \cup [fn : {"inet_connect"}, n : {0}, timeout : 0..MaxTimeout, non_blocking : BOOLEAN]

IostuffInit ==
    /\ call = NoCall /\ iopc = "idle"
    /\ buf = 0 /\ len = 0 /\ expire = 0 /\ left = 0 /\ waited = 0 /\ now = 0
    /\ sent = <<>> /\ failures = 0 /\ signals = 0 /\ delay = 0
    /\ sock = NoSocket /\ result = 0

\* The call ends with -1 or with a count or descriptor.
Return(value) == iopc' = "returned" /\ result' = value
Continue(place) == iopc' = place /\ UNCHANGED result

\* write_wait() or read_wait() is called.
Wait(seconds) == Continue("poll") /\ left' = seconds /\ waited' = 0
-----------------------------------------------------------------------------
CallBegins ==
    /\ iopc = "idle"
    /\ call' \in Calls
    /\ len' = call'.n /\ expire' = call'.timeout /\ left' = call'.timeout
    /\ iopc' = IF call'.fn = "inet_connect" THEN "socket"
               ELSE IF call'.timeout > 0 THEN "poll" ELSE "io"
    /\ UNCHANGED <<buf, waited, now, sent, failures, signals, delay, sock, result>>

\* The caller has the result, and begins another call some time.
CallEnds ==
    /\ iopc = "returned"
    /\ call' = NoCall /\ iopc' = "idle"
    /\ buf' = 0 /\ len' = 0 /\ expire' = 0 /\ left' = 0 /\ waited' = 0 /\ now' = 0
    /\ sent' = <<>> /\ failures' = 0 /\ signals' = 0 /\ delay' = 0
    /\ sock' = NoSocket /\ result' = 0

ClockTicks ==
    /\ iopc \notin {"idle", "returned"}
    /\ now < MaxNow
    /\ now' = now + 1
    /\ IF iopc = "poll" THEN waited < left /\ waited' = waited + 1 /\ UNCHANGED delay
                        ELSE delay' = delay + 1 /\ UNCHANGED waited
    /\ UNCHANGED <<call, iopc, buf, len, expire, left, sent, failures, signals, sock, result>>
-----------------------------------------------------------------------------
\* poll() reports the descriptor, ready or broken.
PollReady ==
    /\ iopc = "poll"
    /\ call.fn = "inet_connect" => sock.state # "connecting"
    /\ Continue(IF call.fn = "inet_connect" THEN "getsockopt" ELSE "io")
    /\ UNCHANGED <<call, buf, len, expire, left, waited, now, sent, failures, signals, delay, sock>>

\* EINTR: poll() is called again with the whole time-out.
PollInterrupted ==
    /\ iopc = "poll"
    /\ signals < MaxSignals
    /\ signals' = signals + 1
    /\ waited' = 0
    /\ UNCHANGED <<call, iopc, buf, len, expire, left, now, sent, failures, delay, sock, result>>

\* ETIMEDOUT, which timed_connect() passes on, so that the socket is closed.
PollTimesOut ==
    /\ iopc = "poll"
    /\ waited = left
    /\ Return(-1)
    /\ sock' = [sock EXCEPT !.open = FALSE]
    /\ UNCHANGED <<call, buf, len, expire, left, waited, now, sent, failures, signals, delay>>
-----------------------------------------------------------------------------
\* Faulty variant: what one write() takes is taken for the whole buffer.
WriteAgain_once(n) == Return(call.n) /\ UNCHANGED <<left, waited>>

\* Faulty variant: what is left of the time is not computed again.
WriteAgain_forgets(n) ==
    IF n = 0 THEN Return(call.n) /\ UNCHANGED <<left, waited>>
    ELSE IF left <= 0 THEN Continue("io") /\ UNCHANGED <<left, waited>>
    ELSE Wait(left)

\* The end of write_buf()'s loop, with n bytes still to be written.
WriteAgain(n) ==
    IF n = 0 THEN Return(call.n) /\ UNCHANGED <<left, waited>>
    ELSE IF left <= 0 THEN Continue("io") /\ UNCHANGED <<left, waited>>
    ELSE IF expire - now <= 0 THEN Return(-1) /\ left' = expire - now /\ UNCHANGED waited
    ELSE Wait(expire - now)

\* write() takes some of the bytes or fails.
WriteBuf ==
    /\ iopc = "io"
    /\ call.fn = "write_buf"
    /\ \E count \in {-1} \cup 1..len :
          /\ count = -1 => failures < MaxFailures
          /\ failures' = IF count = -1 THEN failures + 1 ELSE failures
          /\ sent' = sent \o [i \in 1..(IF count = -1 THEN 0 ELSE count) |-> buf + i - 1]
          /\ buf' = buf + count
          /\ len' = len - count
          /\ WriteAgain(len')
    /\ UNCHANGED <<call, expire, now, signals, delay, sock>>

\* The one read() or write() of timed_read() or timed_write(): no error is
\* seen, so there is no second one.
TimedIo ==
    /\ iopc = "io"
    /\ call.fn \in {"timed_read", "timed_write"}
    /\ \E count \in {-1} \cup 0..call.n : Return(count)
    /\ UNCHANGED <<call, buf, len, expire, left, waited, now, sent, failures, signals, delay, sock>>
-----------------------------------------------------------------------------
\* socket() and non_blocking(), whose failures end the process.  An address without a port ends the call.
MakeSocket ==
    /\ iopc = "socket"
    /\ \/ Return(-1) /\ UNCHANGED sock
       \/ /\ Continue("connect")
          /\ sock' = [open |-> TRUE, state |-> "new",
                      non_blocking |-> call.timeout > 0 \/ call.non_blocking]
    /\ UNCHANGED <<call, buf, len, expire, left, waited, now, sent, failures, signals, delay>>

\* The socket is returned, in the block mode that was asked for.
ConnectSucceeds(state) ==
    /\ Return(1)
    /\ sock' = [sock EXCEPT !.state = state, !.non_blocking = call.non_blocking]

ConnectFails == Return(-1) /\ sock' = [sock EXCEPT !.open = FALSE]

\* connect() succeeds, fails, or has begun to connect a non-blocking socket.
sane_connect ==
    /\ iopc = "connect"
    /\ \/ ConnectSucceeds("connected") /\ UNCHANGED <<left, waited>>
       \/ ConnectFails /\ UNCHANGED <<left, waited>>
       \/ /\ sock.non_blocking
          /\ sock' = [sock EXCEPT !.state = "connecting"]
          /\ IF call.timeout > 0 THEN Wait(call.timeout) ELSE Return(1) /\ UNCHANGED <<left, waited>>
    /\ UNCHANGED <<call, buf, len, expire, now, sent, failures, signals, delay>>

\* The peer answers, or does not want to.
PeerAnswers ==
    /\ sock.state = "connecting"
    /\ \E state \in {"connected", "failed"} : sock' = [sock EXCEPT !.state = state]
    /\ UNCHANGED <<call, iopc, buf, len, expire, left, waited, now, sent, failures, signals, delay, result>>

\* Faulty variant: that the descriptor is writable is taken for success.
timed_connect_unchecked ==
    /\ iopc = "getsockopt"
    /\ ConnectSucceeds(sock.state)
    /\ UNCHANGED <<call, buf, len, expire, left, waited, now, sent, failures, signals, delay>>

\* The end of timed_connect(): SO_ERROR says how the connection went.
timed_connect ==
    /\ iopc = "getsockopt"
    /\ IF sock.state = "failed" THEN ConnectFails ELSE ConnectSucceeds(sock.state)
    /\ UNCHANGED <<call, buf, len, expire, left, waited, now, sent, failures, signals, delay>>
-----------------------------------------------------------------------------
IostuffNext ==
    \/ CallBegins
    \/ CallEnds
    \/ ClockTicks
    \/ PollReady
    \/ PollInterrupted
    \/ PollTimesOut
    \/ WriteBuf
    \/ TimedIo
    \/ MakeSocket
    \/ sane_connect
    \/ PeerAnswers
    \/ timed_connect

IostuffSpec == IostuffInit /\ [][IostuffNext]_ioVars
-----------------------------------------------------------------------------
(* "write buffer or bust": write_buf() returns the length of the buffer only *)
(* when every byte of it was written, in order, through any partial writes   *)
(* and time-outs.  A failed write() makes it write the byte before again:    *)
(* no byte is left out, but one more is sent for every failure.              *)
BufferWritten ==
    call.fn = "write_buf" =>
        /\ failures = 0 => sent = [i \in 1..buf |-> i - 1]
        /\ result > 0 => /\ result = call.n
                         /\ 0..call.n - 1 \subseteq ToSet(sent)
                         /\ Len(sent) = call.n + failures
        /\ \A i \in 1..Len(sent) : sent[i] < call.n

(* A call with a time-out returns in time: it never sleeps longer in all    *)
(* than it was allowed, however many writes it takes, unless signals        *)
(* interrupt poll(), each of which may cost the time-out once more          *)
(* (write_wait, read_wait, write_buf's expire).                             *)
ReturnsInTime ==
    call.timeout > 0 => now <= call.timeout * (1 + signals) + delay

(* inet_connect() returns a socket that is connected, or that is connecting *)
(* when no time-out was given and it may not block, in the block mode that  *)
(* was asked for; when it fails no descriptor stays open.                   *)
ConnectSound ==
    call.fn = "inet_connect" /\ iopc = "returned" =>
        /\ sock.open <=> result # -1
        /\ sock.open => /\ sock.non_blocking = call.non_blocking
                        /\ \/ sock.state = "connected"
                           \/ call.timeout = 0 /\ call.non_blocking
=============================================================================
