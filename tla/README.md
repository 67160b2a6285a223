# Verification of nowra

nowra is a small C framework for network services in the style of Postfix: a
process manager (`src/src/master`) that owns the listen sockets and starts
service processes on demand, a skeleton for single-threaded services
(`single_server.c`, `src/src/service`), and a utility library
(`src/src/util`) with an event loop, a thread pool and data structures.
This directory holds TLA+ models of it, TLC runs over small instances and
proofs that TLAPS checks for all instances.

## The system

| component | state | operations | talks to |
|---|---|---|---|
| main loop (`master.c`) | event loop `master_el` | configure, then `event_wait(master_el, 2)` for ever | everything by callbacks |
| availability (`master_avail.c`) | `avail_proc`, `MASTER_FLAG_LISTEN` of a service | `master_avail_event` (listen socket readable), `_listen`, `_more`, `_less`, `_cleanup` | event loop (read request), spawning |
| spawning (`master_spawn.c`) | `master_child_table`, `total_proc`, `MASTER_FLAG_THROTTLE` | `master_spawn`, throttle and unthrottle with a timer, reap and delete children | `fork`, timers, availability |
| status channel (`master_status.c`, `master_proto.c`) | one pipe per service, `MASTER_PROC.avail` | `master_notify` in the processes, `master_status_event` in the manager | availability |
| service life cycle (`master_service.c`, `master_conf.c`, `master_listen.c`) | list of services | start, stop, restart, configure, refresh | all of the above |
| configuration parser (`master_ent.c`) | open file | one entry per call | life cycle |
| signals (`master_sig.c`) | two flags | handlers | nothing: never installed |
| service process (`single_server.c`, `smtpd.c`) | its event loop, one connection | accept, notify, serve, notify | kernel (shared socket), status channel |
| event loop (`events.c`) | descriptor masks, timer queue, cached time | enable, disable, request and cancel timers, wait | callbacks, `epoll` |
| ring, hash table, strings, buffers, memory | pointers and bytes | data structures | used by the above |
| thread pool (`thpool.c`) | job ring, binary semaphore, counters, static keepalive flag | init, add, wait, destroy, worker loop | POSIX threads |
| descriptor I/O (`iostuff.c`), sockets (`inet_stuff.c`) | what is left of a buffer and of a time-out, within one call | write a buffer, read, write and connect with a time-out | kernel |
| logging | none worth naming | wrappers round system calls | kernel |

What is hard in it, and what makes each part correct:

* **Manager and processes** run concurrently and know each other only by
  messages that arrive late, and a reload changes limits, channels and the list of services under them. `epoll_wait()` hands out a batch of events, and a
  callback may make a later event of the batch obsolete. The manager is
  correct if its counters agree with its table, if the processes that exist
  stay below the limit, if its belief about each process catches up with the
  process, and if a socket always has somebody who watches it. Forks fail, and
  processes die.
* **Event loop**: callbacks of timers change the queue that is being walked,
  and decisions are made by a cached time. It is correct if timers go off in
  order, not early, not twice, and if the sleep never outlasts the first timer.
  Its other half keeps a mask per descriptor beside the list inside the kernel, and `epoll_ctl()` may refuse. It is
  correct if the two agree, and if every descriptor that is ready gets a callback that was stored for it.
* **Thread pool**: three locks, a semaphore that remembers one post only, two
  counters that are read without a lock, and memory that is freed while
  threads may still be leaving. It is correct if no job is lost or run twice,
  if no wakeup is lost, and if waiting and destroying mean what they say.
* **Descriptor I/O**: partial writes, errors kept in unsigned counts, signals that start a wait again. It is correct if a
  buffer that is reported as written was written, and if no call outlasts its time-out.
* **Data structures**: pointers, boundaries and growth. Sequential; correct if they hold what was put into them after any
  sequence of operations.

`PROJECT.json` lists every component, also those that are not modelled, and under
`hazards` the places where the code is hard to test.

## Modules

`MasterProto` holds the vocabulary of manager and processes: the two
availability codes, the message and what `master_notify()` does to a channel.

`SingleServer` models the service processes. The variables are the phase of every pid
(`child`), the service whose descriptors it inherited (`serv`), the queues of the listen
sockets (`pending`) and the channels (`pipe`, `statusOpen`). One action per
step between two system calls: woken by epoll, `accept` (won or lost to a sibling),
the notification before and after the service function, the return of the
service function, and death in any phase (`execvp` fails, `msg_fatal`, a signal, a bug).

`MasterServ` holds the part of `struct MASTER_SERV` on which control depends
and the handlers that change it as functions on that record:
`master_avail_listen`, `_more`, `_less`, `master_throttle`, `master_unthrottle`.
The record has one field that the struct has not, `registered`: the mask that
the event loop keeps for the listen descriptor. Whether it agrees with
`MASTER_FLAG_LISTEN` is one of the questions.

`Master` composes all that into the running system. A callback of the manager is one step, since
the manager is one thread; processes and clients run between callbacks. The variable `fd` has the numbers of the three
descriptors of a service (`listen_fd`, `status_fd[0]`, `status_fd[1]`), because the event loop compares numbers: it panics
when an event of the batch has a number above `maxfd`, the highest number with a request. `main()` opens them entry by entry in the
order of `master.cf` (`Position`), the socket first and then the pipe. Number 0 stands for the descriptor of `master.cf` while it
is read; descriptors below that never change hands.

| code | action |
|---|---|
| `epoll_wait()` in `event_wait()`: a batch of events (`ready`) and the timers that are due (`due`) | `event_wait` |
| the timer loop | `master_unthrottle_wrapper` |
| the loop over the batch, which does not look at masks, with its check of the number (`events.c:401-406`) | `HandleEvent`: `DispatchPanics` when the number is above `maxfd`, otherwise the callback, of which `Dispatch` is a conjunct |
| `master_avail_event` with `master_spawn`: panic, failed fork, successful fork | `master_avail_event` |
| `master_status_event` | `master_status_event` |
| a signal that nothing handles | `MasterKilled` |

`MasterReload` extends `Master` by what `master.h` offers and `main()` does not call: `master_refresh()` and
`master_reap_child()`, which the manager may call between any two calls of `event_wait()`. New in the state are the
list of services (`configured`, `doomed` for those that still bear `MASTER_FLAG_MARK`), the place of the manager's
thread (`place`, `stopping`), the processes that write to a channel nobody reads (`orphans`), the signals sent
(`sigterm`) and `use_count` (`used`). Four history variables record what excuses a property: `kept` (a service was put
on hold with its listen request left in place), `lowered` (a refresh has lowered a limit), `mixed` (a pid was used again
while a message of its former owner was unread) and `deleted` (a service has been stopped). Closing and opening descriptors
changes `fd`: a new one gets the lowest number that is free, as `socket()` and `pipe()` give it.

| code | action |
|---|---|
| `waitpid()` loop of `master_reap_child`, from the main loop or from `master_delete_children` | `ReapBegins`, `ReapOne` (one child, with `master_throttle` and `master_delete_child`), `ReapEnds` |
| `master_refresh` up to `master_config`: the marks | `BeginRefresh` |
| `master_config`, one entry of the file: a new service, or a limit and `master_restart_service` | `ReadEntry` (`NewEntry`, `OldEntry`) |
| the end of the file | `EndReading` |
| `master_stop_service` up to the kill of the children | `StopBegins` |
| `master_delete_children` polling | `ReapBegins` again, while `total_proc` is not zero |
| its end, `master_avail_cleanup`, `master_listen_cleanup`, `free_master_ent` | `StopEnds` |
| the default action of SIGTERM in a process | `Terminated` |
| a notification that finds no reader | `OrphanNotifies` |
| an event of the batch with a number above `maxfd` | `Panic` |

A refresh is read entry by entry, in any order and with any of the services left out, because the order of the entries decides
which service gets which numbers. `MCMasterReload` is its instance, `MasterReloadProofs` holds the theorems about it.

`MCMaster` gives the constants their values for TLC. `MasterProofs` holds the theorems about `Master`.

`ThreadPool` models `thpool.c` by critical section: the place of every thread
(`pc`), the job it holds, the job ring as a sequence of job numbers, the
semaphore, the two counters, the keepalive flag and where the user's thread
is. The unlocked reads of `thpool_wait()` are two steps. A pull from an empty
ring returns the ring head as if it were a job; that sets `fault`, and the
behaviour ends there because calling a word of an allocation header as a
function has no further meaning. `MCThreadPool` is its instance, `ThreadPoolProofs` holds the theorems about it.
`JobPool` is the abstract specification: jobs wait in a line, a worker that has none takes the first, and closing drops
those that wait. `ThreadPool` implements it under the mapping that forgets threads' places, semaphore and counters
(`ImplementsJobPool`).

`Alarms` is an abstract specification: what timers promise, a line of timers for each second.
`EventTimers` models the timer half of `events.c`, the queue as a sequence,
the cached time, the time-out of `epoll_wait()` and the loop that runs
timers, with callbacks that set and cancel timers. It implements `Alarms` under
the mapping that reads off, for every second, the stretch of the sorted queue that has the timers of that second
(`Before`, `Line`, `ImplementsAlarms`). `MCEventTimers` is its instance, `EventTimersProofs` holds the theorems.

`EventLoop` models the descriptor half of `events.c`. The variables are, for every descriptor, the
mask of its slot, the callbacks stored there, and what `epoll` has in its own list (`interest`);
then `maxfd`, the batch that `epoll_wait()` returned and the place of the loop. Both operations are
there with their order of statements: `event_enable_rw` changes the mask first and then asks
`epoll_ctl()`, `event_disable_rw` asks first, and each returns early when it is refused. The
program enables and withdraws requests outside `event_wait()`, in the callbacks of timers and in those of
descriptors. `MayDisable` restricts it to the habits of the manager as `main()` runs it. `MCEventLoop` is its instance,
`EventLoopProofs` holds the theorems. `Master` uses a simpler loop: the batch, and the highest number that has a request.

`BinHash` models `binhash.c` with its chains: the array of heads, the `next` and `prev` pointers of
every entry, growth that links all entries anew in the order of a walk, and deletion that joins neighbours.
It implements `Dictionary`, a function from keys to values; that is how `Master` treats
`master_child_table`. `Ring` models `ring.c` by pointers and compares each operation with the one on
sequences that `EventTimers` and `ThreadPool` use for their queues. `VString`
models the growing strings of `vstring.c`: the allocated bytes, the write position, the count of
bytes left as the code keeps it, and formatting into them by `vbuf_print.c`.

`Stringop` is `string2ll()` as operators, for a `long long` of `WIDTH` bits, with the wrap of unsigned arithmetic. `Iostuff`
models one call at a time of `write_buf()`, `timed_read()`, `timed_write()` and `inet_connect()`: the `poll()` loop under
them, the clock, partial results, errors that an unsigned count hides, signals, and a peer that answers or refuses;
`BufferProofs` holds its theorems and those about `Stringop` and `VString`, `PointerProofs` those about `Ring`, `BinHash` and `MasterEnt`. `MyMalloc`
has the allocator and the string vectors as functions on a heap, the set of blocks that bear the signature.
`MasterEnt` reads `master.cf` with them: which lines are skipped or fatal, what an entry holds, what
`master_config()` adds to the list of services or swaps into an old one, and what is freed. A line is the sequence of its tokens.

`MCStructures` puts these six into one instance. They share no state there, so one of them is in use at a time.

`DataLemmas` holds what the proofs about timers and data structures share: the least of a set of numbers, functions defined by
recursion, and what insertion into a sequence and removal from one do.

Operators whose comment begins "Faulty variant" are deliberate mistakes; each
is what one property was seen to reject when it replaces the definition after it.

## Runs

| run | instance | shows |
|---|---|---|
| `master_safety` | 1 service, limit 2, 3 pids, backlog 2, channel of 3, one death, one failed fork, the manager may be killed | `CountsAgree`, `ProcessLimit`, `StatusConverges`, `ListenPolicy`, `SanityChecks`; `SocketWatchedSoFar`: without faults no socket is left unwatched |
| `master_liveness` | 2 services, limit 1, one death, one failed fork | connections are accepted, throttling ends |
| `master_reload` | 2 services, one with no limit or a limit of 1, the other with a limit of 1, 2 pids, 2 refreshes with the entries in any order, 2 connections, one death; `fork()` fails when no pid is left | `ReloadCounts`, `PanicsExplained`, `NothingLeft`, `ReapedIsWatched`; deleting services ends |
| `master_stale_event` | limit 2, no faults | **violated** `SpawnSane` |
| `master_deaf_fork` | limit 2, one failed fork | **violated** `SocketWatched` |
| `master_deaf_death` | limit 1, one death | **violated** `SocketWatched` |
| `master_suicide` | limit 1, the manager may be killed | **violated** `CommitsSuicide` |
| `pool` | 3 threads, 4 jobs, one added by a job | implements `JobPool`; jobs accounted for, counters exact, wait sound, no lost wakeup, freed when unused; jobs run, wait and destroy return |
| `pool_empty_pull` | 2 threads, 3 jobs | **violated** `NoEmptyPull` |
| `event_timers` | 3 timers, delays 0 to 2, clock up to 3 | implements `Alarms`, timers go off in time |
| `event_loop` | 3 descriptors: one read, one read and written, one read and pinned; one refused addition | masks agree with `epoll`, only stored callbacks are called, no panic, readable descriptors are served |
| `structures` | hash table of 4 keys that grows from 1 to 3 to 7 chains; ring of 3 entries; string of up to 3 bytes in buffers of 1 byte and more; decimal strings of up to 3 characters in 5 bits; buffers of up to 3 bytes, time-outs up to 2, one error and one signal; files of up to 2 lines read twice | chains sound, implements `Dictionary`; pointers agree, operations are those on sequences; buffer sound, operations make the text they are named for; `ParsesExactly`; `BufferWritten`, `ReturnsInTime`, `ConnectSound`; `ServicesOwnMemory` |

### What the violated runs say

* **Stale event** (`master_spawn.c:103`). A process finishes and a client connects while the
  manager is busy. Both descriptors are in one batch; the status message comes first, makes the process
  available and withdraws the listen request; the listen event is still
  dispatched and `master_spawn()` panics on "processes available". The
  whole manager is gone after a perfectly ordinary load.
* **Deaf after a failed fork** (`master_avail.c:32`). `master_throttle()` leaves the listen
  request alone. The next connection finds the service throttled, and
  `master_avail_event()` withdraws the request without clearing
  `MASTER_FLAG_LISTEN`. When the throttling ends, `master_avail_listen()`
  compares the flag with what it wants, sees no difference and does nothing.
* **Deaf after a death** (`master.c:38`). Dead processes are never reaped because
  `main()` neither installs the signal handlers nor calls
  `master_reap_child()`. An idle process that dies stays "available".
* **No suicide** (`single_server.c:56`). The comment promises it, the call is commented out.
* **Empty pull** (`thpool.c:154`). Two jobs are added; thread A takes the semaphore, and before
  it pulls, the second post lets thread B take it too; A pulls, sees two jobs and posts
  once more; B pulls the last job, and whoever takes A's post pulls from the
  empty ring. `job_p` is never NULL, so the check at line 246 does not help.

### What the passing runs say besides

* A descriptor that `epoll_ctl()` refuses once is stuck: its mask says that it is watched, so every later
  call asks to modify or delete an entry that `epoll` does not have, and fails
  (`events.c:140-156`). `MaskAgrees` says what is left in that case, and that
  nothing else leads to it.
* `NoBadDescriptor` needs `MayDisable`: a program that withdraws the highest request
  in a callback, while the batch still holds an event for that descriptor, is stopped by the panic "bad file descriptor"
  (`events.c:404`). The manager that `main()` runs is safe (`SanityChecks`):
  the status channel of a service is opened after its listen socket and so has a higher number, and nothing closes it. Neither
  holds any longer once a service has been deleted, see "bad file descriptor" below.
* A descriptor that is readable and writable gets its read callback only (`events.c:413`), so
  `ReadServed` has no counterpart for writing.
* `PanicsExplained`: the calls of this module panic for four causes. One is the stale event above. A refresh that lowers a limit can end the
  manager, too. `master_config()` stores the new `max_proc` and
  `master_restart_service()` does not call `master_avail_listen()`, so a listen request that the new limit forbids
  survives, and the next connection meets the check "at process limit" (`master_conf.c:116`, `master_spawn.c:100`). Reaping makes a
  further panic possible: a pid is used again, by another service, while a message of its former owner is unread
  ("pointer corruption", `master_status.c`).
* The fourth is "bad file descriptor" (`events.c:404-406`). Deleting a service frees its numbers. The next restart of another one
  closes its status channel and opens a new one (`master_service.c:59-64`, `master_status.c:122`, `:148-151`), which may then get numbers below
  that of its listen socket. If this socket has the highest number with a request and the batch has a status message and a
  connection, the message withdraws the listen request, `maxfd` falls (`events.c:216-221`), and the event that is still in the batch is above it.
  `master_throttle()` does not help: the panic comes before the callback.
* The panic on `myfree("")` (below) is one of `free_master_ent()`, which `MasterReload` does not model as memory; that is why the
  causes are those "of this module".
* A raised limit has no effect either until something else reconsiders the request.
* The comment at `master_conf.c:102-107` wants the old processes to "commit suicide whenever it is convenient". They do
  not: their notification fails, which is only logged, and they serve on with the old configuration
  (`OrphanNotifies`). The manager counts them as what they last reported, so `ReapedIsWatched`
  excuses a service as long as a process of an older generation lives.
* `ReapedIsWatched` also says what reaping would mend: with it, a death leaves no socket unwatched
  (compare `master_deaf_death`), but for two ways in which a service is put on hold with its listen request in place (`kept`). One is a
  failed fork. The other came out of the attempt to prove the property without it: a process that dies before its first report
  makes `master_reap_child()` throttle the service (`master_spawn.c:224-229`); when a refresh has lowered the limit below the processes that
  are left, `master_delete_child()` does not reconsider the request afterwards (`master_spawn.c:176`); the limit is
  raised, the next connection withdraws the request behind the flag, and the end of the throttling restores nothing. The shortest such
  behaviour has one service, three connections and two deaths.
* `write_buf()` keeps the result of `write()` in a `size_t`: a failed write moves the buffer back by one byte and lengthens the
  rest by one. The byte before is sent twice, and when the first write fails that byte lies
  in front of the buffer (`iostuff.c:202-211`). `BufferWritten` says that nothing is left out all the same. For the same reason
  `timed_read()` and `timed_write()` never retry.
* A signal starts `poll()` again with the whole time-out (`iostuff.c:78`, `:111`); `ReturnsInTime` counts the signals.
* `host_port()` returns a copy of the name that `get_master_ent()` never frees: one block is lost per entry read
  (`master_ent.c:223`). The port of a name that ends with a colon is the shared empty string, which `free_master_ent()` hands to
  `myfree()`, so the manager panics when such a service is updated or deleted (`mymalloc.c:105`). `ServicesOwnMemory`
  says that there is nothing else of this kind.
* `vstring_range()` ignores its end but for deciding which bytes it moves: the length shrinks by the start, and a range that
  starts at 0 leaves nothing (`vstring.c:297-302`). No program calls it. It stays inside the buffer (`BufferSound`).

### Bounds, and why they are enough

Every bound is a constant. `Backlog` 2 lets a connection arrive for which the
manager still has an event; `PipeCap` 3 is reached, so that
`master_notify()` blocks (a real pipe holds 8192 messages; the size only
decides when it blocks). Two processes under the limit are the least for which
siblings compete and the stale event exists; a third pid is there so that the
limit and not the supply of pids binds. `MaxDeaths` and
`MaxForkFails` count faults: one of each already breaks `SocketWatched`, and
the theorems hold for any number. In `pool`, three threads and four jobs give a queue longer
than two with two threads between taking the semaphore and pulling. In
`event_timers`, the delays include zero and equal times, and the clock may pass several timers
at once.

In `master_reload`, two refreshes let a service be dropped and taken up again, or lowered and then raised or dropped; a limit of 0
is none, so that one service may have both processes, and two services are the least for which a pid moves from one to the
other while its message is unread. The service that may have both has the second entry: its numbers are above the other's, so that deleting the other lets a restart
put its status channel below its socket. Numbers go up to three per service, as many as can be open.
`lowered`, `mixed` and `deleted` are needed in this run: TLC refutes the property without any of them. `kept` is not: `MaxForkFails` is 0 to keep
the run small, `fork()` then fails only while both pids are in use, and two connections are too few for that to leave a socket unwatched. With `MaxForkFails` 1, TLC refutes `ReapedIsWatched` without `kept` after seven steps (one connection, no refresh); its second half
takes more connections and deaths (see above). The theorem holds for every value of these bounds.

In `event_loop`, two descriptors below the pinned one let `maxfd` fall over a gap and stay for a
lower request, and one refused addition is enough to make a slot stuck; the theorems hold for any number. In `structures`,
`MinSize` 1 stands for the code's 13, so that four entries make the table grow twice, and the hash values collide in
tables of one, three and seven chains; `INT_SPACE` 2 is just enough for the numbers that are printed, as the code's 32
is for a long; texts of two bytes (`MaxText`) added to strings of up to three (`MaxLen`) take both kinds of growth, and a format has a
literal text of one byte (`MaxLiteral`) and a number of either width. `WIDTH` 5 puts both ends of the signed range among the strings of three characters, and three digits overflow
the product and the sum. A buffer of three bytes takes three writes, so that a time-out of two can end between them. Two lines give
two entries, an entry and its update, or a duplicate; reading the file twice adds updates and deletions. `MaxNow` stops the clock and
nothing else.

`CHECK_DEADLOCK FALSE` is set where the system really may stop: the manager
after a panic or when it is killed, all service processes dead or blocked on a full channel, no refresh or connection left,
the pool when it is freed. The event loop and the data structures check for deadlock.

Symmetry is used in the runs without liveness only: pids of one instance, threads of one
pool, addresses and values of the data structures. The code compares them and does nothing else with them.

### Fairness

* The manager's thread takes its next step (`WF_vars(MasterStep)`), and every process its own: the scheduler
  runs them. Clients have no such duty; that the service function returns is an assumption about them.
* `SF_vars(event_wait /\ s \in due')`: a pending timer is due after its delay, so a call of `event_wait()`
  cannot for ever return without it. Weak fairness is not enough because the
  manager is not always in `event_wait()`.
* In `MasterReload`, the manager's thread runs (`WF_allVars(ManagerStep)`; it includes reading an entry, the end of the file and a panic, but
  nobody has to begin a refresh), and SIGTERM is delivered: no process of the skeleton
  catches, blocks or ignores it. Nothing else is needed for `DeletingEnds`.
* In the pool, every thread is scheduled, and a job's function returns. No fairness among sleepers
  is assumed: any thread may get the signal.
* In `EventLoop`, the program calls `event_wait()` for ever and callbacks return (`WF_vars(LoopStep)`).
* In `EventTimers`, time passes, `epoll_wait()` returns once its time is up, and signals do not interrupt it every time. It is not
  assumed that descriptors become ready.

## Proofs

### The manager: `MasterProofs`

For every set of services and pids, every limit, channel size and number of
faults these are invariants of `Spec`: `TypeOK`, `CountsAgree`, `SanityChecks`,
`ListenPolicy`, `ProcessLimit`, `StatusConverges`, `SocketWatchedSoFar`, and `SpawnSane` when no
service may have more than one process. The only assumptions are the three named
`ASSUME`s of `SingleServer` and `Master` (services have different positions without gaps); the set of pids may be infinite,
since the table stays finite.

Most of these are not inductive alone. The inductive invariant `IInv` is `TypeOK` with

* `TableInv`: the table is finite and holds exactly the pids in use, so that a pid that is forked is not in it,
  which keeps the cardinalities in step with the counters (`CountsAgree`);
* `OwnMessages`: every message in a channel is from a process of that channel's service; that is why the panic
  on pointer corruption cannot happen;
* `ServicesInv`: in every record the `listen` flag is what `listen_flag()` computes unless
  the service is throttled, a registered read request implies the flag, the flag implies room below
  the limit, and the limit is kept;
* `ReadyLimit`: a listen event of the batch that has not been dispatched implies room
  below the limit. Between `epoll_wait()` and the dispatch only this very event forks, so the panic on the
  limit cannot happen even for a stale event;
* `NumbersInv`: the numbers are those that `main()` got, so that a status channel is above its socket and the event of a socket is never
  above `maxfd`;
* `SanityChecks`: the manager stops for no reason but an idle process or a signal.

What a handler does to one record is proved first, in lemmas about the operators of
`MasterServ`; the step of `IInv` then goes action by action.
`StatusConverges` is inductive given `IInv` and rests on the order of the channel: the last
message of a process is what it last reported. `OneProcessIsSane` shows why the stale event needs two
processes: with one, a listen event of the batch means that there is room, so no process at all, so none that is
idle.

`SocketWatchedSoFar` adds `SoFarInv`: while no fork has failed, no service is throttled and the flag comes with the request; while
nothing has died, no process is dead. If then a socket is not watched by the manager, the flag is off, and its rule says that a
process is available or that the limit is reached: in the first case that process waits for connections or has news on the way
(`StatusConverges`), in the second all are busy or some are not, and those listen. The number of failed forks is counted until it
passes its bound and no further, since no free pid is the other reason for `fork()` to fail and may come back for ever.

### The reloading manager: `MasterReloadProofs`

For every set of services and pids, all limits, and any number of refreshes, deaths, failed forks and connections: `ReloadCounts`,
`NothingLeft`, `PanicsExplained` and `ReapedIsWatched`. Assumptions: `ReloadAssumption` and those of `Master`. There are four
inductive invariants.

* `BaseInv`, relative to nothing: types, `TableInv` and `CountsAgree` of `MasterProofs`, a request implies the flag and a timer means throttling
  (`ServicesOK`), the event loop knows configured services only and is not inside `event_wait()` while children are
  reaped or services stopped (`PlaceInv`, `EventsConfigured`), what is not configured has nothing left (`GoneInv`), and
  a service that is being stopped has no message, no listener and only processes that write to nobody (`StopInv`).
* `OpenedInv`: until a service is deleted, the descriptors have the numbers that `main()` gave them and all services are configured: a
  restart frees two numbers and gets the same two again, since every lower one is taken (`SameNumbers`). So no event is above `maxfd` then
  (`DispatchExplained`).
* `PanicInv`: unless a limit was lowered, a request and an undispatched event mean room below the limit (`LimitInv`); unless a pid was
  reused, a message is from a process of its service or from one that has been reaped (`SendersKnown`).
* `WatchInv`: the flag follows its rule in every service that is not throttled, or all its processes are older than the last
  refresh (`FlagInv`); unless `kept`, a flag comes with a request and without throttling (`KeptInv`); a busy process is known to be busy, or
  its message is on the way (`TakenKnown`).

`KeptInv` did not hold as first stated; the counterexample is the second half of `kept` above.

### The thread pool: `ThreadPoolProofs`

For every finite set of threads and every number of jobs, also of jobs that add jobs: `TypeOK`, `JobsAccounted`, `CountersAgree`,
`WaitSound`, `FreedWhenUnused` and `NoLostWakeup`; and for one thread `NoEmptyPull`, which
the run `pool_empty_pull` refutes for two. `PoolImplementsJobPool` is the refinement of `JobPool`.
Assumption: `ThreadPoolAssumption`.

The inductive invariant `PInv` adds to the properties `JobPlaces` (a thread holds a job exactly while it runs
it), `JobsInv` (`JobsAccounted` job by job: the queue holds the last numbers in order, the earlier ones are finished or in
one thread's hands), `Started` (no thread is uncounted once `thpool_init()` has returned: without it
`num_threads_alive = 0` would not mean that all have left) and `WaitInv` (between the two reads of
`thpool_wait()` an empty queue stays empty). The actions that only move a
thread between places the invariant does not tell apart are dealt with by
one lemma, `QuietStep`. `WaitSound` follows because with `num_threads_working = 0` nobody holds
a job. `NoLostWakeup` is inductive by itself, given the types. With one thread, `PostsBacked` is
inductive: a post that nobody has taken, or a thread that is on its way to the queue, stands
for a job in the queue, and both together for two.

The refinement maps a pull from a queue that is not empty to `Take`, the return of a job to `Finish`, both pushes to `Add` and
`DestroyFrees` to `Close`; every other step, the pull from an empty queue among them, is a stutter. It needs the invariant
three times: a thread that pulls holds no job, a thread that returns holds one (`JobPlaces`), and when the pool is freed nobody
runs one (`CountersAgree` with `alive = 0`).

### The event loop: `EventLoopProofs`

For every number of descriptors, every set of requests and any number of refused additions: `TypeOK`, `MaskAgrees`,
`MaxfdHighest`, `CallbackStored` and `NoBadDescriptor`. Assumption: `EventLoopAssumption`; the discipline of the manager that `main()` runs is the guard
`MayDisable` of the specification. The inductive invariant adds to the properties that what is in `epoll`'s list has
its callbacks stored, now and for every event of the batch that is not dispatched (`CallbackInv`; no operation ever removes a
callback), and that every descriptor of the batch is at most `maxfd` (`BatchInv`): inside
`event_wait()` a request is withdrawn only below a watched and pinned descriptor, so `maxfd` does not fall then.

### Timers: `EventTimersProofs`

`QueueIsSorted` and `TimersImplementAlarms`, for any timers, any delays and any bound on the clock. Assumption: `TimersAssumption`.
The invariant `QueueInv` says that the cached time is not ahead of the clock and that the queue is sorted and has each timer
once. In a sorted queue the timers of a second are one stretch (`SortedBefore`), so removing and inserting an entry change one line
each (`RemovedLine` and the lemmas beside it): a cancellation maps to `Cancel`, a request to `SetTimer`, the head of the queue going off to `GoesOff`, because
it is first in the line of the earliest second, and the passing of time to `Tick`. The rest of `event_wait()` stutters.

### Pointers: `PointerProofs`, `DataLemmas`

* `Ring`, for any set of entries: `PointersAgree` and `OperationsOnSequences`. Assumption: `RingAssumption`.
  That pointers agree is inductive once the head is known to be linked (`RingInv`), but it would allow a second ring beside the one that the
  head is in. `WalkInv` says that there is a sequence of entries, each once, that the pointers follow from the head and back, with nothing else
  linked; appending and prepending insert into it, detaching removes from it. `Walk`, which is recursive,
  is shown to yield that sequence.
* `BinHash`, for any keys, hash values and entries: `ChainsSound` and the refinement of `Dictionary`. Assumption: `BinHashAssumption`, of which the
  proofs need that `NULL` is neither an entry nor a value nor a pair of them, and that hash values are natural numbers. The invariant `HashIInv` says that
  there are chains, one sequence of entries for every slot, to which the pointers correspond (`Chained`): every entry in use is in the chain
  of its key's slot, once; that no two entries have one key; that the next pointers of all other entries are `NULL` (`Loose`), without which a walk might go on behind
  a chain; and that `used` is the number of entries and at most `size`. `LinkLemma` and `UnlinkLemma` say what an entry more or less does to the
  chains, `ChainLemma` and `ListLemma` that the walks meet each entry once. `GrowLemma` follows `binhash_grow()` over that list: after
  j steps the chains of the new array hold its first j entries. `LocatedLemma` makes the entries in use a function from keys to values, which is what
  `Dictionary` is about.
* `MasterEnt`, for any file and any number of reloads: `ServicesOwnMemory`. Assumption: `EntAssumption`, that lines are sequences of tokens and
  that `atoi()` gives integers; nothing is assumed of `host_port` and `basename`. The inductive invariant `EntIInv` knows why services share no
  block although an update mixes the blocks of two entries: a service has the struct, name, host and port of the entry that made it
  (`Maker`) and the path and arguments of the one that was read last (`Reader`), and no two services have the same maker or the same
  reader (`Distinct`). `BlocksLemma` says that the blocks that `free_master_ent()` frees are all different, `FreeLemma` that the allocator
  then refuses none but the shared empty string, `UpdateHeap` that an update gives up exactly what neither the service nor
  another one uses.

### Text and bytes: `BufferProofs`, `DataLemmas`

* `Stringop`, for every width and length of text: `ParsesExactly`. Assumption: `StringopAssumption`, of which
  `2^WIDTH \in Nat` only says what arithmetic does. The value of a text is the last of the values of its prefixes; the loop of `string2ll()` has the
  value of the prefix it has read as long as that fits, its two checks fail exactly when the next value does not, and once it has failed the whole number
  does not fit either, since the values of prefixes grow.
* `VString`, for texts of any length: `BufferSound` and `OperationsOnText`. Assumption: `VStringAssumption`. The invariant is
  `vp \in Strings`: inside the buffer, count exact, buffer not empty. Two relations say what an operation makes: `Holds(v, t)`, a sound
  string whose text is t, and `Terminated(v, t)`, one with a zero byte behind it; there is one lemma per operation. The loops over bytes
  and pieces are functions defined by recursion; `RecursionLemma` says that they exist. Bytes left from longer texts do not matter
  because the zero byte that `sprintf()` leaves is the first one behind the write position. Formats are those of `VString`, one
  literal text and one number.
* `Iostuff`: `BufferWritten`, `ReturnsInTime` and `ConnectSound`, for buffers of any length, every time-out and any number of errors and signals.
  Assumption: `IostuffAssumption`. The invariant `IoInv` adds to the types which call may be at which place (`PlacesInv`); that the time slept
  and the time poll() may still sleep together stay below the time-out for every round that a signal began (`SleepInv`); that the bytes
  behind the pointer are all among those sent, in spite of the byte that every error sends again (`SentInv`); and
  in which state the socket of a connection is at each place (`ConnectInv`).

Induction over numbers goes by sets there: of the numbers for which a claim fails one is the least (`LeastNumber`, `SetInduction`), so
that the claim is a set and not an operator, with which the library's induction theorems cannot be instantiated.

### Checked by TLC only

The liveness properties (`ConnectionsAccepted`, `ThrottleReleased`, `DeletingEnds`, `AllJobsRun`, `WaitReturns`, `DestroyReturns`, `ReadServed` and
`TimersGoOff`): fairness and `ENABLED` are beyond the prover. Every safety property that a passing run checks is proved.

## Not modelled

* Signals: `master_sigsetup()` is never called and nothing reads the flags that the handlers set.
* How `master.cf` is cut into lines and tokens, lines that are longer than the buffer, formatting and logging.
* `vstream.c`, `thread_hold()`, `mystrndup()`, `mymemdup()`, `argv_split()`: not used by a program of the repository.
  `readable()` and `writable()` are the modelled `poll()` loop without a time-out, `inet_accept()` is one system call.
* Time-outs below zero in `write_wait()` and `read_wait()`: no caller has them.
* Partial status messages: both ends transfer eight bytes at once, which a pipe keeps whole.
* `MASTER_FLAG_CONDWAKE` is set by an expression that reads before its buffer (`master_ent.c:251`): either value in `MasterEnt`. It is without
  effect because the wakeup timers are commented out.
* A second entry for a service within one file in `MasterReload`; `MasterEnt` has it.
* Several thread pools at a time, although they would share `threads_keepalive`.
* Event loop: a call of `event_wait()` from a callback (the counter that should refuse it lets one level pass,
  `events.c:386`, but no program does it), events that report an error and nothing else, closing a descriptor that the
  loop still knows, `event_free()`. One callback and context per slot and event is assumed, as all callers have it.
* `binhash_free()`, `binhash_walk()` and keys that are entered twice; `vstring_export()` and `vstring_import()`, of which the
  latter leaves the function pointers of the buffer unset: not used by a program of the repository.

## Plan

Done: `MasterProto`, `SingleServer`, `MasterServ`, `Master`, `MasterProofs`, `MasterReload`, `MasterReloadProofs`, `ThreadPool`, `JobPool`,
`ThreadPoolProofs`, `Alarms`, `EventTimers`, `EventTimersProofs`, `EventLoop`, `EventLoopProofs`, `Dictionary`, `BinHash`, `Ring`, `VString`,
`Stringop`, `PointerProofs`, `DataLemmas`, `Iostuff`, `BufferProofs`, `MyMalloc`, `MasterEnt`.

Next, in this order:

1. An abstract service pool that `Master` implements while nothing fails.
2. Two pools that share `threads_keepalive`.
