------------------------------ MODULE MasterEnt ------------------------------
(***************************************************************************)
(* Reading master.cf: the parser of src/master/master_ent.c and the list   *)
(* of services that master_config() and master_refresh() of                *)
(* src/master/master_conf.c keep, with the memory they own.                *)
(*                                                                         *)
(* A line is the sequence of the tokens that mystrtok() finds in it.  What *)
(* starting, restarting and stopping a service do besides is the subject   *)
(* of Master and MasterReload.                                             *)
(***************************************************************************)
EXTENDS MyMalloc

CONSTANTS Lines,     \* the lines that the file may have
          MaxLines,  \* bound on their number
          MaxConfigs,\* bound on the times the file is read
          host_port, \* for every name, the pair of its host and its port
          atoi,      \* the numbers that tokens stand for, if any
          basename   \* for every command, the last part of its path

ASSUME EntAssumption ==
    /\ Lines \subseteq Seq(STRING) /\ atoi \in [DOMAIN atoi -> Int]
    /\ MaxLines \in Nat /\ MaxConfigs \in Nat

VARIABLES place,    \* "idle", "config", "delete", or "fatal" when the process has ended
          lines,    \* what is left of the file
          services, \* the list master_head
          memory,   \* the heap
          entries,  \* entries made so far
          configs   \* how often the file was read

entVars == <<place, lines, services, memory, entries, configs>>

\* The first service in the file comes last in the list.
MasterEntInit ==
    /\ place = "idle" /\ lines = <<>> /\ services = <<>>
    /\ memory = EmptyHeap /\ entries = 0 /\ configs = 0

var_proc_limit == 1
-----------------------------------------------------------------------------
FATAL == "fatal"

\* get_str_ent(): a missing field, or "-" without a default, is fatal.
get_str_ent(line, i, def_val) ==
    IF i > Len(line) THEN FATAL ELSE IF line[i] = "-" THEN def_val ELSE line[i]

\* get_int_ent(): -1 stands for the fatal cases; atoi() makes 0 of garbage.
get_int_ent(line, i, def_val) ==
    LET value == get_str_ent(line, i, "-")
    IN  IF value = FATAL THEN -1
        ELSE IF value = "-" THEN def_val
        ELSE IF value \in DOMAIN atoi THEN atoi[value] ELSE 0

IsBlank(line) == line = <<>> \/ Head(line) = "#"

IsFatal(line) ==
    \/ get_str_ent(line, 2, FATAL) # "inet"
    \/ get_int_ent(line, 3, 0) < 0
    \/ get_int_ent(line, 4, var_proc_limit) < 0
    \/ get_str_ent(line, 5, FATAL) = FATAL

\* The strings of the argument vector.
Arguments(line) ==
    <<line[5]>>
    \o (IF get_int_ent(line, 4, var_proc_limit) = 1 THEN <<"-l">> ELSE <<>>)
    \o (IF basename[line[5]] # line[1] THEN <<"-n", line[1]>> ELSE <<>>)
    \o <<"-t", line[2]>> \o SubSeq(line, 6, Len(line))

\* The n-th entry.  Whether the wakeup is conditional depends on a byte in
\* front of the buffer, which may be anything.
get_master_ent(n, line, condwake) ==
    [name |-> line[1], wakeup_time |-> get_int_ent(line, 3, 0), condwake |-> condwake, mark |-> FALSE,
     max_proc |-> get_int_ent(line, 4, var_proc_limit),
     struct |-> <<n, "MASTER_SERV", 0>>, copy |-> <<n, "name", 0>>, path |-> <<n, "path", 0>>,
     host |-> IF host_port[line[1]][1] = "" THEN NULL_PTR ELSE <<n, "host", 0>>,
     port |-> mystrdup(<<n, "port", 0>>, host_port[line[1]][2]),
     args |-> argv_build(n, Len(Arguments(line)))]

\* What free_master_ent() frees, in its order.
Blocks(serv) ==
    (IF serv.host = NULL_PTR THEN <<>> ELSE <<serv.host>>)
    \o <<serv.port, serv.copy, serv.path>> \o argv_blocks(serv.args) \o <<serv.struct>>

Owned(serv) == ToSet(Blocks(serv)) \ {EMPTY_STRING}

\* host_port()'s copy of the name, to which only a local variable points.
Address(n) == <<n, "address", 0>>

\* The heap with the blocks of a new entry.
Allocate(heap, n, serv) ==
    mymalloc(heap, Owned(serv) \cup {Address(n)})

free_master_ent(heap, serv) == myfree_all(heap, Blocks(serv))
-----------------------------------------------------------------------------
\* master_config() is called, by main() or by master_refresh(): it opens the
\* file, of which any contents may be found.
set_master_ent ==
    /\ place = "idle"
    /\ configs < MaxConfigs
    /\ configs' = configs + 1
    /\ place' = "config"
    /\ lines' \in SeqOf(Lines, MaxLines)
    /\ services' = [i \in DOMAIN services |-> [services[i] EXCEPT !.mark = TRUE]]
    /\ UNCHANGED <<memory, entries>>

SkipLine ==
    /\ place = "config" /\ lines # <<>>
    /\ IsBlank(Head(lines))
    /\ lines' = Tail(lines)
    /\ UNCHANGED <<place, services, memory, entries, configs>>

\* fatal_with_context(), or a listener that cannot be made.
Fatal ==
    /\ place = "config" /\ lines # <<>>
    /\ ~IsBlank(Head(lines))
    /\ IsFatal(Head(lines)) \/ \A i \in DOMAIN services : services[i].name # Head(lines)[1]
    /\ place' = "fatal"
    /\ UNCHANGED <<lines, services, memory, entries, configs>>

\* Faulty variant: the pointers are copied, not swapped.
Updated_copied(serv, entry) ==
    <<[entry EXCEPT !.struct = serv.struct, !.copy = serv.copy, !.host = serv.host, !.port = serv.port],
      entry>>

\* The service and the entry after the update of the service by the entry:
\* path and arguments change places.
Updated(serv, entry) ==
    <<[entry EXCEPT !.struct = serv.struct, !.copy = serv.copy, !.host = serv.host, !.port = serv.port],
      [entry EXCEPT !.path = serv.path, !.args = serv.args]>>

\* A panic in free_master_ent() ends the process.
Unless(heap, there) == IF heap.bad = NULL_PTR THEN there ELSE "fatal"

\* One entry of the file: a new service, or an update of the first one that
\* has its name.
master_config ==
    /\ place = "config" /\ lines # <<>>
    /\ ~IsBlank(Head(lines)) /\ ~IsFatal(Head(lines))
    /\ lines' = Tail(lines)
    /\ entries' = entries + 1
    /\ \E condwake \in BOOLEAN :
          LET line == Head(lines)
              entry == get_master_ent(entries', line, condwake)
              heap == Allocate(memory, entries', entry)
              old == {i \in DOMAIN services : services[i].name = line[1]}
              i == CHOOSE j \in old : \A k \in old : j <= k
              both == Updated(services[i], entry)
          IN  /\ condwake => entry.wakeup_time > 0
              /\ IF old = {}
                 THEN services' = <<entry>> \o services /\ memory' = heap /\ UNCHANGED place
                 ELSE /\ services' = [services EXCEPT ![i] = both[1]]
                      /\ memory' = free_master_ent(heap, both[2])
                      /\ place' = Unless(memory', "config")
    /\ UNCHANGED configs

end_master_ent ==
    /\ place = "config" /\ lines = <<>>
    /\ place' = "delete"
    /\ UNCHANGED <<lines, services, memory, entries, configs>>

\* The services that are still marked leave the list and are freed.
master_refresh ==
    /\ place = "delete"
    /\ LET marked == {i \in DOMAIN services : services[i].mark}
           i == CHOOSE j \in marked : \A k \in marked : j <= k
       IN  IF marked = {} THEN place' = "idle" /\ UNCHANGED <<services, memory>>
           ELSE /\ services' = RemoveAt(services, i)
                /\ memory' = free_master_ent(memory, services[i])
                /\ place' = Unless(memory', "delete")
    /\ UNCHANGED <<lines, entries, configs>>

\* The manager has ended and is started again.
StartedAgain ==
    /\ place \in {"idle", "fatal"}
    /\ place' = "idle" /\ lines' = <<>> /\ services' = <<>>
    /\ memory' = EmptyHeap /\ entries' = 0 /\ configs' = 0

MasterEntNext ==
    \/ set_master_ent
    \/ SkipLine
    \/ Fatal
    \/ master_config
    \/ end_master_ent
    \/ master_refresh
    \/ StartedAgain

MasterEntSpec == MasterEntInit /\ [][MasterEntNext]_entVars

(* Through any sequence of reloads, duplicate entries and updates, the      *)
(* memory in use is that of the services in the list, and one copy of each  *)
(* name ever read, which host_port() makes and nobody frees: nothing else   *)
(* is lost, nothing is freed twice or shared by two services.  The          *)
(* allocator refuses no pointer but the shared empty string, the port of a  *)
(* name that ends with a colon.  Names stay unique, and every vector has    *)
(* room for its terminator.                                                 *)
ServicesOwnMemory ==
    /\ memory.bad \in {NULL_PTR, EMPTY_STRING}
    /\ place # "fatal" =>
          /\ memory.live = (UNION {Owned(services[i]) : i \in DOMAIN services})
                               \cup {Address(n) : n \in 1..entries}
          /\ \A i, j \in DOMAIN services :
                \A k \in DOMAIN Blocks(services[i]), l \in DOMAIN Blocks(services[j]) :
                   Blocks(services[i])[k] = Blocks(services[j])[l] /\ <<i, k>> # <<j, l>>
                       => Blocks(services[i])[k] = EMPTY_STRING
    /\ \A i, j \in DOMAIN services : services[i].name = services[j].name => i = j
    /\ \A i \in DOMAIN services : Len(services[i].args.strings) < services[i].args.len
=============================================================================
