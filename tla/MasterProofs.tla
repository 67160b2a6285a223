---------------------------- MODULE MasterProofs ----------------------------
(***************************************************************************)
(* Proofs about the process manager, for every set of services and         *)
(* processes and every process limit.  The invariants of module Master are *)
(* parts of one inductive invariant, IInv.  Its step is proved action by   *)
(* action; what the handlers do to one MASTER_SERV record is proved first, *)
(* in lemmas about the operators of MasterServ.                            *)
(***************************************************************************)
EXTENDS Master, FiniteSetTheorems, SequenceTheorems, TLAPS

\* What every handler preserves of a single MASTER_SERV.
ServInv(r) ==
    /\ ~r.throttle => (r.listen <=> listen_flag(r))
    /\ r.registered => r.listen
    /\ r.listen => MASTER_LIMIT_OK(r.max_proc, r.total_proc)
    /\ r.max_proc = 0 \/ r.total_proc <= r.max_proc

\* The fields that count.
SameCounts(q, r) ==
    /\ q.max_proc = r.max_proc
    /\ q.total_proc = r.total_proc
    /\ q.avail_proc = r.avail_proc

(* master_avail_listen() makes the flag follow the rule and never leaves a  *)
(* request without the flag.                                                *)
LEMMA ListenLemma ==
    ASSUME NEW r \in MASTER_SERV,
           r.registered => r.listen,
           r.max_proc = 0 \/ r.total_proc <= r.max_proc
    PROVE  /\ master_avail_listen(r) \in MASTER_SERV
           /\ SameCounts(master_avail_listen(r), r)
           /\ ServInv(master_avail_listen(r))
BY DEF master_avail_listen, listen_flag, MASTER_LIMIT_OK, MASTER_SERV, ServInv, SameCounts

(* A fresh service is well typed, counts nothing and satisfies ServInv.     *)
LEMMA StartLemma ==
    ASSUME NEW limit \in Nat
    PROVE  LET q == master_start_service(get_master_ent(limit))
           IN  /\ q \in MASTER_SERV
               /\ q.max_proc = limit /\ q.total_proc = 0 /\ q.avail_proc = 0
               /\ ServInv(q)
<1> DEFINE r == get_master_ent(limit)
<1>1. /\ r \in MASTER_SERV
      /\ r.max_proc = limit /\ r.total_proc = 0 /\ r.avail_proc = 0
      /\ ~r.registered
      /\ r.max_proc = 0 \/ r.total_proc <= r.max_proc
  BY DEF get_master_ent, MASTER_SERV
<1>2. QED
  BY <1>1, ListenLemma DEF master_start_service, SameCounts

(* A process that reports itself available or taken moves one counter.      *)
LEMMA MoreLessLemma ==
    ASSUME NEW r \in MASTER_SERV, ServInv(r)
    PROVE  /\ master_avail_more(r) \in MASTER_SERV
           /\ master_avail_less(r) \in MASTER_SERV
           /\ SameCounts(master_avail_more(r), [r EXCEPT !.avail_proc = @ + 1])
           /\ SameCounts(master_avail_less(r), [r EXCEPT !.avail_proc = @ - 1])
           /\ ServInv(master_avail_more(r))
           /\ ServInv(master_avail_less(r))
<1>1. ASSUME NEW q \in MASTER_SERV, SameCounts([q EXCEPT !.avail_proc = r.avail_proc], r),
             q.registered = r.registered, q.listen = r.listen
      PROVE  /\ master_avail_listen(q) \in MASTER_SERV
             /\ SameCounts(master_avail_listen(q), q)
             /\ ServInv(master_avail_listen(q))
  BY <1>1, ListenLemma DEF ServInv, SameCounts, MASTER_SERV
<1>2. QED
  BY <1>1 DEF master_avail_more, master_avail_less, MASTER_SERV, SameCounts

(* A successful fork counts one process more, which is available.           *)
LEMMA ForkLemma ==
    ASSUME NEW r \in MASTER_SERV, ServInv(r), MASTER_LIMIT_OK(r.max_proc, r.total_proc)
    PROVE  LET q == master_avail_more([r EXCEPT !.total_proc = @ + 1])
           IN  /\ q \in MASTER_SERV
               /\ q.max_proc = r.max_proc
               /\ q.total_proc = r.total_proc + 1
               /\ q.avail_proc = r.avail_proc + 1
               /\ ServInv(q)
<1> DEFINE b == [r EXCEPT !.total_proc = @ + 1]
           c == [b EXCEPT !.avail_proc = @ + 1]
<1>1. /\ b \in MASTER_SERV
      /\ b.max_proc = r.max_proc /\ b.total_proc = r.total_proc + 1
      /\ b.avail_proc = r.avail_proc
      /\ b.registered = r.registered /\ b.listen = r.listen
  BY DEF MASTER_SERV
<1>2. /\ c \in MASTER_SERV
      /\ c.max_proc = b.max_proc /\ c.total_proc = b.total_proc
      /\ c.avail_proc = b.avail_proc + 1
      /\ c.registered = b.registered /\ c.listen = b.listen
  <2> HIDE DEF b
  <2> QED
    BY <1>1 DEF MASTER_SERV
<1>3. /\ c.registered => c.listen
      /\ c.max_proc = 0 \/ c.total_proc <= c.max_proc
  <2> HIDE DEF b, c
  <2> QED
    BY <1>1, <1>2 DEF MASTER_SERV, ServInv, MASTER_LIMIT_OK
<1>4. master_avail_more(b) = master_avail_listen(c)
  BY DEF master_avail_more
<1>5. QED
  <2> HIDE DEF c
  <2>1. /\ master_avail_listen(c) \in MASTER_SERV
        /\ SameCounts(master_avail_listen(c), c)
        /\ ServInv(master_avail_listen(c))
    BY <1>2, <1>3, ListenLemma
  <2>2. QED
    BY <1>1, <1>2, <1>4, <2>1 DEF SameCounts

(* Throttling, the end of throttling and the withdrawal of the listen       *)
(* request leave the counters alone.                                        *)
LEMMA ThrottleLemma ==
    ASSUME NEW r \in MASTER_SERV, ServInv(r)
    PROVE  /\ master_throttle(r) \in MASTER_SERV
           /\ SameCounts(master_throttle(r), r)
           /\ ServInv(master_throttle(r))
BY DEF master_throttle, MASTER_SERV, ServInv, SameCounts, listen_flag, MASTER_LIMIT_OK

LEMMA UnthrottleLemma ==
    ASSUME NEW r \in MASTER_SERV, ServInv(r)
    PROVE  LET q == master_unthrottle([r EXCEPT !.timer = FALSE])
           IN  q \in MASTER_SERV /\ SameCounts(q, r) /\ ServInv(q)
<1> DEFINE c == [r EXCEPT !.timer = FALSE]
           d == [c EXCEPT !.throttle = FALSE, !.timer = FALSE]
<1>1. /\ c \in MASTER_SERV /\ SameCounts(c, r) /\ ServInv(c)
      /\ d \in MASTER_SERV /\ SameCounts(d, r)
      /\ d.registered => d.listen
      /\ d.max_proc = 0 \/ d.total_proc <= d.max_proc
  BY DEF MASTER_SERV, ServInv, SameCounts, listen_flag, MASTER_LIMIT_OK
<1>2. /\ master_avail_listen(d) \in MASTER_SERV
      /\ SameCounts(master_avail_listen(d), d)
      /\ ServInv(master_avail_listen(d))
  BY <1>1, ListenLemma
<1>3. QED
  BY <1>1, <1>2 DEF master_unthrottle, SameCounts

LEMMA DisableLemma ==
    ASSUME NEW r \in MASTER_SERV, ServInv(r)
    PROVE  /\ event_disable_listen(r) \in MASTER_SERV
           /\ SameCounts(event_disable_listen(r), r)
           /\ ServInv(event_disable_listen(r))
BY DEF event_disable_listen, MASTER_SERV, ServInv, SameCounts, listen_flag, MASTER_LIMIT_OK
-----------------------------------------------------------------------------
\* The messages of a channel come from processes of its service.
OwnMessages == \A s \in Services : \A i \in 1..Len(pipe[s]) : serv[pipe[s][i].pid] = s

\* What a step of a process or of a client leaves true and leaves alone.
ChildFrame ==
    /\ ChildTypeOK'
    /\ OwnMessages'
    /\ serv' = serv
    /\ statusOpen' = statusOpen
    /\ \A q \in Pids : child'[q] = "none" <=> child[q] = "none"

(* Moving an existing process to another phase is harmless.                 *)
LEMMA GotoLemma ==
    ASSUME ChildTypeOK, NEW p \in Pids, NEW phase \in Phases \ {"none"},
           child[p] # "none", Goto(p, phase)
    PROVE  /\ child' \in [Pids -> Phases]
           /\ \A q \in Pids : child'[q] = "none" <=> child[q] = "none"
BY DEF ChildTypeOK, Goto

(* A notification appends a message of the service's own process.           *)
LEMMA NotifyLemma ==
    ASSUME ChildTypeOK, OwnMessages, NEW p \in Pids, child[p] # "none",
           NEW status \in Availability, Notify(p, status)
    PROVE  pipe' \in [Services -> Seq(MASTER_STATUS(Pids))] /\ OwnMessages'
<1> DEFINE s == serv[p]
           m == [pid |-> p, avail |-> status]
<1>1. s \in Services /\ pipe[s] \in Seq(MASTER_STATUS(Pids)) /\ m \in MASTER_STATUS(Pids)
  BY DEF ChildTypeOK, MASTER_STATUS
<1>2. serv' = serv
  BY DEF Notify
<1>3. CASE statusOpen
  <2>1. pipe' = [pipe EXCEPT ![s] = Append(pipe[s], m)]
    BY <1>3 DEF Notify, master_notify
  <2>2. Append(pipe[s], m) \in Seq(MASTER_STATUS(Pids))
    BY <1>1
  <2>3. pipe' \in [Services -> Seq(MASTER_STATUS(Pids))]
    BY <1>1, <2>1, <2>2 DEF ChildTypeOK
  <2>4. ASSUME NEW t \in Services, NEW i \in 1..Len(pipe'[t])
        PROVE  serv[pipe'[t][i].pid] = t
    <3>1. CASE t # s
      BY <2>1, <2>4, <3>1 DEF ChildTypeOK, OwnMessages
    <3>2. CASE t = s
      <4>1. pipe'[s] = Append(pipe[s], m)
        BY <1>1, <2>1 DEF ChildTypeOK
      <4>2. Len(pipe'[s]) = Len(pipe[s]) + 1
        BY <1>1, <4>1
      <4>3. CASE i = Len(pipe[s]) + 1
        BY <1>1, <3>2, <4>1, <4>3
      <4>4. CASE i \in 1..Len(pipe[s])
        BY <1>1, <3>2, <4>1, <4>4 DEF OwnMessages
      <4>5. QED
        BY <1>1, <2>4, <3>2, <4>2, <4>3, <4>4
    <3>3. QED
      BY <3>1, <3>2
  <2>5. QED
    BY <1>2, <2>3, <2>4 DEF OwnMessages
<1>4. CASE ~statusOpen
  <2>1. pipe' = pipe
    BY <1>1, <1>4 DEF Notify, master_notify, ChildTypeOK
  <2>2. QED
    BY <1>2, <2>1 DEF ChildTypeOK, OwnMessages
<1>5. QED
  BY <1>3, <1>4

LEMMA ChildLemma ==
    ASSUME ChildTypeOK, OwnMessages, NEW p \in Pids, ChildStep(p)
    PROVE  ChildFrame
<1> USE DEF Phases
<1>1. CASE single_server_main(p)
  BY <1>1, GotoLemma DEF single_server_main, ChildFrame, ChildTypeOK, OwnMessages
<1>2. CASE child_event_wait(p)
  BY <1>2, GotoLemma DEF child_event_wait, ChildFrame, ChildTypeOK, OwnMessages
<1>3. CASE single_server_accept_inet(p)
  <2>1. serv[p] \in Services
    BY <1>3 DEF single_server_accept_inet, ChildTypeOK
  <2>2. pending' \in [Services -> Nat]
    <3>1. pending \in [Services -> Nat] /\ pending[serv[p]] \in Nat
      BY <2>1 DEF ChildTypeOK
    <3>2. CASE pending[serv[p]] > 0 /\ pending' = [pending EXCEPT ![serv[p]] = @ - 1]
      <4>1. pending[serv[p]] - 1 \in Nat
        BY <3>1, <3>2
      <4>2. QED
        BY <2>1, <3>1, <3>2, <4>1
    <3>3. CASE UNCHANGED pending
      BY <3>1, <3>3
    <3>4. QED
      BY <1>3, <3>2, <3>3 DEF single_server_accept_inet
  <2>3. QED
    BY <1>3, <2>2, GotoLemma DEF single_server_accept_inet, ChildFrame, ChildTypeOK, OwnMessages
<1>4. CASE NotifyTaken(p)
  BY <1>4, GotoLemma, NotifyLemma
     DEF NotifyTaken, Notify, Availability, ChildFrame, ChildTypeOK
<1>5. CASE NotifyAvail(p)
  BY <1>5, GotoLemma, NotifyLemma
     DEF NotifyAvail, Notify, Availability, ChildFrame, ChildTypeOK
<1>6. CASE ServiceReturns(p)
  BY <1>6, GotoLemma DEF ServiceReturns, ChildFrame, ChildTypeOK, OwnMessages
<1>7. CASE ChildDies(p)
  BY <1>7, GotoLemma DEF ChildDies, Alive, ChildFrame, ChildTypeOK, OwnMessages
<1>8. QED
  BY <1>1, <1>2, <1>3, <1>4, <1>5, <1>6, <1>7 DEF ChildStep, ServerStep

LEMMA ConnectLemma ==
    ASSUME ChildTypeOK, OwnMessages, NEW s \in Services, Connect(s)
    PROVE  ChildFrame
BY DEF Connect, ChildFrame, ChildTypeOK, OwnMessages
-----------------------------------------------------------------------------
\* A listen event of the snapshot finds room for a process: nothing but its
\* own dispatch adds one.
ReadyLimit ==
    \A s \in Services :
        <<"listen", s>> \in ready => MASTER_LIMIT_OK(svc[s].max_proc, svc[s].total_proc)

TableInv ==
    /\ IsFiniteSet(table)
    /\ \A p \in Pids : p \in table <=> child[p] # "none"

ServicesInv ==
    \A s \in Services : ServInv(svc[s]) /\ svc[s].max_proc = MaxProc[s]

\* Nothing opens or closes a descriptor.
NumbersInv == fd = FirstNumbers

IInv ==
    /\ TypeOK
    /\ NumbersInv
    /\ TableInv
    /\ OwnMessages
    /\ ServicesInv
    /\ ReadyLimit
    /\ CountsAgree
    /\ SanityChecks

(* With the numbers of main() every event of a snapshot has a request at    *)
(* least as high, that of the status channel of its service.                *)
LEMMA NumbersLemma ==
    ASSUME NumbersInv, NEW e \in Events
    PROVE  ~BadDescriptor(e)
<1>1. PICK kind \in {"listen", "status"}, s \in Services : e = <<kind, s>>
  BY DEF Events
<1> DEFINE f == <<"status", s>>
<1>2. e \in Ends /\ f \in Ends /\ f \in Events /\ Position[s] \in Nat
  BY <1>1, PositionAssumption DEF Ends, Events
<1>3. fd[f] = 3 * Position[s] + 2
  BY <1>2 DEF NumbersInv, FirstNumbers, Offset
<1>4. fd[e] = 3 * Position[s] + 1 \/ fd[e] = 3 * Position[s] + 2
  BY <1>1, <1>2 DEF NumbersInv, FirstNumbers, Offset
<1>5. Requested(f)
  BY <1>2, <1>3 DEF Requested
<1>6. ~(fd[f] < fd[e])
  BY <1>2, <1>3, <1>4
<1>7. QED
  BY <1>2, <1>5, <1>6 DEF BadDescriptor

(* So the event loop calls the callback of every event it takes and never   *)
(* panics with "bad file descriptor".                                       *)
LEMMA MasterSteps ==
    ASSUME IInv, MasterStep
    PROVE  \/ event_wait
           \/ \E s \in Services : \/ master_unthrottle_wrapper(s)
                                  \/ master_avail_event(s)
                                  \/ master_status_event(s)
<1>1. ASSUME NEW e \in Events, HandleEvent(e)
      PROVE  \E s \in Services : master_avail_event(s) \/ master_status_event(s)
  <2>1. ~BadDescriptor(e)
    BY NumbersLemma DEF IInv
  <2>2. e[2] \in Services
    BY DEF Events
  <2>3. master_avail_event(e[2]) \/ master_status_event(e[2])
    BY <1>1, <2>1 DEF HandleEvent
  <2>4. QED
    BY <2>2, <2>3
<1>2. QED
  BY <1>1 DEF MasterStep

(* The numbers have their type.                                             *)
LEMMA FirstNumbersType == FirstNumbers \in [Ends -> Int]
<1>1. ASSUME NEW e \in Ends PROVE 3 * Position[e[2]] + Offset[e[1]] \in Int
  <2>1. Position[e[2]] \in Nat /\ e[1] \in {"listen", "status", "report"}
    BY PositionAssumption DEF Ends
  <2>2. QED
    BY <2>1 DEF Offset
<1>2. QED
  BY <1>1 DEF FirstNumbers

LEMMA InitIInv == Init => IInv
<1> SUFFICES ASSUME Init PROVE IInv
  OBVIOUS
<1> USE MasterAssumption, ChildAssumption
<1>1. ChildTypeOK /\ OwnMessages
  BY DEF Init, ChildInit, ChildTypeOK, OwnMessages, Phases
<1>2. \A s \in Services :
         /\ svc[s] \in MASTER_SERV /\ ServInv(svc[s]) /\ svc[s].max_proc = MaxProc[s]
         /\ svc[s].total_proc = 0 /\ svc[s].avail_proc = 0
  <2>1. TAKE s \in Services
  <2>2. MaxProc[s] \in Nat
    OBVIOUS
  <2>3. svc[s] = master_start_service(get_master_ent(MaxProc[s]))
    BY DEF Init
  <2>4. QED
    BY <2>2, <2>3, StartLemma
<1>3. svc \in [Services -> MASTER_SERV]
  BY <1>2 DEF Init
<1>4. TypeOK /\ NumbersInv
  BY <1>1, <1>3, FirstNumbersType DEF TypeOK, NumbersInv, Init, ChildInit, Faults, Availability
<1>5. TableInv
  BY FS_EmptySet DEF TableInv, Init, ChildInit
<1>6. CountsAgree
  <2>1. \A s \in Services : Children(s) = {} /\ Idle(s) = {}
    BY DEF Children, Idle, Init
  <2>2. QED
    BY <1>2, <2>1, FS_EmptySet DEF CountsAgree
<1>7. QED
  BY <1>1, <1>2, <1>4, <1>5, <1>6
     DEF IInv, ServicesInv, ReadyLimit, SanityChecks, Init

(* A step that changes neither the table nor a counter keeps the counts.    *)
LEMMA SameCountsLemma ==
    ASSUME CountsAgree, table' = table, serv' = serv, avail' = avail,
           \A s \in Services : SameCounts(svc'[s], svc[s])
    PROVE  CountsAgree'
BY DEF CountsAgree, Children, Idle, SameCounts

(* A process that joins the table idle is one more of both kinds.           *)
LEMMA ForkCounts ==
    ASSUME TypeOK, TableInv, CountsAgree, NEW s \in Services, NEW p \in Pids \ table, NEW r,
           svc' = [svc EXCEPT ![s] = r],
           r.total_proc = svc[s].total_proc + 1,
           r.avail_proc = svc[s].avail_proc + 1,
           table' = table \cup {p},
           serv' = [serv EXCEPT ![p] = s],
           avail' = [avail EXCEPT ![p] = MASTER_STAT_AVAIL]
    PROVE  CountsAgree'
<1>1. /\ serv \in [Pids -> Services \cup {NoService}]
      /\ avail \in [Pids -> Availability]
      /\ table \in SUBSET Pids /\ IsFiniteSet(table)
      /\ svc \in [Services -> MASTER_SERV]
  BY DEF TypeOK, ChildTypeOK, TableInv
<1>2. /\ Children(s)' = Children(s) \cup {p}
      /\ Idle(s)' = Idle(s) \cup {p}
  BY <1>1 DEF Children, Idle
<1>3. \A t \in Services : t # s => Children(t)' = Children(t) /\ Idle(t)' = Idle(t)
  BY <1>1 DEF Children, Idle
<1>4. IsFiniteSet(Children(s)) /\ IsFiniteSet(Idle(s)) /\ p \notin Children(s) /\ p \notin Idle(s)
  BY <1>1, FS_Subset DEF Children, Idle
<1>5. /\ Cardinality(Children(s)') = Cardinality(Children(s)) + 1
      /\ Cardinality(Idle(s)') = Cardinality(Idle(s)) + 1
  <2>1. Cardinality(Children(s) \cup {p}) = Cardinality(Children(s)) + 1
    BY <1>4, FS_AddElement
  <2>2. Cardinality(Idle(s) \cup {p}) = Cardinality(Idle(s)) + 1
    BY <1>4, FS_AddElement
  <2>3. QED
    BY <1>2, <2>1, <2>2
<1>6. svc'[s] = r /\ \A t \in Services : t # s => svc'[t] = svc[t]
  BY <1>1
<1>7. QED
  BY <1>3, <1>5, <1>6 DEF CountsAgree

(* A process that changes between idle and taken is one more or one less of *)
(* the idle ones.                                                           *)
LEMMA StatusCounts ==
    ASSUME TypeOK, TableInv, CountsAgree, NEW s \in Services, NEW p \in table, NEW r,
           NEW status \in Availability, serv[p] = s, avail[p] # status,
           svc' = [svc EXCEPT ![s] = r],
           r.total_proc = svc[s].total_proc,
           r.avail_proc = IF status = MASTER_STAT_AVAIL
                          THEN svc[s].avail_proc + 1 ELSE svc[s].avail_proc - 1,
           table' = table, serv' = serv, avail' = [avail EXCEPT ![p] = status]
    PROVE  CountsAgree'
<1>1. /\ table \in SUBSET Pids /\ IsFiniteSet(table) /\ IsFiniteSet(Idle(s)) /\ p \in Pids
      /\ avail \in [Pids -> Availability]
      /\ svc \in [Services -> MASTER_SERV]
  BY FS_Subset DEF TypeOK, TableInv, Idle, Children
<1>2. svc'[s] = r /\ \A t \in Services : t # s => svc'[t] = svc[t]
  BY <1>1
<1>3. avail'[p] = status /\ \A q \in Pids : q # p => avail'[q] = avail[q]
  BY <1>1
<1>4. \A t \in Services : Children(t)' = Children(t)
  BY DEF Children
<1>5. \A t \in Services : t # s => Idle(t)' = Idle(t)
  BY <1>1, <1>3 DEF Idle, Children
<1>6. CASE status = MASTER_STAT_AVAIL
  <2>1. p \notin Idle(s) /\ Idle(s)' = Idle(s) \cup {p}
    BY <1>1, <1>3, <1>6 DEF Idle, Children
  <2>2. Cardinality(Idle(s) \cup {p}) = Cardinality(Idle(s)) + 1
    BY <1>1, <2>1, FS_AddElement
  <2>3. QED
    BY <1>2, <1>4, <1>5, <1>6, <2>1, <2>2 DEF CountsAgree
<1>7. CASE status # MASTER_STAT_AVAIL
  <2>1. avail[p] = MASTER_STAT_AVAIL
    BY <1>1, <1>7 DEF Availability
  <2>2. p \in Idle(s) /\ Idle(s)' = Idle(s) \ {p}
    BY <1>1, <1>3, <1>7, <2>1 DEF Idle, Children
  <2>3. Cardinality(Idle(s) \ {p}) = Cardinality(Idle(s)) - 1
    BY <1>1, <2>2, FS_RemoveElement
  <2>4. QED
    BY <1>2, <1>4, <1>5, <1>7, <2>2, <2>3 DEF CountsAgree
<1>8. QED
  BY <1>6, <1>7

(* Steps of the processes and of the clients.                               *)
LEMMA ChildIInv ==
    ASSUME IInv, ChildFrame, UNCHANGED masterVars
    PROVE  IInv'
<1>1. TypeOK' /\ NumbersInv'
  BY DEF IInv, TypeOK, NumbersInv, ChildFrame, masterVars
<1>2. TableInv' /\ OwnMessages' /\ ServicesInv' /\ ReadyLimit' /\ SanityChecks'
  BY DEF IInv, TableInv, ServicesInv, ReadyLimit, SanityChecks, ChildFrame, masterVars
<1>3. CountsAgree'
  BY SameCountsLemma DEF IInv, ChildFrame, masterVars, SameCounts
<1>4. QED
  BY <1>1, <1>2, <1>3 DEF IInv

(* Steps of the manager that leave the processes alone and change one       *)
(* service's record without touching its counters.                          *)
LEMMA ServiceIInv ==
    ASSUME IInv, NEW s \in Services, NEW r \in MASTER_SERV,
           SameCounts(r, svc[s]), ServInv(r),
           svc' = [svc EXCEPT ![s] = r],
           UNCHANGED <<childVars, fd, table, avail, fault>>,
           forkFails' \in Nat, due' \in SUBSET due, ready' \in SUBSET ready
    PROVE  IInv'
<1>1. /\ svc \in [Services -> MASTER_SERV]
      /\ svc'[s] = r
      /\ \A t \in Services : t # s => svc'[t] = svc[t]
  BY DEF IInv, TypeOK
<1>2. \A t \in Services : SameCounts(svc'[t], svc[t])
  BY <1>1 DEF SameCounts
<1>3. svc' \in [Services -> MASTER_SERV]
  BY <1>1
<1>4. TypeOK' /\ NumbersInv'
  BY <1>3 DEF IInv, TypeOK, NumbersInv, ChildTypeOK, childVars
<1>5. TableInv' /\ OwnMessages' /\ SanityChecks'
  BY DEF IInv, TableInv, OwnMessages, SanityChecks, childVars
<1>6. ServicesInv'
  BY <1>1, <1>2 DEF IInv, ServicesInv, SameCounts
<1>7. ReadyLimit'
  BY <1>2 DEF IInv, ReadyLimit, SameCounts
<1>8. CountsAgree'
  BY <1>2, SameCountsLemma DEF IInv, childVars
<1>9. QED
  BY <1>4, <1>5, <1>6, <1>7, <1>8 DEF IInv

(* The manager stops, for a reason that SanityChecks allows.                *)
LEMMA PanicIInv ==
    ASSUME IInv, NEW reason \in {"available", "killed"}, msg_panic(reason),
           due' \in SUBSET due, ready' \in SUBSET ready
    PROVE  IInv'
<1>1. TypeOK' /\ NumbersInv'
  BY DEF IInv, TypeOK, NumbersInv, ChildTypeOK, msg_panic, Faults
<1>2. TableInv' /\ OwnMessages' /\ ServicesInv' /\ ReadyLimit' /\ SanityChecks'
  BY DEF IInv, TableInv, OwnMessages, ServicesInv, ReadyLimit, SanityChecks, msg_panic
<1>3. CountsAgree'
  BY SameCountsLemma DEF IInv, msg_panic, SameCounts
<1>4. QED
  BY <1>1, <1>2, <1>3 DEF IInv

(* A fork: the new process joins the table and both counters.               *)
LEMMA ForkIInv ==
    ASSUME IInv, NEW s \in Services, NEW p \in Pids,
           <<"listen", s>> \in ready, ForkSucceeds(s, p),
           due' = due, ready' = ready \ {<<"listen", s>>}
    PROVE  IInv'
<1> DEFINE r == master_avail_more([svc[s] EXCEPT !.total_proc = @ + 1])
<1>0. /\ svc[s] \in MASTER_SERV /\ ServInv(svc[s])
      /\ MASTER_LIMIT_OK(svc[s].max_proc, svc[s].total_proc)
  BY DEF IInv, TypeOK, ServicesInv, ReadyLimit
<1>1. /\ r \in MASTER_SERV
      /\ r.max_proc = svc[s].max_proc
      /\ r.total_proc = svc[s].total_proc + 1
      /\ r.avail_proc = svc[s].avail_proc + 1
      /\ ServInv(r)
  BY <1>0, ForkLemma
<1>2. /\ svc' = [svc EXCEPT ![s] = r]
      /\ svc \in [Services -> MASTER_SERV]
  <2>1. svc' = [svc EXCEPT ![s] = r]
    BY DEF ForkSucceeds
  <2>2. svc \in [Services -> MASTER_SERV]
    BY DEF IInv, TypeOK
  <2>3. QED
    BY <2>1, <2>2
<1> HIDE DEF r
<1>3. /\ svc' \in [Services -> MASTER_SERV]
      /\ svc'[s] = r
      /\ \A t \in Services : t # s => svc'[t] = svc[t]
  BY <1>1, <1>2
<1>4. /\ child[p] = "none" /\ serv[p] = NoService /\ s # NoService /\ p \notin table
      /\ child' = [child EXCEPT ![p] = "started"]
      /\ serv' = [serv EXCEPT ![p] = s]
      /\ avail' = [avail EXCEPT ![p] = MASTER_STAT_AVAIL]
      /\ table' = table \cup {p}
  BY ChildAssumption DEF ForkSucceeds, IInv, TypeOK, ChildTypeOK, TableInv
<1>5. ChildTypeOK'
  BY <1>4 DEF IInv, TypeOK, ChildTypeOK, Phases, ForkSucceeds
<1>6. TypeOK' /\ NumbersInv'
  BY <1>3, <1>4, <1>5 DEF IInv, TypeOK, NumbersInv, ForkSucceeds, Availability
<1>7. TableInv'
  BY <1>4, FS_AddElement DEF IInv, TypeOK, ChildTypeOK, TableInv
<1>8. OwnMessages'
  <2> SUFFICES ASSUME NEW t \in Services, NEW i \in 1..Len(pipe[t])
               PROVE  serv'[pipe[t][i].pid] = t
    BY DEF OwnMessages, ForkSucceeds
  <2>1. pipe[t] \in Seq(MASTER_STATUS(Pids))
    BY DEF IInv, TypeOK, ChildTypeOK
  <2>2. pipe[t][i].pid \in Pids
    <3>1. pipe[t][i] \in MASTER_STATUS(Pids)
      BY <2>1
    <3>2. QED
      BY <3>1 DEF MASTER_STATUS
  <2>3. serv[pipe[t][i].pid] = t /\ t # NoService
    BY ChildAssumption DEF IInv, OwnMessages
  <2>4. QED
    BY <1>4, <2>2, <2>3 DEF IInv, TypeOK, ChildTypeOK
<1>9. ServicesInv'
  BY <1>1, <1>3 DEF IInv, ServicesInv
<1>10. ReadyLimit'
  BY <1>3 DEF IInv, ReadyLimit
<1>11. CountsAgree'
  BY <1>1, <1>2, <1>4, ForkCounts DEF IInv
<1>12. SanityChecks'
  BY DEF IInv, SanityChecks, ForkSucceeds
<1>13. QED
  BY <1>6, <1>7, <1>8, <1>9, <1>10, <1>11, <1>12 DEF IInv

LEMMA AvailEventIInv ==
    ASSUME IInv, NEW s \in Services, master_avail_event(s)
    PROVE  IInv'
<1>1. /\ svc[s] \in MASTER_SERV /\ ServInv(svc[s])
      /\ MASTER_LIMIT_OK(svc[s].max_proc, svc[s].total_proc)
      /\ <<"listen", s>> \in ready
      /\ due' = due /\ ready' = ready \ {<<"listen", s>>}
      /\ forkFails \in Nat
  BY DEF IInv, TypeOK, ServicesInv, ReadyLimit, master_avail_event, Dispatch, NextEvent
<1>2. CASE svc[s].throttle
  <2>1. svc' = [svc EXCEPT ![s] = event_disable_listen(svc[s])]
        /\ UNCHANGED <<childVars, fd, table, avail, fault, forkFails>>
    BY <1>2 DEF master_avail_event
  <2>2. QED
    BY <1>1, <2>1, DisableLemma, ServiceIInv
<1>3. CASE ~svc[s].throttle
  <2>1. master_spawn(s) /\ SpawnCheck(svc[s]) \in {"none", "available"}
    BY <1>1, <1>3 DEF master_avail_event, SpawnCheck
  <2>2. CASE msg_panic("available")
    BY <1>1, <2>2, PanicIInv
  <2>3. CASE ForkFails(s)
    <3>1. svc' = [svc EXCEPT ![s] = master_throttle(svc[s])]
          /\ UNCHANGED <<childVars, fd, table, avail, fault>>
          /\ forkFails' \in Nat
      BY <1>1, <2>3 DEF ForkFails
    <3>2. QED
      BY <1>1, <3>1, ThrottleLemma, ServiceIInv
  <2>4. CASE \E p \in Pids : ForkSucceeds(s, p)
    BY <1>1, <2>4, ForkIInv
  <2>5. QED
    BY <2>1, <2>2, <2>3, <2>4 DEF master_spawn
<1>4. QED
  BY <1>2, <1>3

(* A status message that is news moves the process between idle and taken   *)
(* in the table and in the counter alike.                                   *)
LEMMA StatusChangesLemma ==
    ASSUME IInv, NEW s \in Services, NEW m \in MASTER_STATUS(Pids),
           m.pid \in table, serv[m.pid] = s, avail[m.pid] # m.avail,
           StatusChanges(s, m), table' = table, serv' = serv
    PROVE  /\ svc' \in [Services -> MASTER_SERV]
           /\ avail' \in [Pids -> Availability]
           /\ ServicesInv'
           /\ \A t \in Services : /\ svc'[t].max_proc = svc[t].max_proc
                                  /\ svc'[t].total_proc = svc[t].total_proc
           /\ CountsAgree'
<1> DEFINE r == IF m.avail = MASTER_STAT_AVAIL
                THEN master_avail_more(svc[s]) ELSE master_avail_less(svc[s])
           p == m.pid
<1>0. svc[s] \in MASTER_SERV /\ ServInv(svc[s]) /\ p \in Pids /\ m.avail \in Availability
  BY DEF IInv, TypeOK, ServicesInv, MASTER_STATUS
<1>1. /\ r \in MASTER_SERV
      /\ ServInv(r)
      /\ r.max_proc = svc[s].max_proc /\ r.total_proc = svc[s].total_proc
      /\ r.avail_proc = IF m.avail = MASTER_STAT_AVAIL
                        THEN svc[s].avail_proc + 1 ELSE svc[s].avail_proc - 1
  BY <1>0, MoreLessLemma DEF SameCounts, MASTER_SERV
<1>2. svc \in [Services -> MASTER_SERV] /\ avail \in [Pids -> Availability]
  BY DEF IInv, TypeOK
<1>3. svc' = [svc EXCEPT ![s] = r] /\ avail' = [avail EXCEPT ![p] = m.avail]
  BY DEF StatusChanges
<1> HIDE DEF r, p
<1>4. /\ svc' \in [Services -> MASTER_SERV]
      /\ svc'[s] = r
      /\ \A t \in Services : t # s => svc'[t] = svc[t]
  BY <1>1, <1>2, <1>3
<1>5. avail' \in [Pids -> Availability] /\ avail'[p] = m.avail
      /\ \A q \in Pids : q # p => avail'[q] = avail[q]
  BY <1>0, <1>2, <1>3
<1>6. ServicesInv'
  BY <1>1, <1>4 DEF IInv, ServicesInv
<1>7. \A t \in Services : /\ svc'[t].max_proc = svc[t].max_proc
                          /\ svc'[t].total_proc = svc[t].total_proc
  BY <1>1, <1>4
<1>8. CountsAgree'
  BY <1>1, <1>3, <1>0, StatusCounts DEF IInv, p
<1>9. QED
  BY <1>4, <1>5, <1>6, <1>7, <1>8

LEMMA StatusEventIInv ==
    ASSUME IInv, NEW s \in Services, master_status_event(s)
    PROVE  IInv'
<1> DEFINE m == Head(pipe[s])
<1>1. /\ pipe \in [Services -> Seq(MASTER_STATUS(Pids))]
      /\ pipe[s] \in Seq(MASTER_STATUS(Pids)) /\ pipe[s] # <<>>
      /\ Running /\ fault = "none" /\ statusOpen = TRUE
      /\ due' = due /\ ready' = ready \ {<<"status", s>>}
      /\ pipe' = [pipe EXCEPT ![s] = Tail(@)]
      /\ UNCHANGED <<child, serv, pending, deaths, fd, table, forkFails>>
  BY DEF IInv, TypeOK, ChildTypeOK, master_status_event, Dispatch, NextEvent, Running
<1>2. /\ m \in MASTER_STATUS(Pids)
      /\ Tail(pipe[s]) \in Seq(MASTER_STATUS(Pids))
      /\ Len(Tail(pipe[s])) = Len(pipe[s]) - 1
      /\ \A i \in 1..Len(Tail(pipe[s])) : Tail(pipe[s])[i] = pipe[s][i+1]
  BY <1>1, HeadTailProperties
<1>3. serv[m.pid] = s
  <2>1. m = pipe[s][1] /\ 1 \in 1..Len(pipe[s])
    BY <1>1
  <2>2. QED
    BY <2>1 DEF IInv, OwnMessages
<1>4. /\ fault' = fault /\ statusOpen' = TRUE
      /\ IF m.pid \in table /\ avail[m.pid] # m.avail
         THEN StatusChanges(s, m) ELSE UNCHANGED <<svc, avail>>
  BY <1>3 DEF master_status_event, IsNews
<1> HIDE DEF m
<1>5. OwnMessages'
  <2> SUFFICES ASSUME NEW t \in Services, NEW i \in 1..Len(pipe'[t])
               PROVE  serv[pipe'[t][i].pid] = t
    BY <1>1 DEF OwnMessages
  <2>1. CASE t = s
    <3>1. pipe'[t] = Tail(pipe[s])
      BY <1>1, <2>1
    <3>2. i \in 1..Len(Tail(pipe[s])) /\ Len(pipe[s]) \in Nat
      BY <1>1, <3>1
    <3>3. pipe'[t][i] = pipe[s][i+1] /\ i + 1 \in 1..Len(pipe[s])
      BY <1>2, <3>1, <3>2
    <3>4. QED
      BY <2>1, <3>3 DEF IInv, OwnMessages
  <2>2. CASE t # s
    BY <1>1, <2>2 DEF IInv, OwnMessages
  <2>3. QED
    BY <2>1, <2>2
<1>6. ChildTypeOK'
  <2>1. pipe' \in [Services -> Seq(MASTER_STATUS(Pids))]
    BY <1>1, <1>2
  <2>2. QED
    BY <1>1, <1>4, <2>1 DEF IInv, TypeOK, ChildTypeOK
<1>7. TableInv' /\ SanityChecks'
  BY <1>1, <1>4 DEF IInv, TableInv, SanityChecks
<1>8. /\ svc' \in [Services -> MASTER_SERV] /\ avail' \in [Pids -> Availability]
      /\ ServicesInv' /\ CountsAgree'
      /\ \A t \in Services : /\ svc'[t].max_proc = svc[t].max_proc
                             /\ svc'[t].total_proc = svc[t].total_proc
  <2>1. CASE m.pid \in table /\ avail[m.pid] # m.avail
    BY <1>1, <1>2, <1>3, <1>4, <2>1, StatusChangesLemma
  <2>2. CASE ~(m.pid \in table /\ avail[m.pid] # m.avail)
    <3>1. svc' = svc /\ avail' = avail
      BY <1>4, <2>2
    <3>2. CountsAgree'
      BY <1>1, <3>1, SameCountsLemma DEF IInv, SameCounts
    <3>3. QED
      BY <3>1, <3>2 DEF IInv, TypeOK, ServicesInv
  <2>3. QED
    BY <2>1, <2>2
<1>9. TypeOK' /\ NumbersInv'
  BY <1>1, <1>4, <1>6, <1>8 DEF IInv, TypeOK, NumbersInv
<1>10. ReadyLimit'
  BY <1>1, <1>8 DEF IInv, ReadyLimit
<1>11. QED
  BY <1>5, <1>7, <1>8, <1>9, <1>10 DEF IInv

LEMMA EventWaitIInv ==
    ASSUME IInv, event_wait
    PROVE  IInv'
<1>1. TypeOK' /\ NumbersInv'
  BY DEF IInv, TypeOK, NumbersInv, ChildTypeOK, childVars, event_wait, ReadyEvents, Events
<1>2. TableInv' /\ OwnMessages' /\ ServicesInv' /\ SanityChecks'
  BY DEF IInv, TableInv, OwnMessages, ServicesInv, SanityChecks, childVars, event_wait
<1>3. ReadyLimit'
  <2> SUFFICES ASSUME NEW s \in Services, <<"listen", s>> \in ready'
               PROVE  MASTER_LIMIT_OK(svc[s].max_proc, svc[s].total_proc)
    BY DEF ReadyLimit, event_wait
  <2>1. svc[s].registered
    BY DEF event_wait, ReadyEvents
  <2>2. QED
    BY <2>1 DEF IInv, ServicesInv, ServInv
<1>4. CountsAgree'
  BY SameCountsLemma DEF IInv, event_wait, childVars, SameCounts
<1>5. QED
  BY <1>1, <1>2, <1>3, <1>4 DEF IInv

LEMMA UnthrottleIInv ==
    ASSUME IInv, NEW s \in Services, master_unthrottle_wrapper(s)
    PROVE  IInv'
<1> DEFINE r == master_unthrottle([svc[s] EXCEPT !.timer = FALSE])
<1>1. svc[s] \in MASTER_SERV /\ ServInv(svc[s]) /\ forkFails \in Nat
  BY DEF IInv, TypeOK, ServicesInv
<1>2. r \in MASTER_SERV /\ SameCounts(r, svc[s]) /\ ServInv(r)
  BY <1>1, UnthrottleLemma
<1>3. /\ svc' = [svc EXCEPT ![s] = r]
      /\ due' = due \ {s} /\ ready' = ready /\ forkFails' = forkFails
      /\ UNCHANGED <<childVars, fd, table, avail, fault>>
  BY DEF master_unthrottle_wrapper
<1> HIDE DEF r
<1>4. QED
  BY <1>1, <1>2, <1>3, ServiceIInv

LEMMA NextIInv == IInv /\ [Next]_vars => IInv'
<1> SUFFICES ASSUME IInv, [Next]_vars PROVE IInv'
  OBVIOUS
<1>0. ChildTypeOK /\ OwnMessages
  BY DEF IInv, TypeOK
<1>1. CASE event_wait
  BY <1>1, EventWaitIInv
<1>2. ASSUME NEW s \in Services, master_unthrottle_wrapper(s) PROVE IInv'
  BY <1>2, UnthrottleIInv
<1>3. ASSUME NEW s \in Services, master_avail_event(s) PROVE IInv'
  BY <1>3, AvailEventIInv
<1>4. ASSUME NEW s \in Services, master_status_event(s) PROVE IInv'
  BY <1>4, StatusEventIInv
<1>5. CASE MasterKilled
  BY <1>5, PanicIInv DEF MasterKilled
<1>6. ASSUME NEW s \in Services, Connect(s), UNCHANGED masterVars PROVE IInv'
  BY <1>0, <1>6, ConnectLemma, ChildIInv
<1>7. ASSUME NEW p \in Pids, ChildStep(p), UNCHANGED masterVars PROVE IInv'
  BY <1>0, <1>7, ChildLemma, ChildIInv
<1>8. CASE UNCHANGED vars
  <2>1. ChildFrame
    BY <1>0, <1>8 DEF vars, childVars, ChildFrame, ChildTypeOK, OwnMessages
  <2>2. QED
    BY <1>8, <2>1, ChildIInv DEF vars
<1>9. QED
  BY <1>1, <1>2, <1>3, <1>4, <1>5, <1>6, <1>7, <1>8, MasterSteps DEF Next

(* The inductive invariant.                                                 *)
THEOREM Invariance == Spec => []IInv
BY InitIInv, NextIInv, PTL DEF Spec

(* Every variable of the manager and of its processes keeps its type, and   *)
(* the read ends of the status channels are open exactly while it runs.     *)
THEOREM TypeCorrect == Spec => []TypeOK
<1>1. IInv => TypeOK
  BY DEF IInv
<1>2. QED
  BY <1>1, Invariance, PTL

(* The counters of every service always agree with the table of children.   *)
THEOREM CountersAgreeWithTable == Spec => []CountsAgree
<1>1. IInv => CountsAgree
  BY DEF IInv
<1>2. QED
  BY <1>1, Invariance, PTL

(* The manager never panics because of the process limit, of a throttled    *)
(* service, of "pointer corruption" or of a "bad file descriptor", however  *)
(* stale its events are.                                                    *)
THEOREM SanityChecksHold == Spec => []SanityChecks
<1>1. IInv => SanityChecks
  BY DEF IInv
<1>2. QED
  BY <1>1, Invariance, PTL

(* The listen flag follows its rule, and every request has its flag.        *)
THEOREM ListenPolicyHolds == Spec => []ListenPolicy
<1>1. IInv => ListenPolicy
  BY DEF IInv, ServicesInv, ServInv, ListenPolicy
<1>2. QED
  BY <1>1, Invariance, PTL

(* No service ever has more living processes than its limit allows.         *)
THEOREM ProcessLimitHolds == Spec => []ProcessLimit
<1>1. IInv => ProcessLimit
  <2> SUFFICES ASSUME IInv, NEW s \in Services, MaxProc[s] # 0
               PROVE  Cardinality({p \in Pids : Alive(p) /\ serv[p] = s}) <= MaxProc[s]
    BY DEF ProcessLimit
  <2> DEFINE living == {p \in Pids : Alive(p) /\ serv[p] = s}
  <2>1. svc[s] \in MASTER_SERV /\ svc[s].max_proc = MaxProc[s] /\ svc[s].total_proc <= MaxProc[s]
    BY DEF IInv, TypeOK, ServicesInv, ServInv
  <2>2. IsFiniteSet(Children(s)) /\ svc[s].total_proc = Cardinality(Children(s))
    BY FS_Subset DEF IInv, TableInv, Children, CountsAgree
  <2>3. living \subseteq Children(s)
    BY DEF IInv, TableInv, Children, Alive
  <2>4. /\ Cardinality(living) <= Cardinality(Children(s))
        /\ Cardinality(living) \in Nat /\ Cardinality(Children(s)) \in Nat
    BY <2>2, <2>3, FS_Subset, FS_CardinalityType
  <2>5. MaxProc[s] \in Nat
    BY MasterAssumption
  <2> HIDE DEF living
  <2>6. Cardinality(living) <= MaxProc[s]
    BY <2>1, <2>2, <2>4, <2>5
  <2>7. QED
    BY <2>6 DEF living
<1>2. QED
  BY <1>1, Invariance, PTL
-----------------------------------------------------------------------------
AtMostOneEach == \A s \in Services : MaxProc[s] = 1

(* With one process for each service the manager never finds one available  *)
(* when a connection arrives: a listen event of the snapshot means that     *)
(* there is room, so that there is no process at all.  The run with two     *)
(* processes shows that the assumption is needed.                           *)
THEOREM OneProcessIsSane == AtMostOneEach /\ Spec => []SpawnSane
<1> SUFFICES ASSUME AtMostOneEach PROVE Spec => []SpawnSane
  OBVIOUS
<1>1. Init => SpawnSane
  BY DEF Init, SpawnSane
<1>2. IInv /\ SpawnSane /\ [Next]_vars => SpawnSane'
  <2> SUFFICES ASSUME IInv, SpawnSane, [Next]_vars PROVE SpawnSane'
    OBVIOUS
  <2>1. ASSUME NEW s \in Services, master_avail_event(s) PROVE SpawnSane'
    <3>1. /\ svc[s] \in MASTER_SERV
          /\ MASTER_LIMIT_OK(svc[s].max_proc, svc[s].total_proc)
          /\ svc[s].max_proc = 1
      BY <2>1 DEF IInv, TypeOK, ReadyLimit, ServicesInv, master_avail_event, Dispatch,
                  NextEvent, AtMostOneEach
    <3>2. /\ IsFiniteSet(Children(s)) /\ Idle(s) \subseteq Children(s)
          /\ svc[s].total_proc = Cardinality(Children(s))
          /\ svc[s].avail_proc = Cardinality(Idle(s))
      BY FS_Subset DEF IInv, TableInv, CountsAgree, Children, Idle
    <3>3. svc[s].total_proc = 0
      BY <3>1, <3>2, FS_CardinalityType DEF MASTER_LIMIT_OK
    <3>4. svc[s].avail_proc = 0
      BY <3>2, <3>3, FS_EmptySet, FS_Subset
    <3>5. SpawnCheck(svc[s]) # "available"
      BY <3>4 DEF SpawnCheck
    <3>6. QED
      BY <2>1, <3>5 DEF SpawnSane, master_avail_event, master_spawn, msg_panic,
                        ForkFails, ForkSucceeds
  <2>2. ASSUME NEW s \in Services, master_status_event(s) PROVE SpawnSane'
    BY <2>2 DEF SpawnSane, master_status_event
  <2>3. CASE MasterKilled
    BY <2>3 DEF SpawnSane, MasterKilled, msg_panic
  <2>4. CASE UNCHANGED fault
    BY <2>4 DEF SpawnSane
  <2>5. QED
    BY <2>1, <2>2, <2>3, <2>4, MasterSteps
       DEF Next, event_wait, master_unthrottle_wrapper, vars, masterVars
<1>3. QED
  BY <1>1, <1>2, Invariance, PTL DEF Spec
-----------------------------------------------------------------------------
\* StatusConverges, for one process and one channel: the last message of p in
\* c says st, or p has none there and the table says a, which is st.
LastSays(c, p, st, a) ==
    \/ /\ \A i \in 1..Len(c) : c[i].pid # p
       /\ a = st
    \/ \E i \in 1..Len(c) :
          /\ c[i].pid = p /\ c[i].avail = st
          /\ \A j \in i+1..Len(c) : c[j].pid # p

(* A message at the end of the channel is the last of its sender, and does  *)
(* not change which is the last of another process.                         *)
LEMMA LastAppend ==
    ASSUME NEW M, NEW c \in Seq(M), NEW p, NEW st, NEW a, NEW m \in M
    PROVE  /\ m.pid = p /\ m.avail = st => LastSays(Append(c, m), p, st, a)
           /\ m.pid # p /\ LastSays(c, p, st, a) => LastSays(Append(c, m), p, st, a)
<1> DEFINE d == Append(c, m)
<1>1. /\ Len(c) \in Nat /\ Len(d) = Len(c) + 1 /\ d[Len(d)] = m
      /\ \A i \in 1..Len(c) : d[i] = c[i]
  OBVIOUS
<1> HIDE DEF d
<1>2. ASSUME m.pid = p, m.avail = st PROVE LastSays(d, p, st, a)
  <2>1. Len(d) \in 1..Len(d) /\ Len(d) + 1..Len(d) = {}
    BY <1>1
  <2>2. QED
    BY <1>1, <1>2, <2>1 DEF LastSays
<1>3. ASSUME m.pid # p, LastSays(c, p, st, a) PROVE LastSays(d, p, st, a)
  <2>1. \A i \in 1..Len(d) : i \in 1..Len(c) \/ i = Len(d)
    BY <1>1
  <2>2. CASE a = st /\ \A i \in 1..Len(c) : c[i].pid # p
    BY <1>1, <1>3, <2>1, <2>2 DEF LastSays
  <2>3. ASSUME NEW i \in 1..Len(c), c[i].pid = p, c[i].avail = st,
               \A j \in i+1..Len(c) : c[j].pid # p
        PROVE  LastSays(d, p, st, a)
    <3>1. i \in 1..Len(d) /\ d[i].pid = p /\ d[i].avail = st
      BY <1>1, <2>3
    <3>2. ASSUME NEW j \in i+1..Len(d) PROVE d[j].pid # p
      <4>1. CASE j = Len(d)
        BY <1>1, <1>3, <4>1
      <4>2. CASE j # Len(d)
        <5>1. j \in i+1..Len(c) /\ j \in 1..Len(c)
          BY <1>1, <4>2
        <5>2. QED
          BY <1>1, <2>3, <5>1
      <4>3. QED
        BY <4>1, <4>2
    <3>3. QED
      BY <3>1, <3>2 DEF LastSays
  <2>4. QED
    BY <1>3, <2>2, <2>3 DEF LastSays
<1>4. QED
  BY <1>2, <1>3 DEF d

(* Reading the first message: if it was the last of its sender, the table   *)
(* learns what it says; otherwise the last one is still to come.            *)
LEMMA LastTail ==
    ASSUME NEW M, NEW c \in Seq(M), c # <<>>, NEW p, NEW st, NEW a,
           LastSays(c, p, st, a)
    PROVE  LastSays(Tail(c), p, st, IF Head(c).pid = p THEN Head(c).avail ELSE a)
<1> DEFINE d == Tail(c)
           b == IF c[1].pid = p THEN c[1].avail ELSE a
<1>1. /\ Len(c) \in Nat \ {0} /\ Len(d) = Len(c) - 1 /\ Head(c) = c[1]
      /\ \A i \in 1..Len(d) : d[i] = c[i+1]
  BY HeadTailProperties
<1> HIDE DEF d, b
<1>2. CASE a = st /\ \A i \in 1..Len(c) : c[i].pid # p
  <2>1. b = st
    BY <1>1, <1>2 DEF b
  <2>2. ASSUME NEW i \in 1..Len(d) PROVE d[i].pid # p
    <3>1. i + 1 \in 1..Len(c)
      BY <1>1
    <3>2. QED
      BY <1>1, <1>2, <3>1
  <2>3. QED
    BY <1>1, <2>1, <2>2 DEF LastSays, d, b
<1>3. ASSUME NEW i \in 1..Len(c), c[i].pid = p, c[i].avail = st,
             \A j \in i+1..Len(c) : c[j].pid # p
      PROVE  LastSays(d, p, st, b)
  <2>1. CASE i = 1
    <3>1. b = st
      BY <1>3, <2>1 DEF b
    <3>2. ASSUME NEW k \in 1..Len(d) PROVE d[k].pid # p
      <4>1. k + 1 \in i+1..Len(c)
        BY <1>1, <2>1
      <4>2. QED
        BY <1>1, <1>3, <4>1
    <3>3. QED
      BY <3>1, <3>2 DEF LastSays
  <2>2. CASE i # 1
    <3>1. i - 1 \in 1..Len(d) /\ d[i-1] = c[i]
      BY <1>1, <2>2
    <3>2. ASSUME NEW k \in (i-1)+1..Len(d) PROVE d[k].pid # p
      <4>1. k \in 1..Len(d) /\ k + 1 \in i+1..Len(c)
        BY <1>1, <2>2
      <4>2. QED
        BY <1>1, <1>3, <4>1
    <3>3. QED
      BY <1>3, <3>1, <3>2 DEF LastSays
  <2>3. QED
    BY <2>1, <2>2
<1>4. QED
  BY <1>1, <1>2, <1>3 DEF LastSays, d, b

\* What StatusConverges says of one process.
Converges(p) == LastSays(pipe[serv[p]], p, Reported(p), avail[p])

LEMMA ConvergesLemma ==
    StatusConverges <=> (Running => \A p \in Pids : Alive(p) => Converges(p))
BY DEF StatusConverges, Converges, LastSays

(* A process changes phase between notifications without changing what it   *)
(* last reported.                                                           *)
LEMMA QuietConverges ==
    ASSUME TypeOK, StatusConverges, NEW p \in Pids, Alive(p),
           NEW phase \in Phases, Goto(p, phase),
           \/ phase = "dead"
           \/ child[p] \in {"serving", "served"} <=> phase \in {"serving", "served"},
           UNCHANGED <<serv, pipe, avail, fault>>
    PROVE  StatusConverges'
<1>1. /\ child \in [Pids -> Phases] /\ child' = [child EXCEPT ![p] = phase]
      /\ serv' = serv /\ pipe' = pipe /\ avail' = avail /\ fault' = fault
  BY DEF TypeOK, ChildTypeOK, Goto
<1>2. \A q \in Pids : Alive(q)' => Alive(q) /\ Reported(q)' = Reported(q)
  BY <1>1 DEF Alive, Reported
<1>3. QED
  BY <1>1, <1>2, ConvergesLemma DEF Converges, Running, StatusConverges

(* A notification is the last message of its sender.                        *)
LEMMA NotifyConverges ==
    ASSUME TypeOK, StatusConverges, NEW p \in Pids, Alive(p),
           NEW status \in Availability, Notify(p, status),
           NEW phase \in Phases, Goto(p, phase),
           status = IF phase \in {"serving", "served"}
                    THEN MASTER_STAT_TAKEN ELSE MASTER_STAT_AVAIL,
           UNCHANGED <<avail, fault>>
    PROVE  StatusConverges'
<1> SUFFICES ASSUME Running, NEW q \in Pids, Alive(q)'
             PROVE  LastSays(pipe'[serv[q]], q, Reported(q)', avail[q])
  <2>1. serv' = serv /\ avail' = avail /\ fault' = fault
    BY DEF Notify
  <2>2. QED
    BY <2>1 DEF StatusConverges, LastSays, Running
<1> DEFINE s == serv[p]
           m == [pid |-> p, avail |-> status]
<1>1. /\ child \in [Pids -> Phases] /\ child' = [child EXCEPT ![p] = phase]
      /\ s \in Services /\ pipe \in [Services -> Seq(MASTER_STATUS(Pids))]
      /\ pipe[s] \in Seq(MASTER_STATUS(Pids)) /\ m \in MASTER_STATUS(Pids)
  BY DEF TypeOK, ChildTypeOK, Goto, Alive, MASTER_STATUS
<1>2. pipe' = [pipe EXCEPT ![s] = Append(pipe[s], m)]
  BY DEF Notify, master_notify, Running, TypeOK
<1>3. pipe'[s] = Append(pipe[s], m) /\ \A t \in Services : t # s => pipe'[t] = pipe[t]
  BY <1>1, <1>2
<1>4. m.pid = p /\ m.avail = status
  OBVIOUS
<1> HIDE DEF m
<1>5. CASE q = p
  <2>1. Reported(q)' = m.avail
    BY <1>1, <1>4, <1>5 DEF Reported
  <2>2. LastSays(Append(pipe[s], m), p, m.avail, avail[p])
    BY <1>1, <1>4, LastAppend
  <2>3. QED
    BY <1>3, <1>5, <2>1, <2>2
<1>6. CASE q # p
  <2>1. Alive(q) /\ Reported(q)' = Reported(q)
    BY <1>1, <1>6 DEF Alive, Reported
  <2>2. LastSays(pipe[serv[q]], q, Reported(q), avail[q])
    BY <2>1, ConvergesLemma DEF Converges
  <2>3. serv[q] \in Services
    BY <2>1 DEF TypeOK, ChildTypeOK, Alive
  <2>4. CASE serv[q] = s
    <3>1. LastSays(Append(pipe[s], m), q, Reported(q), avail[q])
      BY <1>1, <1>4, <1>6, <2>2, <2>4, LastAppend
    <3>2. QED
      BY <1>3, <2>1, <2>4, <3>1
  <2>5. CASE serv[q] # s
    BY <1>3, <2>1, <2>2, <2>3, <2>5
  <2>6. QED
    BY <2>4, <2>5
<1>7. QED
  BY <1>5, <1>6

LEMMA ChildConverges ==
    ASSUME TypeOK, StatusConverges, NEW p \in Pids, ChildStep(p), UNCHANGED masterVars
    PROVE  StatusConverges'
<1> USE DEF Phases, masterVars
<1>1. CASE single_server_main(p)
  BY <1>1, QuietConverges DEF single_server_main, Alive
<1>2. CASE child_event_wait(p)
  BY <1>2, QuietConverges DEF child_event_wait, Alive
<1>3. CASE single_server_accept_inet(p)
  <2>1. Alive(p) /\ UNCHANGED <<serv, pipe, avail, fault>> /\ child[p] = "woken"
    BY <1>3 DEF single_server_accept_inet, Alive
  <2>2. CASE Goto(p, "accepted")
    BY <2>1, <2>2, QuietConverges
  <2>3. CASE Goto(p, "waiting")
    BY <2>1, <2>3, QuietConverges
  <2>4. QED
    BY <1>3, <2>2, <2>3 DEF single_server_accept_inet
<1>4. CASE NotifyTaken(p)
  BY <1>4, NotifyConverges DEF NotifyTaken, Alive, Availability
<1>5. CASE NotifyAvail(p)
  BY <1>5, NotifyConverges DEF NotifyAvail, Alive, Availability
<1>6. CASE ServiceReturns(p)
  BY <1>6, QuietConverges DEF ServiceReturns, Alive
<1>7. CASE ChildDies(p)
  BY <1>7, QuietConverges DEF ChildDies
<1>8. QED
  BY <1>1, <1>2, <1>3, <1>4, <1>5, <1>6, <1>7 DEF ChildStep, ServerStep

(* A process starts with no message of its own in the channel, and the      *)
(* table says that it is available.                                         *)
LEMMA ForkConverges ==
    ASSUME IInv, StatusConverges, NEW s \in Services, NEW p \in Pids, ForkSucceeds(s, p)
    PROVE  StatusConverges'
<1> SUFFICES ASSUME Running, NEW q \in Pids, Alive(q)'
             PROVE  LastSays(pipe[serv'[q]], q, Reported(q)', avail'[q])
  <2>1. pipe' = pipe /\ fault' = fault
    BY DEF ForkSucceeds
  <2>2. QED
    BY <2>1 DEF StatusConverges, LastSays, Running
<1>1. /\ child \in [Pids -> Phases] /\ child' = [child EXCEPT ![p] = "started"]
      /\ serv \in [Pids -> Services \cup {NoService}] /\ serv' = [serv EXCEPT ![p] = s]
      /\ avail \in [Pids -> Availability]
      /\ avail' = [avail EXCEPT ![p] = MASTER_STAT_AVAIL]
      /\ serv[p] = NoService /\ s # NoService
  BY ChildAssumption DEF ForkSucceeds, IInv, TypeOK, ChildTypeOK
<1>2. CASE q = p
  <2>1. Reported(q)' = MASTER_STAT_AVAIL /\ avail'[q] = MASTER_STAT_AVAIL /\ serv'[q] = s
    BY <1>1, <1>2 DEF Reported
  <2>2. \A i \in 1..Len(pipe[s]) : pipe[s][i].pid # q
    BY <1>1, <1>2 DEF IInv, OwnMessages
  <2>3. QED
    BY <2>1, <2>2 DEF LastSays
<1>3. CASE q # p
  <2>1. /\ Alive(q) /\ Reported(q)' = Reported(q)
        /\ serv'[q] = serv[q] /\ avail'[q] = avail[q]
    BY <1>1, <1>3 DEF Alive, Reported
  <2>2. QED
    BY <2>1, ConvergesLemma DEF Converges
<1>4. QED
  BY <1>2, <1>3

LEMMA StatusEventConverges ==
    ASSUME IInv, StatusConverges, NEW s \in Services, master_status_event(s)
    PROVE  StatusConverges'
<1> DEFINE m == Head(pipe[s])
<1> SUFFICES ASSUME NEW q \in Pids, Alive(q), Running
             PROVE  LastSays(pipe'[serv[q]], q, Reported(q), avail'[q])
  <2>1. child' = child /\ serv' = serv
    BY DEF master_status_event
  <2>2. Running
    BY DEF master_status_event, Dispatch, NextEvent
  <2>3. \A q \in Pids : (Alive(q)' <=> Alive(q)) /\ Reported(q)' = Reported(q)
    BY <2>1 DEF Alive, Reported
  <2>4. QED
    BY <2>1, <2>2, <2>3 DEF StatusConverges, LastSays
<1>1. /\ pipe \in [Services -> Seq(MASTER_STATUS(Pids))]
      /\ pipe[s] \in Seq(MASTER_STATUS(Pids)) /\ pipe[s] # <<>>
      /\ pipe' = [pipe EXCEPT ![s] = Tail(@)]
      /\ avail \in [Pids -> Availability]
  BY DEF IInv, TypeOK, ChildTypeOK, master_status_event
<1>2. pipe'[s] = Tail(pipe[s]) /\ \A t \in Services : t # s => pipe'[t] = pipe[t]
  BY <1>1
<1>3. serv[m.pid] = s /\ m \in MASTER_STATUS(Pids)
  <2>1. m = pipe[s][1] /\ 1 \in 1..Len(pipe[s])
    BY <1>1
  <2>2. QED
    BY <1>1, <2>1, HeadTailProperties DEF IInv, OwnMessages
<1>4. m.pid \in Pids
  BY <1>3 DEF MASTER_STATUS
<1>5. serv[q] \in Services /\ q \in table
  BY DEF IInv, TypeOK, ChildTypeOK, TableInv, Alive
<1>6. avail'[q] = IF m.pid = q THEN m.avail ELSE avail[q]
  <2>1. IF m.pid \in table /\ avail[m.pid] # m.avail
        THEN avail' = [avail EXCEPT ![m.pid] = m.avail] ELSE avail' = avail
    BY <1>3 DEF master_status_event, IsNews, StatusChanges
  <2> HIDE DEF m
  <2>2. QED
    BY <1>1, <1>4, <1>5, <2>1
<1>7. LastSays(pipe[serv[q]], q, Reported(q), avail[q])
  BY ConvergesLemma DEF Converges
<1>8. CASE serv[q] = s
  BY <1>1, <1>2, <1>6, <1>7, <1>8, LastTail
<1>9. CASE serv[q] # s
  BY <1>2, <1>3, <1>5, <1>6, <1>7, <1>9
<1>10. QED
  BY <1>8, <1>9

(* The gossip converges: once the messages of a living process have been    *)
(* read, the table says what the process last reported.                     *)
THEOREM GossipConverges == Spec => []StatusConverges
<1>1. Init => StatusConverges
  BY DEF Init, ChildInit, StatusConverges, Alive
<1>2. IInv /\ StatusConverges /\ [Next]_vars => StatusConverges'
  <2> SUFFICES ASSUME IInv, StatusConverges, [Next]_vars PROVE StatusConverges'
    OBVIOUS
  <2>1. ASSUME NEW s \in Services, master_avail_event(s) PROVE StatusConverges'
    <3>1. CASE \E p \in Pids : ForkSucceeds(s, p)
      BY <3>1, ForkConverges
    <3>2. CASE \E reason : msg_panic(reason) /\ reason # "none"
      BY <3>2 DEF StatusConverges, Running, msg_panic
    <3>3. CASE UNCHANGED <<childVars, avail, fault>>
      BY <3>3 DEF StatusConverges, Running, childVars, Alive, Reported
    <3>4. QED
      BY <2>1, <3>1, <3>2, <3>3 DEF master_avail_event, master_spawn, ForkFails
  <2>2. ASSUME NEW s \in Services, master_status_event(s) PROVE StatusConverges'
    BY <2>2, StatusEventConverges
  <2>3. CASE MasterKilled
    BY <2>3 DEF MasterKilled, msg_panic, StatusConverges, Running
  <2>4. ASSUME NEW p \in Pids, ChildStep(p), UNCHANGED masterVars PROVE StatusConverges'
    BY <2>4, ChildConverges DEF IInv
  <2>5. CASE UNCHANGED <<child, serv, pipe, avail, fault>>
    BY <2>5 DEF StatusConverges, Running, Alive, Reported
  <2>6. QED
    BY <2>1, <2>2, <2>3, <2>4, <2>5, MasterSteps
       DEF Next, event_wait, master_unthrottle_wrapper, Connect,
           vars, childVars, masterVars
<1>3. QED
  BY <1>1, <1>2, Invariance, PTL DEF Spec
-----------------------------------------------------------------------------
\* What faults have not spoiled yet: no process is dead, and no listen request
\* is missing that the flag promises.
Unspoilt(r) == ~r.throttle /\ (r.listen => r.registered)

SoFarInv ==
    /\ deaths = 0 => \A p \in Pids : child[p] # "dead"
    /\ forkFails = 0 => \A s \in Services : Unspoilt(svc[s])

(* No handler but master_throttle() spoils a record.                        *)
LEMMA UnspoiltLemma ==
    ASSUME NEW r \in MASTER_SERV, Unspoilt(r)
    PROVE  /\ Unspoilt(master_avail_listen(r))
           /\ Unspoilt(master_avail_more(r))
           /\ Unspoilt(master_avail_less(r))
           /\ Unspoilt(master_avail_more([r EXCEPT !.total_proc = @ + 1]))
           /\ Unspoilt(master_unthrottle([r EXCEPT !.timer = FALSE]))
BY DEF Unspoilt, master_avail_listen, master_avail_more, master_avail_less, master_unthrottle,
       listen_flag, MASTER_SERV

LEMMA SoFarStep == IInv /\ SoFarInv /\ [Next]_vars => SoFarInv'
<1> SUFFICES ASSUME IInv, SoFarInv, [Next]_vars PROVE SoFarInv'
  OBVIOUS
<1>1. /\ child \in [Pids -> Phases] /\ deaths \in Nat
      /\ svc \in [Services -> MASTER_SERV] /\ forkFails \in Nat /\ MaxForkFails \in Nat
  BY MasterAssumption DEF IInv, TypeOK, ChildTypeOK
<1>2. ASSUME UNCHANGED <<child, deaths>>, NEW s \in Services, NEW r,
             svc' = [svc EXCEPT ![s] = r], Unspoilt(svc[s]) => Unspoilt(r),
             forkFails' = forkFails
      PROVE  SoFarInv'
  BY <1>1, <1>2 DEF SoFarInv
<1>3. ASSUME NEW s \in Services, master_unthrottle_wrapper(s) PROVE SoFarInv'
  BY <1>1, <1>2, <1>3, UnspoiltLemma DEF master_unthrottle_wrapper, childVars
<1>4. ASSUME NEW s \in Services, master_avail_event(s) PROVE SoFarInv'
  <2>1. CASE svc[s].throttle /\ UNCHANGED <<child, deaths, forkFails>>
             /\ svc' = [svc EXCEPT ![s] = event_disable_listen(@)]
    BY <1>2, <2>1 DEF Unspoilt
  <2>2. CASE ForkFails(s)
    <3>1. forkFails' # 0 /\ UNCHANGED <<child, deaths>>
      BY <1>1, <2>2 DEF ForkFails, childVars
    <3>2. QED
      BY <3>1 DEF SoFarInv
  <2>3. ASSUME NEW p \in Pids, ForkSucceeds(s, p) PROVE SoFarInv'
    <3>1. /\ child' = [child EXCEPT ![p] = "started"] /\ deaths' = deaths /\ forkFails' = forkFails
          /\ svc' = [svc EXCEPT ![s] = master_avail_more([svc[s] EXCEPT !.total_proc = @ + 1])]
      BY <2>3 DEF ForkSucceeds
    <3>2. Unspoilt(svc[s]) => Unspoilt(master_avail_more([svc[s] EXCEPT !.total_proc = @ + 1]))
      BY <1>1, UnspoiltLemma
    <3>3. QED
      BY <1>1, <3>1, <3>2 DEF SoFarInv
  <2>4. CASE \E reason : msg_panic(reason)
    BY <2>4 DEF msg_panic, SoFarInv
  <2>5. QED
    BY <1>4, <2>1, <2>2, <2>3, <2>4 DEF master_avail_event, master_spawn, childVars
<1>5. ASSUME NEW s \in Services, master_status_event(s) PROVE SoFarInv'
  <2>1. /\ UNCHANGED <<child, deaths, forkFails>>
        /\ \/ svc' = svc
           \/ svc' = [svc EXCEPT ![s] = master_avail_more(svc[s])]
           \/ svc' = [svc EXCEPT ![s] = master_avail_less(svc[s])]
    BY <1>5 DEF master_status_event, StatusChanges
  <2>2. QED
    BY <1>1, <1>2, <2>1, UnspoiltLemma DEF SoFarInv
<1>6. ASSUME NEW p \in Pids, ChildStep(p), UNCHANGED masterVars PROVE SoFarInv'
  <2>1. UNCHANGED <<svc, forkFails>>
    BY <1>6 DEF masterVars
  <2>2. \/ deaths' = deaths + 1
        \/ deaths' = deaths /\ \E phase \in Phases \ {"dead"} : Goto(p, phase)
    BY <1>6 DEF ChildStep, ServerStep, single_server_main, child_event_wait, Notify,
                single_server_accept_inet, NotifyTaken, NotifyAvail, ServiceReturns, ChildDies, Phases
  <2>3. deaths' = 0 => \A q \in Pids : child'[q] # "dead"
    BY <1>1, <2>2 DEF Goto, SoFarInv
  <2>4. QED
    BY <2>1, <2>3 DEF SoFarInv
<1>7. CASE UNCHANGED <<child, deaths, svc, forkFails>>
  BY <1>7 DEF SoFarInv
<1>8. QED
  BY <1>3, <1>4, <1>5, <1>6, <1>7, MasterSteps
     DEF Next, event_wait, Connect, MasterKilled, msg_panic, vars, childVars, masterVars

(* A service that nobody watches although it may have another process has   *)
(* none that is idle, and the manager knows it.                             *)
LEMMA WatchedSoFar ==
    ASSUME IInv, StatusConverges, SoFarInv, Running, deaths = 0, forkFails = 0,
           NEW s \in Services,
           ~svc[s].registered,
           MASTER_LIMIT_OK(MaxProc[s], Cardinality({p \in {q \in Pids : serv[q] = s} : Busy(p)})),
           ~ \E p \in {q \in Pids : serv[q] = s} : Listens(p) \/ child[p] = "accepted",
           pipe[s] = <<>>
    PROVE  FALSE
<1> DEFINE mine == {p \in Pids : serv[p] = s}
<1>1. ~svc[s].throttle /\ ~listen_flag(svc[s]) /\ svc[s].max_proc = MaxProc[s]
  BY DEF SoFarInv, Unspoilt, IInv, ServicesInv, ServInv
<1>2. ASSUME NEW p \in mine
      PROVE  Busy(p) /\ p \in table /\ avail[p] = MASTER_STAT_TAKEN
  <2>1. child[p] # "none" /\ child[p] # "dead" /\ child[p] \in Phases
    BY ChildAssumption DEF IInv, TypeOK, ChildTypeOK, SoFarInv
  <2>2. child[p] \in {"serving", "served"}
    BY <2>1 DEF Phases, Listens
  <2>3. Alive(p) /\ Reported(p) = MASTER_STAT_TAKEN
    BY <2>2 DEF Alive, Reported
  <2>4. LastSays(<<>>, p, MASTER_STAT_TAKEN, avail[p])
    BY <2>3, ConvergesLemma DEF Converges
  <2>5. QED
    BY <2>1, <2>2, <2>4 DEF LastSays, Busy, IInv, TableInv
<1>3. Children(s) = {p \in mine : Busy(p)} /\ Idle(s) = {}
  BY <1>2 DEF Children, Idle, IInv, TypeOK, MASTER_STAT_TAKEN, MASTER_STAT_AVAIL
<1>4. svc[s].avail_proc = 0 /\ svc[s].total_proc = Cardinality({p \in mine : Busy(p)})
  BY <1>3, FS_EmptySet DEF IInv, CountsAgree
<1>5. QED
  BY <1>1, <1>4 DEF listen_flag

(* As long as no process has died and no fork has failed, no socket is left *)
(* unwatched, but for the delay of the gossip (master_avail_listen).        *)
THEOREM SocketsAreWatchedSoFar == Spec => []SocketWatchedSoFar
<1>1. Init => SoFarInv
  <2>1. ASSUME Init, NEW s \in Services PROVE Unspoilt(svc[s])
    BY <2>1, MasterAssumption
       DEF Init, Unspoilt, master_start_service, get_master_ent, master_avail_listen, listen_flag
  <2>2. QED
    BY <2>1 DEF Init, ChildInit, SoFarInv
<1>2. IInv /\ StatusConverges /\ SoFarInv => SocketWatchedSoFar
  BY WatchedSoFar DEF SocketWatchedSoFar, SocketWatched
<1>3. QED
  BY <1>1, <1>2, SoFarStep, Invariance, GossipConverges, PTL DEF Spec
=============================================================================
