-------------------------- MODULE EventLoopProofs --------------------------
(***************************************************************************)
(* Proofs about the descriptor half of the event loop, for every number of *)
(* descriptors and every number of additions that epoll_ctl() refuses.     *)
(***************************************************************************)
EXTENDS EventLoop, FiniteSetTheorems, SequenceTheorems, TLAPS

Event == [fd : Fds, events : (SUBSET EVENTS) \ {{}}]

\* An event that was asked for has a callback, while it is watched, while it
\* waits in the batch and while it is dealt with.
CallbackInv ==
    /\ \A fd \in Fds : interest[fd] \subseteq callback[fd]
    /\ \A i \in 1..Len(batch) : batch[i].events \subseteq callback[batch[i].fd]
    /\ CallbackStored

\* The events of the batch are of descriptors that maxfd covers; there are
\* none outside event_wait().
BatchInv ==
    /\ \A i \in 1..Len(batch) : batch[i].fd <= maxfd
    /\ place = "program" => batch = <<>>
    /\ place \in {"read", "write"} => current \in Fds

IInv ==
    /\ TypeOK
    /\ MaskAgrees
    /\ MaxfdHighest
    /\ CallbackInv
    /\ BatchInv
    /\ NoBadDescriptor

LEMMA BatchType ==
    ASSUME TypeOK
    PROVE  \A i \in 1..Len(batch) : batch[i] \in Event /\ batch[i].fd \in Fds
<1>1. batch \in Seq(Event)
  BY DEF TypeOK, Event
<1>2. batch \in [1..Len(batch) -> Event]
  BY <1>1, LenProperties
<1>3. QED
  BY <1>2 DEF Event

LEMMA InitIInv == event_init => IInv
<1> SUFFICES ASSUME event_init PROVE IInv
  OBVIOUS
<1> USE EventLoopAssumption DEF event_init, EVENT_NONE
<1>1. TypeOK
  <2>1. batch \in Seq([fd : Fds, events : (SUBSET EVENTS) \ {{}}])
    BY EmptySeq
  <2>2. QED
    BY <2>1 DEF TypeOK, Fds
<1>2. Len(batch) = 0
  BY EmptySeq
<1>3. MaskAgrees /\ MaxfdHighest
  BY DEF MaskAgrees, MaxfdHighest, Listed
<1>4. CallbackInv /\ BatchInv /\ NoBadDescriptor
  BY <1>2 DEF CallbackInv, BatchInv, NoBadDescriptor, CallbackStored
<1>5. QED
  BY <1>1, <1>3, <1>4 DEF IInv
-----------------------------------------------------------------------------
LEMMA EnableStep ==
    ASSUME IInv, NEW fd \in Fds, NEW m \in EVENTS, event_enable_rw(fd, m)
    PROVE  IInv'
<1> USE DEF IInv, EVENT_NONE
<1>1. /\ UNCHANGED <<io, batch, current, place>>
      /\ mask' = [mask EXCEPT ![fd] = @ \cup {m}]
      /\ place \notin {"batch", "panic"}
  BY DEF event_enable_rw, InProgram
<1>2. /\ fd \in Int /\ maxfd \in Int /\ maxfd >= -1 /\ fd >= 0 /\ fd <= Size-1
      /\ mask'[fd] = mask[fd] \cup {m} /\ \A k \in Fds : k # fd => mask'[k] = mask[k]
      /\ mask'[fd] # {}
  BY <1>1, EventLoopAssumption DEF TypeOK, Fds
<1>3. CASE /\ CtlSucceeds(fd)
           /\ interest' = [interest EXCEPT ![fd] = mask'[fd]]
           /\ callback' = [callback EXCEPT ![fd] = @ \cup {m}]
           /\ maxfd' = IF fd > maxfd THEN fd ELSE maxfd
           /\ UNCHANGED fails
  <2>1. TypeOK'
    BY <1>1, <1>2, <1>3 DEF TypeOK
  <2>2. /\ interest'[fd] = mask'[fd] /\ \A k \in Fds : k # fd => interest'[k] = interest[k]
        /\ \A k \in Fds : callback[k] \subseteq callback'[k]
        /\ callback'[fd] = callback[fd] \cup {m}
    BY <1>2, <1>3 DEF TypeOK
  <2>3. mask[fd] = interest[fd]
    BY <1>3 DEF CtlSucceeds, Listed, MaskAgrees
  <2>4. \A k \in Fds : interest'[k] \in {{}, mask'[k]}
    BY <1>2, <2>2 DEF MaskAgrees
  <2>5. MaskAgrees'
    BY <1>1, <1>2, <1>3, <2>2, <2>4 DEF MaskAgrees, TypeOK
  <2>6. maxfd' >= maxfd /\ maxfd' >= fd /\ maxfd' \in {fd, maxfd}
    BY <1>2, <1>3
  <2>7. \A k \in Fds : k <= maxfd => k <= maxfd'
    BY <1>2, <2>6 DEF Fds
  <2>8. MaxfdHighest'
    <3>1. \A k \in Fds : Listed(k)' => k <= maxfd'
      BY <2>2, <2>6, <2>7 DEF MaxfdHighest, Listed
    <3>2. maxfd' # -1 => mask'[maxfd'] # {}
      <4>1. CASE maxfd' = fd
        BY <1>2, <4>1
      <4>2. CASE maxfd' = maxfd /\ maxfd # fd
        BY <1>2, <4>2 DEF MaxfdHighest, TypeOK, Fds
      <4>3. QED
        BY <2>6, <4>1, <4>2
    <3>3. fails' = 0 => \A k \in Fds : mask'[k] # {} => k <= maxfd'
      BY <1>2, <1>3, <2>6, <2>7 DEF MaxfdHighest
    <3>4. QED
      BY <3>1, <3>2, <3>3 DEF MaxfdHighest
  <2>9. CallbackInv'
    <3>1. \A k \in Fds : interest'[k] \subseteq callback'[k]
      BY <1>2, <2>2, <2>3 DEF CallbackInv
    <3>2. \A i \in 1..Len(batch) : batch[i].fd \in Fds
      BY BatchType
    <3>3. CallbackStored'
      BY <1>1, <2>2 DEF CallbackInv, CallbackStored, BatchInv
    <3>4. QED
      BY <1>1, <2>2, <3>1, <3>2, <3>3 DEF CallbackInv
  <2>10. BatchInv' /\ NoBadDescriptor'
    <3>1. \A i \in 1..Len(batch) : batch[i].fd \in Fds
      BY BatchType
    <3>2. QED
      BY <1>1, <2>7, <3>1 DEF BatchInv, NoBadDescriptor
  <2>11. QED
    BY <2>1, <2>5, <2>8, <2>9, <2>10
<1>4. CASE /\ UNCHANGED <<interest, callback, maxfd>>
           /\ ~Listed(fd)
           /\ \/ fails' = fails /\ mask[fd] # {}
              \/ fails' = fails + 1
  <2>1. TypeOK'
    BY <1>1, <1>4 DEF TypeOK
  <2>2. fails' # 0
    BY <1>4 DEF MaskAgrees, TypeOK, Listed
  <2>3. MaskAgrees'
    BY <1>2, <1>4, <2>2 DEF MaskAgrees, Listed
  <2>4. MaxfdHighest'
    <3>1. \A k \in Fds : Listed(k)' => k <= maxfd'
      BY <1>4 DEF MaxfdHighest, Listed
    <3>2. maxfd' # -1 => mask'[maxfd'] # {}
      BY <1>2, <1>4 DEF MaxfdHighest, TypeOK, Fds
    <3>3. QED
      BY <2>2, <3>1, <3>2 DEF MaxfdHighest
  <2>5. CallbackInv' /\ BatchInv' /\ NoBadDescriptor'
    BY <1>1, <1>4 DEF CallbackInv, CallbackStored, BatchInv, NoBadDescriptor
  <2>6. QED
    BY <2>1, <2>3, <2>4, <2>5
<1>5. QED
  BY <1>3, <1>4 DEF event_enable_rw, CtlSucceeds, Listed, MaskAgrees
-----------------------------------------------------------------------------
LEMMA DisableStep ==
    ASSUME IInv, NEW fd \in Fds, NEW m \in EVENTS, event_disable_rw(fd, m), MayDisable(fd)
    PROVE  IInv'
<1> USE DEF IInv, EVENT_NONE
<1>1. /\ UNCHANGED <<callback, io, batch, current, place, fails>>
      /\ interest' = [interest EXCEPT ![fd] = mask[fd] \ {m}]
      /\ mask' = [mask EXCEPT ![fd] = @ \ {m}]
      /\ Listed(fd)
  BY DEF event_disable_rw
<1>2. /\ fd \in Int /\ maxfd \in Int /\ fd >= 0
      /\ mask'[fd] = mask[fd] \ {m} /\ \A k \in Fds : k # fd => mask'[k] = mask[k]
      /\ interest'[fd] = mask[fd] \ {m} /\ \A k \in Fds : k # fd => interest'[k] = interest[k]
  BY <1>1 DEF TypeOK, Fds
<1>3. mask[fd] = interest[fd] /\ fd <= maxfd
  BY <1>1 DEF MaskAgrees, Listed, MaxfdHighest
<1>4. MaskAgrees'
  BY <1>1, <1>2, <1>3 DEF MaskAgrees, TypeOK
<1>5. CallbackInv'
  BY <1>1, <1>2, <1>3 DEF CallbackInv, CallbackStored
<1>6. CASE fd = maxfd /\ mask'[fd] = {}
  <2>1. PICK j \in -1..fd-1 : HighestBelow(fd, j) /\ maxfd' = j
    BY <1>6 DEF event_disable_rw
  <2>2. j \in Int /\ -1 <= j /\ j < fd /\ (j # -1 => j \in Fds /\ mask[j] # {})
    <3>1. j \in Int /\ -1 <= j /\ j < fd /\ fd <= Size-1 /\ Size \in Int
      BY <1>2, EventLoopAssumption DEF Fds
    <3>2. j # -1 => mask[j] # {}
      BY <2>1 DEF HighestBelow
    <3>3. QED
      BY <3>1, <3>2 DEF Fds
  <2>3. TypeOK'
    <3>1. maxfd' \in -1..Size-1
      BY <1>2, <2>1, <2>2, EventLoopAssumption DEF Fds
    <3>2. QED
      BY <1>1, <3>1 DEF TypeOK
  <2>4. ASSUME NEW k \in Fds, mask'[k] # {}, k <= maxfd PROVE k <= j
    <3>1. k \in Int /\ k < fd
      BY <1>2, <1>6, <2>4 DEF Fds
    <3>2. mask[k] # {}
      BY <1>2, <2>4, <3>1
    <3>3. QED
      BY <2>1, <2>2, <3>1, <3>2 DEF HighestBelow
  <2>5. \A k \in Fds : Listed(k)' => Listed(k) /\ mask'[k] # {}
    BY <1>2, <1>6 DEF Listed, MaskAgrees
  <2>6. MaxfdHighest'
    BY <1>1, <1>2, <1>6, <2>1, <2>2, <2>4, <2>5 DEF MaxfdHighest
  <2>7. place = "program"
    <3>1. \A p \in Fds : Listed(p) => ~(p > fd)
      BY <1>2, <1>6 DEF MaxfdHighest, Fds
    <3>2. QED
      BY <3>1, EventLoopAssumption DEF MayDisable, Fds
  <2>8. BatchInv' /\ NoBadDescriptor'
    <3>1. Len(batch) = 0
      BY <2>7, EmptySeq DEF BatchInv
    <3>2. QED
      BY <1>1, <2>7, <3>1 DEF BatchInv, NoBadDescriptor
  <2>9. QED
    BY <1>4, <1>5, <2>3, <2>6, <2>8
<1>7. CASE ~(fd = maxfd /\ mask'[fd] = {})
  <2>1. maxfd' = maxfd
    BY <1>7 DEF event_disable_rw
  <2>2. TypeOK'
    BY <1>1, <2>1 DEF TypeOK
  <2>3. \A k \in Fds : (Listed(k)' => Listed(k)) /\ (mask'[k] # {} => mask[k] # {})
    BY <1>2, <1>3 DEF Listed
  <2>4. maxfd # -1 => mask'[maxfd] # {}
    BY <1>2, <1>7 DEF MaxfdHighest, TypeOK, Fds
  <2>5. MaxfdHighest'
    BY <1>1, <2>1, <2>3, <2>4 DEF MaxfdHighest
  <2>6. BatchInv' /\ NoBadDescriptor'
    BY <1>1, <2>1 DEF BatchInv, NoBadDescriptor
  <2>7. QED
    BY <1>4, <1>5, <2>2, <2>5, <2>6
<1>8. QED
  BY <1>6, <1>7
-----------------------------------------------------------------------------
\* Steps that leave all requests alone.
Quiet == UNCHANGED <<mask, callback, interest, maxfd, fails>>

LEMMA QuietLemma ==
    ASSUME IInv, Quiet
    PROVE  /\ MaskAgrees' /\ MaxfdHighest'
           /\ \A fd \in Fds : interest'[fd] \subseteq callback'[fd]
BY DEF IInv, Quiet, MaskAgrees, MaxfdHighest, Listed, CallbackInv

LEMMA WaitStep == ASSUME IInv, event_wait PROVE IInv'
<1> USE DEF IInv
<1>1. Quiet /\ UNCHANGED <<io, current>> /\ place = "program" /\ place' = "timers"
  BY DEF event_wait, Quiet
<1>2. PICK order \in [1..Cardinality(ReadyFds) -> ReadyFds] :
         batch' = [i \in DOMAIN order |-> [fd |-> order[i], events |-> Reported(order[i])]]
  BY DEF event_wait
<1>3. Cardinality(ReadyFds) \in Nat
  <2>1. IsFiniteSet(Fds)
    BY FS_Interval, EventLoopAssumption DEF Fds
  <2>2. IsFiniteSet(ReadyFds)
    BY <2>1, FS_Subset DEF ReadyFds
  <2>3. QED
    BY <2>2, FS_CardinalityType
<1>4. DOMAIN batch' = 1..Cardinality(ReadyFds)
  BY <1>2
<1>5. \A i \in 1..Cardinality(ReadyFds) :
         /\ batch'[i].fd \in ReadyFds
         /\ batch'[i].events = Reported(batch'[i].fd)
         /\ batch'[i] \in Event
  <2>1. ASSUME NEW fd \in ReadyFds
        PROVE  fd \in Fds /\ Reported(fd) \in (SUBSET EVENTS) \ {{}}
    <3>1. fd \in Fds /\ Reported(fd) # {}
      BY DEF ReadyFds
    <3>2. interest[fd] \in SUBSET EVENTS
      BY <3>1 DEF TypeOK
    <3>3. Reported(fd) \in SUBSET EVENTS
      <4>1. \A m \in Reported(fd) : m \in interest[fd]
        BY Zenon DEF Reported
      <4>2. QED
        BY <3>2, <4>1
    <3>4. QED
      BY <3>1, <3>3
  <2>2. QED
    BY <1>2, <2>1 DEF Event
<1>6. batch' \in Seq(Event) /\ Len(batch') = Cardinality(ReadyFds)
  BY <1>2, <1>3, <1>4, <1>5, IsASeq
<1>7. TypeOK'
  BY <1>1, <1>6 DEF TypeOK, Quiet, Event
<1>8. \A i \in 1..Len(batch') : batch'[i].fd <= maxfd /\ batch'[i].events \subseteq callback[batch'[i].fd]
  <2>1. \A fd \in ReadyFds : fd \in Fds /\ Listed(fd) /\ Reported(fd) \subseteq callback[fd]
    BY DEF ReadyFds, Reported, Listed, CallbackInv
  <2>2. QED
    BY <1>5, <1>6, <2>1 DEF MaxfdHighest
<1>9. CallbackInv' /\ BatchInv' /\ NoBadDescriptor'
  BY <1>1, <1>8, QuietLemma DEF CallbackInv, CallbackStored, BatchInv, NoBadDescriptor, Quiet
<1>10. QED
  BY <1>1, <1>7, <1>9, QuietLemma

LEMMA DispatchStep == ASSUME IInv, Dispatch PROVE IInv'
<1> USE DEF IInv
<1>1. /\ Quiet /\ io' = io /\ place = "batch" /\ batch # <<>> /\ batch' = Tail(batch)
      /\ current' = Head(batch).fd
      /\ place' = IF Head(batch).fd > maxfd THEN "panic"
                  ELSE IF "read" \in Head(batch).events THEN "read" ELSE "write"
  BY DEF Dispatch, Quiet
<1>2. batch \in Seq(Event)
  BY DEF TypeOK, Event
<1>3. /\ Head(batch) \in Event /\ Head(batch) = batch[1] /\ 1 \in 1..Len(batch)
      /\ Tail(batch) \in Seq(Event)
      /\ Len(Tail(batch)) = Len(batch) - 1 /\ Len(batch) \in Nat
      /\ \A i \in 1..Len(Tail(batch)) : Tail(batch)[i] = batch[i + 1]
  BY <1>1, <1>2, HeadTailProperties, LenProperties, EmptySeq
<1>4. \A i \in 1..Len(batch') : i + 1 \in 1..Len(batch) /\ batch'[i] = batch[i + 1]
  BY <1>1, <1>3
<1>5. batch[1].fd \in Fds /\ batch[1].fd <= maxfd /\ batch[1].events \subseteq callback[batch[1].fd]
  BY <1>3 DEF Event, BatchInv, CallbackInv
<1>6. place' = IF "read" \in batch[1].events THEN "read" ELSE "write"
  BY <1>1, <1>3, <1>5 DEF TypeOK, Fds
<1>7. place' \in batch[1].events
  <2>1. batch[1].events # {} /\ batch[1].events \in SUBSET EVENTS
    <3>1. batch[1] \in Event
      BY <1>3
    <3>2. batch[1].events \in (SUBSET EVENTS) \ {{}}
      BY <3>1 DEF Event
    <3>3. QED
      BY <3>2
  <2>2. QED
    BY <1>6, <2>1 DEF EVENTS
<1>8. TypeOK'
  BY <1>1, <1>3, <1>5, <1>6 DEF TypeOK, Quiet, Event
<1>9. CallbackInv'
  <2>1. CallbackStored'
    BY <1>1, <1>3, <1>5, <1>7 DEF CallbackStored, Quiet
  <2>2. \A i \in 1..Len(batch') : batch'[i].events \subseteq callback[batch'[i].fd]
    BY <1>4 DEF CallbackInv
  <2>3. QED
    BY <1>1, <2>1, <2>2, QuietLemma DEF CallbackInv, Quiet
<1>10. BatchInv' /\ NoBadDescriptor'
  <2>1. \A i \in 1..Len(batch') : batch'[i].fd <= maxfd
    BY <1>4 DEF BatchInv
  <2>2. current' \in Fds /\ place' \in {"read", "write"}
    BY <1>1, <1>3, <1>5, <1>6
  <2>3. QED
    BY <1>1, <2>1, <2>2 DEF BatchInv, NoBadDescriptor, Quiet
<1>11. QED
  BY <1>1, <1>8, <1>9, <1>10, QuietLemma

LEMMA OtherSteps ==
    ASSUME IInv,
           \/ TimersDone \/ CallbackReturns \/ BatchDone
           \/ \E fd \in Fds, m \in EVENTS : IoChanges(fd, m)
    PROVE  IInv'
<1> USE DEF IInv
<1>1. Quiet /\ batch' = batch
  BY DEF TimersDone, CallbackReturns, BatchDone, IoChanges, Quiet
<1>2. io' \in [Fds -> SUBSET EVENTS]
  <2>1. CASE CallbackReturns
    BY <2>1 DEF CallbackReturns, TypeOK
  <2>2. ASSUME NEW fd \in Fds, NEW m \in EVENTS, IoChanges(fd, m) PROVE io' \in [Fds -> SUBSET EVENTS]
    BY <2>2 DEF IoChanges, TypeOK
  <2>3. CASE TimersDone \/ BatchDone
    BY <2>3 DEF TimersDone, BatchDone, TypeOK
  <2>4. QED
    BY <2>1, <2>2, <2>3
<1>3. /\ place' \in {"program", "batch"} \/ (place' = place /\ current' = current)
      /\ place' = "program" => place = "program" \/ batch = <<>>
      /\ current' \in Fds \cup {-1}
      /\ place' \in {"program", "timers", "batch", "read", "write", "panic"}
  BY DEF TimersDone, CallbackReturns, BatchDone, IoChanges, TypeOK
<1>4. TypeOK'
  BY <1>1, <1>2, <1>3 DEF TypeOK, Quiet
<1>5. CallbackInv'
  BY <1>1, <1>3 DEF CallbackInv, CallbackStored, Quiet
<1>6. BatchInv' /\ NoBadDescriptor'
  BY <1>1, <1>3 DEF BatchInv, NoBadDescriptor, Quiet
<1>7. QED
  BY <1>1, <1>4, <1>5, <1>6, QuietLemma
-----------------------------------------------------------------------------
LEMMA NextIInv == IInv /\ [Next]_vars => IInv'
<1> SUFFICES ASSUME IInv, [Next]_vars PROVE IInv'
  OBVIOUS
<1>1. CASE LoopStep
  BY <1>1, WaitStep, DispatchStep, OtherSteps DEF LoopStep
<1>2. ASSUME NEW fd \in Fds, NEW m \in EVENTS,
             \/ event_enable_rw(fd, m)
             \/ MayDisable(fd) /\ event_disable_rw(fd, m)
             \/ IoChanges(fd, m)
      PROVE  IInv'
  BY <1>2, EnableStep, DisableStep, OtherSteps
<1>3. CASE UNCHANGED vars
  BY <1>3 DEF vars, IInv, TypeOK, MaskAgrees, MaxfdHighest, Listed, CallbackInv, CallbackStored,
              BatchInv, NoBadDescriptor
<1>4. QED
  BY <1>1, <1>2, <1>3 DEF Next

(* The inductive invariant.                                                 *)
THEOREM LoopInvariance == Spec => []IInv
BY InitIInv, NextIInv, PTL DEF Spec

(* Masks, epoll's interest list and maxfd agree, for any number of          *)
(* descriptors and refused additions (event_enable_rw, event_disable_rw).   *)
THEOREM MasksAgreeWithEpoll == Spec => [](MaskAgrees /\ MaxfdHighest)
<1>1. IInv => MaskAgrees /\ MaxfdHighest
  BY DEF IInv
<1>2. QED
  BY <1>1, LoopInvariance, PTL

(* No callback is called that has not been stored (event_wait).             *)
THEOREM CallbacksAreStored == Spec => []CallbackStored
<1>1. IInv => CallbackStored
  BY DEF IInv, CallbackInv
<1>2. QED
  BY <1>1, LoopInvariance, PTL

(* A program that withdraws requests as the manager of main() does is never *)
(* stopped by the check of event_wait() on descriptors.                     *)
THEOREM DescriptorsAreGood == Spec => []NoBadDescriptor
<1>1. IInv => NoBadDescriptor
  BY DEF IInv
<1>2. QED
  BY <1>1, LoopInvariance, PTL
=============================================================================
