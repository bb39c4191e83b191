----------------------- MODULE ThreadsafeQueue_proofs -----------------------
(* Machine-checked safety of okvis::threadsafe::Queue for any number of    *)
(* producers and consumers, any size bound and any number of pushes.       *)
EXTENDS MCThreadsafeQueue, FiniteSetTheorems, TLAPS

(* A signal only ever moves threads to "relock" (besides its caller).      *)
LEMMA SignalEffect ==
  ASSUME TypeOK, NEW t \in Threads, NEW next \in Places,
         NEW place \in {"emptyWait", "fullWait"}, pc[t] # place,
         SignalAndGoto(t, next, place)
  PROVE  /\ pc' \in [Threads -> Places]
         /\ pc'[t] = next
         /\ \/ /\ Waiting(place) = {}
               /\ \A s \in Threads \ {t} : pc'[s] = pc[s]
            \/ \E w \in Waiting(place) :
                 /\ w # t
                 /\ pc'[w] = "relock"
                 /\ \A s \in Threads \ {t, w} : pc'[s] = pc[s]
<1>1. pc \in [Threads -> Places]
  BY DEF TypeOK
<1>2. CASE Waiting(place) = {}
  BY <1>1, <1>2 DEF SignalAndGoto, Places
<1>3. CASE Waiting(place) # {}
  <2>1. PICK w \in Waiting(place) :
          pc' = [pc EXCEPT ![t] = next, ![w] = "relock"]
    BY <1>3 DEF SignalAndGoto
  <2>2. w \in Threads /\ w # t
    BY <2>1 DEF Waiting
  <2> QED
    BY <1>1, <2>1, <2>2 DEF Places
<1> QED
  BY <1>2, <1>3

LEMMA InitTypeOK == Init => TypeOK
<1> SUFFICES ASSUME Init PROVE TypeOK
  OBVIOUS
<1>1. \A p \in Producers : /\ op[p] \in AllPushOps
                           /\ pc[p] = "idle"
  BY DEF Init, Threads, AllPushOps
<1>2. \A c \in Consumers : /\ op[c] \in AllPopOps
                           /\ pc[c] = "idle"
  BY ThreadsAssumption DEF Init, Threads, AllPopOps
<1>3. queue \in Seq(Values) /\ sent \in [Producers -> Nat]
      /\ lastTaken \in [Producers -> Nat]
  BY DEF Init
<1>4. op \in [Threads -> AllPushOps \cup AllPopOps]
  BY DEF Init, AllPushOps, AllPopOps
<1> QED
  BY <1>1, <1>2, <1>3, <1>4 DEF Init, TypeOK, Places

(* The part of the type invariant that speaks of queue and its history.    *)
LEMMA EnqueueTypeOK ==
  ASSUME TypeOK, NEW p \in Producers, NEW before \in Seq(Values),
         pc[p] = "lock", Enqueue(p, before)
  PROVE  TypeOK'
<1>1. <<p, sent[p] + 1>> \in Values /\ sent' \in [Producers -> Nat]
  BY DEF TypeOK, Enqueue, Values
<1>2. queue' \in Seq(Values)
  BY <1>1 DEF Enqueue
<1>3. p \in Threads
  BY DEF Threads
<1>4. SignalAndGoto(p, "idle", "emptyWait")
  BY DEF Enqueue
<1>5. /\ pc' \in [Threads -> Places]
      /\ pc'[p] = "idle"
      /\ \A s \in Threads \ {p} :
           \/ pc'[s] = pc[s]
           \/ pc[s] = "emptyWait" /\ pc'[s] = "relock"
  BY <1>3, <1>4, SignalEffect DEF Waiting, Places
<1>6. UNCHANGED <<shutdown_, op, control, lastTaken>>
  BY DEF Enqueue
<1>7. \A q \in Producers : /\ op'[q] \in AllPushOps
                           /\ pc'[q] # "emptyWait"
                           /\ pc'[q] \in {"fullWait", "relock", "test"}
                                => op'[q] = "PushBlockingIfFull"
  BY <1>5, <1>6 DEF TypeOK, Threads
<1>8. \A c \in Consumers : /\ op'[c] \in AllPopOps
                           /\ pc'[c] # "fullWait"
                           /\ pc'[c] \in {"emptyWait", "relock"}
                                => op'[c] # "PopNonBlocking"
  BY <1>5, <1>6, ThreadsAssumption DEF TypeOK, Threads
<1> QED
  BY <1>1, <1>2, <1>5, <1>6, <1>7, <1>8 DEF TypeOK

LEMMA TakeFrontType ==
  ASSUME TypeOK, TakeFront
  PROVE  /\ queue' \in Seq(Values)
         /\ lastTaken' \in [Producers -> Nat]
         /\ Len(queue) > 0
         /\ Len(queue') = Len(queue) - 1
<1>1. queue \in Seq(Values) /\ queue # <<>> /\ queue' = Tail(queue)
  BY DEF TypeOK, TakeFront
<1>2. Head(queue) \in Values
  BY <1>1
<1>3. lastTaken' \in [Producers -> Nat]
  BY <1>2 DEF TypeOK, TakeFront, Values
<1> QED
  BY <1>1, <1>3

LEMMA DropOldestType ==
  ASSUME TypeOK
  PROVE  /\ DropOldest(queue) \in Seq(Values)
         /\ Len(DropOldest(queue)) <= Len(queue)
         /\ Len(queue) <= Len(DropOldest(queue)) + 1
         /\ Len(queue) <= MaxQueueSize => Len(DropOldest(queue)) < MaxQueueSize
<1>1. queue \in Seq(Values) /\ MaxQueueSize \in Nat \ {0}
  BY SizeAssumption DEF TypeOK
<1>2. CASE Len(queue) >= MaxQueueSize
  <2>1. queue # <<>>
    BY <1>1, <1>2
  <2>2. Tail(queue) \in Seq(Values) /\ Len(Tail(queue)) = Len(queue) - 1
    BY <1>1, <2>1
  <2> QED
    BY <1>1, <1>2, <2>2 DEF DropOldest
<1>3. CASE ~(Len(queue) >= MaxQueueSize)
  <2>1. Len(queue) \in Nat
    BY <1>1
  <2> QED
    BY <1>1, <1>3, <2>1 DEF DropOldest
<1> QED
  BY <1>2, <1>3

-----------------------------------------------------------------------------
LEMMA NextTypeOK == TypeOK /\ [Next]_vars => TypeOK'
<1> SUFFICES ASSUME TypeOK, [Next]_vars
             PROVE  TypeOK'
  OBVIOUS
<1>1. ASSUME NEW p \in Producers, NEW o \in PushOps, PushCall(p, o)
      PROVE  TypeOK'
  BY <1>1, OpsAssumption, ThreadsAssumption
     DEF PushCall, Goto, LoopOps, AllPushOps, AllPopOps, TypeOK, Places,
         Threads
<1>2. ASSUME NEW c \in Consumers, NEW o \in PopOps, PopCall(c, o)
      PROVE  TypeOK'
  BY <1>2, OpsAssumption, ThreadsAssumption
     DEF PopCall, Goto, LoopOps, AllPushOps, AllPopOps, TypeOK, Places,
         Threads
<1>3. ASSUME NEW t \in Threads, TestShutdown(t)
      PROVE  TypeOK'
  BY <1>3 DEF TestShutdown, Goto, TypeOK, Places, Threads
<1>4. ASSUME NEW p \in Producers, PushNonBlocking(p)
      PROVE  TypeOK'
  BY <1>4, EnqueueTypeOK DEF PushNonBlocking, TypeOK
<1>5. ASSUME NEW p \in Producers, PushNonBlockingDroppingIfFull(p)
      PROVE  TypeOK'
  BY <1>5, EnqueueTypeOK, DropOldestType DEF PushNonBlockingDroppingIfFull
<1>6. ASSUME NEW p \in Producers, PushAdmitted(p)
      PROVE  TypeOK'
  BY <1>6, EnqueueTypeOK DEF PushAdmitted, TypeOK
<1>7. ASSUME NEW p \in Producers, PushFull(p)
      PROVE  TypeOK'
  BY <1>7, ThreadsAssumption DEF PushFull, Goto, TypeOK, Places, Threads
<1>8. ASSUME NEW p \in Producers, PushRetry(p)
      PROVE  TypeOK'
  BY <1>8, ThreadsAssumption DEF PushRetry, Goto, TypeOK, Places, Threads
<1>9. ASSUME NEW c \in Consumers, PopReady(c)
      PROVE  TypeOK'
  <2>1. c \in Threads /\ pc[c] # "fullWait" /\ c \notin Producers
    BY ThreadsAssumption DEF Threads, TypeOK
  <2>2. SignalAndGoto(c, "idle", "fullWait") /\ TakeFront
    BY <1>9 DEF PopReady
  <2>3. /\ pc' \in [Threads -> Places]
        /\ pc'[c] = "idle"
        /\ \A s \in Threads \ {c} :
             \/ pc'[s] = pc[s]
             \/ pc[s] = "fullWait" /\ pc'[s] = "relock"
    BY <2>1, <2>2, SignalEffect DEF Waiting, Places
  <2>4. UNCHANGED <<shutdown_, op, control, sent>>
    BY <1>9 DEF PopReady
  <2>5. \A p \in Producers : /\ op'[p] \in AllPushOps
                             /\ pc'[p] # "emptyWait"
                             /\ pc'[p] \in {"fullWait", "relock", "test"}
                                  => op'[p] = "PushBlockingIfFull"
    BY <2>1, <2>3, <2>4 DEF TypeOK, Threads
  <2>6. \A d \in Consumers : /\ op'[d] \in AllPopOps
                             /\ pc'[d] # "fullWait"
                             /\ pc'[d] \in {"emptyWait", "relock"}
                                  => op'[d] # "PopNonBlocking"
    BY <2>3, <2>4 DEF TypeOK, Threads
  <2> QED
    BY <2>2, <2>3, <2>4, <2>5, <2>6, TakeFrontType DEF TypeOK
<1>10. ASSUME NEW c \in Consumers, PopEmpty(c)
       PROVE  TypeOK'
  BY <1>10, ThreadsAssumption DEF PopEmpty, Goto, TypeOK, Places, Threads
<1>11. ASSUME NEW c \in Consumers, PopStillEmpty(c)
       PROVE  TypeOK'
  BY <1>11, ThreadsAssumption
     DEF PopStillEmpty, Goto, TypeOK, Places, Threads, LoopOps
<1>12. ASSUME NEW c \in Consumers, PopNonBlocking(c)
       PROVE  TypeOK'
  <2>1. queue' \in Seq(Values) /\ lastTaken' \in [Producers -> Nat]
    BY <1>12, TakeFrontType DEF PopNonBlocking, TypeOK
  <2> QED
    BY <1>12, <2>1, ThreadsAssumption
       DEF PopNonBlocking, Goto, TypeOK, Places, Threads
<1>13. ASSUME NEW c \in Consumers, CopyFront(c)
       PROVE  TypeOK'
  BY <1>13, ThreadsAssumption DEF CopyFront, Goto, TypeOK, Places, Threads
<1>14. ASSUME NEW c \in Consumers, TimeOut(c)
       PROVE  TypeOK'
  BY <1>14, ThreadsAssumption DEF TimeOut, Goto, TypeOK, Places, Threads
<1>15. ASSUME NEW t \in Threads, SpuriousWakeup(t)
       PROVE  TypeOK'
  BY <1>15, ThreadsAssumption
     DEF SpuriousWakeup, Goto, TypeOK, Places, Threads
<1>16. ASSUME NotifyAllEmpty
       PROVE  TypeOK'
  BY <1>16, ThreadsAssumption
     DEF NotifyAllEmpty, Broadcast, TypeOK, Places, Threads
<1>17. ASSUME NotifyAllFull
       PROVE  TypeOK'
  BY <1>17, ThreadsAssumption
     DEF NotifyAllFull, Broadcast, TypeOK, Places, Threads
<1>18. ASSUME NEW o \in ControlOps, SetShutdownFlag(o)
       PROVE  TypeOK'
  BY <1>18 DEF SetShutdownFlag, TypeOK
<1>19. CASE UNCHANGED vars
  BY <1>19 DEF vars, TypeOK
<1> QED
  BY <1>1, <1>2, <1>3, <1>4, <1>5, <1>6, <1>7, <1>8, <1>9, <1>10, <1>11,
     <1>12, <1>13, <1>14, <1>15, <1>16, <1>17, <1>18, <1>19
     DEF Next, ProducerStep, ConsumerStep, ControlStep, Threads

(* Every variable keeps its type, and a thread only ever sleeps on the     *)
(* condition that belongs to the operation it is in.                       *)
THEOREM TypeCorrect == Spec => []TypeOK
<1>1. Init => TypeOK
  BY InitTypeOK
<1>2. TypeOK /\ [Next]_vars => TypeOK'
  BY NextTypeOK
<1> QED
  BY <1>1, <1>2, PTL DEF Spec

-----------------------------------------------------------------------------
(* Inside a call, a thread runs an operation its side of the program uses. *)
OpsCalled ==
  /\ \A p \in Producers : pc[p] # "idle" => op[p] \in PushOps
  /\ \A c \in Consumers : pc[c] # "idle" => op[c] \in PopOps

LEMMA SignalKeepsIdle ==
  ASSUME TypeOK, NEW t \in Threads, pc[t] # "idle",
         NEW place \in {"emptyWait", "fullWait"},
         SignalAndGoto(t, "idle", place)
  PROVE  \A s \in Threads : pc'[s] # "idle" => pc[s] # "idle"
BY DEF SignalAndGoto, Waiting, TypeOK

LEMMA InCallUnlessCalled ==
  ASSUME TypeOK, [Next]_vars
  PROVE  \/ \E p \in Producers, o \in PushOps : PushCall(p, o)
         \/ \E c \in Consumers, o \in PopOps : PopCall(c, o)
         \/ /\ op' = op
            /\ \A s \in Threads : pc'[s] # "idle" => pc[s] # "idle"
<1> DEFINE Goal == /\ op' = op
                   /\ \A s \in Threads : pc'[s] # "idle" => pc[s] # "idle"
<1>1. ASSUME NEW p \in Producers, ProducerStep(p)
      PROVE  Goal
  <2>1. p \in Threads
    BY DEF Threads
  <2>2. CASE TestShutdown(p) \/ PushFull(p) \/ PushRetry(p)
    BY <2>1, <2>2 DEF TestShutdown, PushFull, PushRetry, Goto, TypeOK
  <2>3. CASE \/ PushNonBlocking(p)
             \/ PushNonBlockingDroppingIfFull(p)
             \/ PushAdmitted(p)
    <3>1. SignalAndGoto(p, "idle", "emptyWait") /\ op' = op /\ pc[p] # "idle"
      BY <2>3 DEF PushNonBlocking, PushNonBlockingDroppingIfFull,
                  PushAdmitted, Enqueue
    <3> QED
      BY <2>1, <3>1, SignalKeepsIdle
  <2> QED
    BY <1>1, <2>2, <2>3 DEF ProducerStep
<1>2. ASSUME NEW c \in Consumers, ConsumerStep(c)
      PROVE  Goal
  <2>1. c \in Threads
    BY DEF Threads
  <2>2. CASE PopReady(c)
    <3>1. SignalAndGoto(c, "idle", "fullWait") /\ op' = op /\ pc[c] # "idle"
      BY <2>2 DEF PopReady
    <3> QED
      BY <2>1, <3>1, SignalKeepsIdle
  <2>3. CASE \/ TestShutdown(c) \/ PopEmpty(c) \/ PopStillEmpty(c)
             \/ PopNonBlocking(c) \/ CopyFront(c) \/ TimeOut(c)
    BY <2>1, <2>3 DEF TestShutdown, PopEmpty, PopStillEmpty, PopNonBlocking,
                      CopyFront, TimeOut, Goto, TypeOK
  <2> QED
    BY <1>2, <2>2, <2>3 DEF ConsumerStep
<1>3. ASSUME NEW t \in Threads, SpuriousWakeup(t)
      PROVE  Goal
  BY <1>3 DEF SpuriousWakeup, Goto, TypeOK
<1>4. CASE ControlStep
  BY <1>4 DEF ControlStep, NotifyAllEmpty, NotifyAllFull, Broadcast, TypeOK
<1>5. ASSUME NEW o \in ControlOps, SetShutdownFlag(o)
      PROVE  Goal
  BY <1>5 DEF SetShutdownFlag
<1>6. CASE UNCHANGED vars
  BY <1>6 DEF vars
<1> QED
  BY <1>1, <1>2, <1>3, <1>4, <1>5, <1>6 DEF Next

LEMMA OpsCalledInvariant == Spec => []OpsCalled
<1>1. Init => OpsCalled
  BY DEF Init, OpsCalled, Threads
<1>2. TypeOK /\ OpsCalled /\ [Next]_vars => OpsCalled'
  <2> SUFFICES ASSUME TypeOK, OpsCalled, [Next]_vars
               PROVE  OpsCalled'
    OBVIOUS
  <2>1. ASSUME NEW p \in Producers, NEW o \in PushOps, PushCall(p, o)
        PROVE  OpsCalled'
    BY <2>1, ThreadsAssumption
       DEF PushCall, Goto, OpsCalled, TypeOK, Threads
  <2>2. ASSUME NEW c \in Consumers, NEW o \in PopOps, PopCall(c, o)
        PROVE  OpsCalled'
    BY <2>2, ThreadsAssumption
       DEF PopCall, Goto, OpsCalled, TypeOK, Threads
  <2> QED
    BY <2>1, <2>2, InCallUnlessCalled DEF OpsCalled, Threads
<1> QED
  BY <1>1, <1>2, TypeCorrect, PTL DEF Spec

-----------------------------------------------------------------------------
(* How a step changes the number of values.                                *)
LEMMA EnqueueLength ==
  ASSUME TypeOK, NEW p \in Producers, NEW before \in Seq(Values),
         Enqueue(p, before)
  PROVE  Len(queue') = Len(before) + 1
<1>1. <<p, sent[p] + 1>> \in Values
  BY DEF TypeOK, Values
<1> QED
  BY <1>1 DEF Enqueue

(* With the bounded pushes only, the queue never outgrows max_queue_size: a *)
(* producer that was woken looks at the size again before it pushes.       *)
THEOREM SizeNeverExceeded ==
  ASSUME "PushNonBlocking" \notin PushOps
  PROVE  Spec => []SizeBounded
<1>1. Init => SizeBounded
  BY SizeAssumption DEF Init, SizeBounded
<1>2. TypeOK /\ OpsCalled /\ SizeBounded /\ [Next]_vars => SizeBounded'
  <2> SUFFICES ASSUME TypeOK, OpsCalled, SizeBounded, [Next]_vars
               PROVE  SizeBounded'
    OBVIOUS
  <2>1. /\ queue \in Seq(Values) /\ Len(queue) \in Nat
        /\ MaxQueueSize \in Nat \ {0}
    BY SizeAssumption DEF TypeOK
  <2>2. ASSUME queue' = queue
        PROVE  SizeBounded'
    BY <2>2 DEF SizeBounded
  <2>3. ASSUME TakeFront
        PROVE  SizeBounded'
    BY <2>1, <2>3, TakeFrontType DEF SizeBounded
  <2>4. ASSUME NEW p \in Producers, ProducerStep(p)
        PROVE  SizeBounded'
    <3>1. CASE PushNonBlocking(p)
      BY <3>1 DEF PushNonBlocking, OpsCalled
    <3>2. CASE PushNonBlockingDroppingIfFull(p)
      <4>1. Len(queue') = Len(DropOldest(queue)) + 1
        BY <3>2, EnqueueLength, DropOldestType
           DEF PushNonBlockingDroppingIfFull
      <4>2. /\ Len(DropOldest(queue)) < MaxQueueSize
            /\ Len(DropOldest(queue)) \in Nat
        BY DropOldestType DEF SizeBounded
      <4> QED
        BY <2>1, <4>1, <4>2 DEF SizeBounded
    <3>3. CASE PushAdmitted(p)
      <4>1. Len(queue') = Len(queue) + 1
        BY <2>1, <3>3, EnqueueLength DEF PushAdmitted
      <4> QED
        BY <2>1, <3>3, <4>1 DEF PushAdmitted, SizeBounded
    <3>4. CASE TestShutdown(p) \/ PushFull(p) \/ PushRetry(p)
      BY <2>2, <3>4 DEF TestShutdown, PushFull, PushRetry
    <3> QED
      BY <2>4, <3>1, <3>2, <3>3, <3>4 DEF ProducerStep
  <2>5. ASSUME NEW c \in Consumers, ConsumerStep(c)
        PROVE  SizeBounded'
    BY <2>2, <2>3, <2>5
       DEF ConsumerStep, TestShutdown, PopReady, PopEmpty, PopStillEmpty,
           PopNonBlocking, CopyFront, TimeOut
  <2>6. ASSUME NEW p \in Producers, NEW o \in PushOps, PushCall(p, o)
        PROVE  SizeBounded'
    BY <2>2, <2>6 DEF PushCall
  <2>7. ASSUME NEW c \in Consumers, NEW o \in PopOps, PopCall(c, o)
        PROVE  SizeBounded'
    BY <2>2, <2>7 DEF PopCall
  <2>8. ASSUME NEW t \in Threads, SpuriousWakeup(t)
        PROVE  SizeBounded'
    BY <2>2, <2>8 DEF SpuriousWakeup
  <2>9. CASE ControlStep \/ (\E o \in ControlOps : SetShutdownFlag(o))
    BY <2>2, <2>9
       DEF ControlStep, NotifyAllEmpty, NotifyAllFull, SetShutdownFlag
  <2>10. CASE UNCHANGED vars
    BY <2>2, <2>10 DEF vars
  <2> QED
    BY <2>4, <2>5, <2>6, <2>7, <2>8, <2>9, <2>10 DEF Next
<1> QED
  BY <1>1, <1>2, TypeCorrect, OpsCalledInvariant, PTL DEF Spec

-----------------------------------------------------------------------------
(* Arithmetic of the sets of threads the wake-up invariants count.         *)
LEMMA CountGrows ==
  ASSUME NEW S, NEW T, NEW x, IsFiniteSet(T), S \subseteq T, x \in T, x \notin S
  PROVE  Cardinality(S) + 1 <= Cardinality(T)
<1>1. IsFiniteSet(S) /\ Cardinality(S) \in Nat /\ Cardinality(T) \in Nat
  BY FS_Subset, FS_CardinalityType
<1>2. Cardinality(S \cup {x}) = Cardinality(S) + 1
  BY <1>1, FS_AddElement
<1>3. Cardinality(S \cup {x}) <= Cardinality(T)
  BY FS_Subset, S \cup {x} \in SUBSET T
<1> QED
  BY <1>1, <1>2, <1>3

LEMMA CountShrinks ==
  ASSUME NEW S, NEW T, NEW x, IsFiniteSet(S), IsFiniteSet(T),
         S \ {x} \subseteq T
  PROVE  Cardinality(S) <= Cardinality(T) + 1
<1>1. /\ Cardinality(S) \in Nat /\ Cardinality(T) \in Nat
      /\ IsFiniteSet(S \ {x}) /\ Cardinality(S \ {x}) \in Nat
  BY FS_CardinalityType, FS_RemoveElement
<1>2. Cardinality(S) <= Cardinality(S \ {x}) + 1
  BY <1>1, FS_RemoveElement
<1>3. Cardinality(S \ {x}) <= Cardinality(T)
  BY FS_Subset, S \ {x} \in SUBSET T
<1> QED
  BY <1>1, <1>2, <1>3

LEMMA ThreadSetsFinite ==
  /\ IsFiniteSet(WokenConsumers) /\ IsFiniteSet(WokenConsumers')
  /\ IsFiniteSet(ActiveProducers) /\ IsFiniteSet(ActiveProducers')
  /\ Cardinality(WokenConsumers) \in Nat /\ Cardinality(WokenConsumers') \in Nat
  /\ Cardinality(ActiveProducers) \in Nat /\ Cardinality(ActiveProducers') \in Nat
<1>1. /\ WokenConsumers \in SUBSET Consumers
      /\ WokenConsumers' \in SUBSET Consumers
      /\ ActiveProducers \in SUBSET Producers
      /\ ActiveProducers' \in SUBSET Producers
  BY DEF WokenConsumers, ActiveProducers
<1>2. /\ IsFiniteSet(WokenConsumers) /\ IsFiniteSet(WokenConsumers')
      /\ IsFiniteSet(ActiveProducers) /\ IsFiniteSet(ActiveProducers')
  BY <1>1, ThreadsAssumption, FS_Subset
<1> QED
  BY <1>2, FS_CardinalityType

-----------------------------------------------------------------------------
(* Steps that cannot lose a wake-up of a consumer.                         *)
LEMMA EmptyWakeupKept ==
  ASSUME TypeOK, queue' \in Seq(Values), NoLostEmptyWakeup,
         \/ queue' = <<>>
         \/ /\ Len(queue') <= Len(queue)
            /\ WokenConsumers \subseteq WokenConsumers'
            /\ Waiting("emptyWait")' \subseteq Waiting("emptyWait")
  PROVE  NoLostEmptyWakeup'
<1>1. Len(queue) \in Nat /\ Len(queue') \in Nat
  BY DEF TypeOK
<1>2. CASE queue' = <<>>
  <2>1. Len(queue') = 0
    BY <1>2
  <2> QED
    BY <2>1, ThreadSetsFinite DEF NoLostEmptyWakeup
<1>3. CASE /\ Len(queue') <= Len(queue)
           /\ WokenConsumers \subseteq WokenConsumers'
           /\ Waiting("emptyWait")' \subseteq Waiting("emptyWait")
  <2>1. Cardinality(WokenConsumers) <= Cardinality(WokenConsumers')
    BY <1>3, ThreadSetsFinite, FS_Subset
  <2> QED
    BY <1>1, <1>3, <2>1, ThreadSetsFinite DEF NoLostEmptyWakeup
<1> QED
  BY <1>2, <1>3

LEMMA EnqueueWakesConsumer ==
  ASSUME TypeOK, NoLostEmptyWakeup, NEW p \in Producers, pc[p] = "lock",
         NEW before \in Seq(Values), Len(before) <= Len(queue),
         Enqueue(p, before)
  PROVE  NoLostEmptyWakeup'
<1>1. /\ Len(queue) \in Nat /\ Len(before) \in Nat
      /\ Len(queue') = Len(before) + 1
  BY EnqueueLength DEF TypeOK
<1>2. p \in Threads /\ p \notin Consumers /\ SignalAndGoto(p, "idle", "emptyWait")
  BY ThreadsAssumption DEF Threads, Enqueue
<1>3. CASE /\ Waiting("emptyWait") = {}
           /\ \A s \in Threads \ {p} : pc'[s] = pc[s]
           /\ pc'[p] = "idle"
  <2>1. Waiting("emptyWait")' = {}
    BY <1>3 DEF Waiting
  <2> QED
    BY <2>1 DEF NoLostEmptyWakeup
<1>4. ASSUME NEW w \in Waiting("emptyWait"), w # p, pc'[w] = "relock",
             \A s \in Threads \ {p, w} : pc'[s] = pc[s]
      PROVE  NoLostEmptyWakeup'
  <2>1. w \in Consumers /\ pc[w] = "emptyWait"
    BY DEF Waiting, Threads, TypeOK
  <2>2. WokenConsumers \subseteq WokenConsumers'
    BY <1>2, <1>4, <2>1 DEF WokenConsumers, Threads
  <2>3. w \in WokenConsumers' /\ w \notin WokenConsumers
    BY <1>4, <2>1 DEF WokenConsumers
  <2>4. Cardinality(WokenConsumers) + 1 <= Cardinality(WokenConsumers')
    BY <2>2, <2>3, ThreadSetsFinite, CountGrows
  <2>5. Len(queue) <= Cardinality(WokenConsumers)
    BY <1>4 DEF NoLostEmptyWakeup
  <2> QED
    BY <1>1, <2>4, <2>5, ThreadSetsFinite DEF NoLostEmptyWakeup
<1> QED
  BY <1>2, <1>3, <1>4, SignalEffect DEF Places

LEMMA PopKeepsEmptyWakeup ==
  ASSUME TypeOK, NoLostEmptyWakeup, NEW c \in Consumers, PopReady(c)
  PROVE  NoLostEmptyWakeup'
<1>1. /\ Len(queue) \in Nat /\ Len(queue') \in Nat
      /\ Len(queue') = Len(queue) - 1
  BY TakeFrontType DEF TypeOK, PopReady
<1>2. /\ c \in Threads /\ pc[c] # "fullWait"
      /\ SignalAndGoto(c, "idle", "fullWait")
  BY DEF Threads, PopReady, TypeOK
<1>3. /\ pc'[c] = "idle"
      /\ \A s \in Threads \ {c} :
           pc'[s] = pc[s] \/ (pc[s] = "fullWait" /\ pc'[s] = "relock")
  BY <1>2, SignalEffect DEF Places, Waiting
<1>4. Waiting("emptyWait")' \subseteq Waiting("emptyWait")
  BY <1>3 DEF Waiting
<1>5. WokenConsumers \ {c} \subseteq WokenConsumers'
  BY <1>3 DEF WokenConsumers, Threads
<1>6. Cardinality(WokenConsumers) <= Cardinality(WokenConsumers') + 1
  BY <1>5, ThreadSetsFinite, CountShrinks
<1> QED
  BY <1>1, <1>4, <1>6, ThreadSetsFinite DEF NoLostEmptyWakeup

(* A sleeping consumer is never left with a value that nobody has been woken *)
(* for, as long as every woken consumer pops (getCopyOfFrontBlocking, which *)
(* uses up a signal and leaves the value, is not called).                  *)
THEOREM EmptyWakeupNeverLost ==
  ASSUME "getCopyOfFrontBlocking" \notin PopOps
  PROVE  Spec => []NoLostEmptyWakeup
<1>1. Init => NoLostEmptyWakeup
  BY DEF Init, NoLostEmptyWakeup, Waiting
<1>2. TypeOK /\ TypeOK' /\ OpsCalled /\ NoLostEmptyWakeup /\ [Next]_vars
        => NoLostEmptyWakeup'
  <2> SUFFICES ASSUME TypeOK, TypeOK', OpsCalled, NoLostEmptyWakeup,
                      [Next]_vars
               PROVE  NoLostEmptyWakeup'
    OBVIOUS
  <2>1. queue \in Seq(Values) /\ queue' \in Seq(Values) /\ Len(queue) \in Nat
    BY DEF TypeOK
  <2>2. ASSUME Len(queue') <= Len(queue),
               \A t \in Threads :
                  /\ pc[t] = "relock" /\ t \in Consumers => pc'[t] = "relock"
                  /\ pc'[t] = "emptyWait" => pc[t] = "emptyWait"
        PROVE  NoLostEmptyWakeup'
    BY <2>1, <2>2, EmptyWakeupKept DEF WokenConsumers, Waiting, Threads
  <2>3. ASSUME NEW p \in Producers, ProducerStep(p)
        PROVE  NoLostEmptyWakeup'
    <3>1. CASE TestShutdown(p) \/ PushFull(p) \/ PushRetry(p)
      BY <2>1, <2>2, <3>1, ThreadsAssumption
         DEF TestShutdown, PushFull, PushRetry, Goto, TypeOK, Threads
    <3>2. CASE PushNonBlocking(p)
      BY <2>1, <3>2, EnqueueWakesConsumer DEF PushNonBlocking
    <3>3. CASE PushNonBlockingDroppingIfFull(p)
      BY <3>3, DropOldestType, EnqueueWakesConsumer
         DEF PushNonBlockingDroppingIfFull
    <3>4. CASE PushAdmitted(p)
      BY <2>1, <3>4, EnqueueWakesConsumer DEF PushAdmitted
    <3> QED
      BY <2>3, <3>1, <3>2, <3>3, <3>4 DEF ProducerStep
  <2>4. ASSUME NEW c \in Consumers, ConsumerStep(c)
        PROVE  NoLostEmptyWakeup'
    <3>1. CASE TestShutdown(c) \/ TimeOut(c)
      BY <2>1, <2>2, <3>1 DEF TestShutdown, TimeOut, Goto, TypeOK, Threads
    <3>2. CASE PopReady(c)
      BY <3>2, PopKeepsEmptyWakeup
    <3>3. CASE PopEmpty(c) \/ PopStillEmpty(c)
      BY <2>1, <3>3, EmptyWakeupKept DEF PopEmpty, PopStillEmpty
    <3>4. CASE PopNonBlocking(c)
      <4>1. Len(queue') <= Len(queue)
        BY <2>1, <3>4, TakeFrontType DEF PopNonBlocking
      <4>2. pc[c] = "lock" /\ Goto(c, "idle")
        BY <3>4 DEF PopNonBlocking
      <4> QED
        BY <2>2, <4>1, <4>2 DEF Goto, TypeOK, Threads
    <3>5. CASE CopyFront(c)
      BY <3>5 DEF CopyFront, OpsCalled
    <3> QED
      BY <2>4, <3>1, <3>2, <3>3, <3>4, <3>5 DEF ConsumerStep
  <2>5. ASSUME NEW p \in Producers, NEW o \in PushOps, PushCall(p, o)
        PROVE  NoLostEmptyWakeup'
    BY <2>1, <2>2, <2>5 DEF PushCall, Goto, TypeOK, Threads
  <2>6. ASSUME NEW c \in Consumers, NEW o \in PopOps, PopCall(c, o)
        PROVE  NoLostEmptyWakeup'
    BY <2>1, <2>2, <2>6 DEF PopCall, Goto, TypeOK, Threads
  <2>7. ASSUME NEW t \in Threads, SpuriousWakeup(t)
        PROVE  NoLostEmptyWakeup'
    BY <2>1, <2>2, <2>7 DEF SpuriousWakeup, Goto, TypeOK
  <2>8. CASE ControlStep
    BY <2>1, <2>2, <2>8
       DEF ControlStep, NotifyAllEmpty, NotifyAllFull, Broadcast
  <2>9. ASSUME NEW o \in ControlOps, SetShutdownFlag(o)
        PROVE  NoLostEmptyWakeup'
    BY <2>1, <2>2, <2>9 DEF SetShutdownFlag
  <2>10. CASE UNCHANGED vars
    BY <2>1, <2>2, <2>10 DEF vars
  <2> QED
    BY <2>3, <2>4, <2>5, <2>6, <2>7, <2>8, <2>9, <2>10 DEF Next
<1> QED
  BY <1>1, <1>2, TypeCorrect, OpsCalledInvariant, PTL DEF Spec

-----------------------------------------------------------------------------
(* Steps that cannot lose a wake-up of a producer.                         *)
LEMMA FullWakeupKept ==
  ASSUME TypeOK, queue' \in Seq(Values), NoLostFullWakeup,
         Len(queue') >= Len(queue), shutdown_' = shutdown_,
         ActiveProducers \subseteq ActiveProducers',
         Waiting("fullWait")' \subseteq Waiting("fullWait")
  PROVE  NoLostFullWakeup'
<1>1. Len(queue) \in Nat /\ Len(queue') \in Nat /\ MaxQueueSize \in Nat
  BY SizeAssumption DEF TypeOK
<1>2. Cardinality(ActiveProducers) <= Cardinality(ActiveProducers')
  BY ThreadSetsFinite, FS_Subset
<1> QED
  BY <1>1, <1>2, ThreadSetsFinite DEF NoLostFullWakeup

(* A pop frees one slot and wakes one sleeping producer for it.            *)
LEMMA PopWakesProducer ==
  ASSUME TypeOK, NoLostFullWakeup, NEW c \in Consumers, PopReady(c)
  PROVE  NoLostFullWakeup'
<1>1. /\ Len(queue) \in Nat /\ Len(queue') \in Nat /\ MaxQueueSize \in Nat
      /\ Len(queue') = Len(queue) - 1
  BY TakeFrontType, SizeAssumption DEF TypeOK, PopReady
<1>2. /\ c \in Threads /\ c \notin Producers /\ pc[c] # "fullWait"
      /\ SignalAndGoto(c, "idle", "fullWait")
  BY ThreadsAssumption DEF Threads, PopReady, TypeOK
<1>3. op' = op /\ shutdown_' = shutdown_
  BY DEF PopReady
<1>4. CASE /\ Waiting("fullWait") = {}
           /\ \A s \in Threads \ {c} : pc'[s] = pc[s]
           /\ pc'[c] = "idle"
  <2>1. Waiting("fullWait")' = {}
    BY <1>4 DEF Waiting
  <2> QED
    BY <2>1 DEF NoLostFullWakeup
<1>5. ASSUME NEW w \in Waiting("fullWait"), w # c, pc'[w] = "relock",
             \A s \in Threads \ {c, w} : pc'[s] = pc[s]
      PROVE  NoLostFullWakeup'
  <2>1. /\ w \in Producers /\ pc[w] = "fullWait"
        /\ op[w] = "PushBlockingIfFull"
    BY DEF Waiting, Threads, TypeOK
  <2>2. ActiveProducers \subseteq ActiveProducers'
    BY <1>2, <1>3, <1>5, <2>1 DEF ActiveProducers, Threads
  <2>3. w \in ActiveProducers' /\ w \notin ActiveProducers
    BY <1>3, <1>5, <2>1 DEF ActiveProducers
  <2>4. Cardinality(ActiveProducers) + 1 <= Cardinality(ActiveProducers')
    BY <2>2, <2>3, ThreadSetsFinite, CountGrows
  <2> QED
    BY <1>1, <1>3, <1>5, <2>4, ThreadSetsFinite DEF NoLostFullWakeup
<1> QED
  BY <1>2, <1>4, <1>5, SignalEffect DEF Places

(* An admitted push takes one slot and one active producer away.           *)
LEMMA PushKeepsFullWakeup ==
  ASSUME TypeOK, NoLostFullWakeup, NEW p \in Producers, PushAdmitted(p)
  PROVE  NoLostFullWakeup'
<1>1. /\ Len(queue) \in Nat /\ Len(queue') \in Nat /\ MaxQueueSize \in Nat
      /\ Len(queue') = Len(queue) + 1
  BY EnqueueLength, SizeAssumption DEF TypeOK, PushAdmitted
<1>2. /\ p \in Threads /\ pc[p] = "lock" /\ op' = op /\ shutdown_' = shutdown_
      /\ SignalAndGoto(p, "idle", "emptyWait")
  BY DEF Threads, PushAdmitted, Enqueue
<1>3. /\ pc'[p] = "idle"
      /\ \A s \in Threads \ {p} :
           pc'[s] = pc[s] \/ (pc[s] = "emptyWait" /\ pc'[s] = "relock")
  BY <1>2, SignalEffect DEF Places, Waiting
<1>4. Waiting("fullWait")' \subseteq Waiting("fullWait")
  BY <1>3 DEF Waiting
<1>5. ActiveProducers \ {p} \subseteq ActiveProducers'
  BY <1>2, <1>3 DEF ActiveProducers, Threads, TypeOK
<1>6. Cardinality(ActiveProducers) <= Cardinality(ActiveProducers') + 1
  BY <1>5, ThreadSetsFinite, CountShrinks
<1> QED
  BY <1>1, <1>2, <1>4, <1>6, ThreadSetsFinite DEF NoLostFullWakeup

(* A non-blocking push does not lengthen the wait of a sleeping producer.  *)
LEMMA OtherPushKeepsFullWakeup ==
  ASSUME TypeOK, NoLostFullWakeup, NEW p \in Producers, pc[p] = "lock",
         op[p] # "PushBlockingIfFull", NEW before \in Seq(Values),
         Len(queue) <= Len(before) + 1, Enqueue(p, before)
  PROVE  NoLostFullWakeup'
<1>1. /\ Len(queue) \in Nat /\ Len(queue') \in Nat
      /\ Len(queue') = Len(before) + 1
  BY EnqueueLength DEF TypeOK, Enqueue
<1>2. queue' \in Seq(Values)
  BY DEF Enqueue, TypeOK, Values
<1>3. /\ p \in Threads /\ op' = op /\ shutdown_' = shutdown_
      /\ SignalAndGoto(p, "idle", "emptyWait")
  BY DEF Threads, Enqueue
<1>4. /\ pc'[p] = "idle"
      /\ \A s \in Threads \ {p} :
           pc'[s] = pc[s] \/ (pc[s] = "emptyWait" /\ pc'[s] = "relock")
  BY <1>3, SignalEffect DEF Places, Waiting
<1>5. Waiting("fullWait")' \subseteq Waiting("fullWait")
  BY <1>4 DEF Waiting
<1>6. ActiveProducers \subseteq ActiveProducers'
  BY <1>3, <1>4 DEF ActiveProducers, Threads, TypeOK
<1> QED
  BY <1>1, <1>2, <1>3, <1>5, <1>6, FullWakeupKept

(* A sleeping producer is never left with a free slot that nobody is on the *)
(* way to: every value is popped by PopBlocking or PopTimeout, which signal *)
(* condition_full_, and the flag is not taken back by Resume.              *)
THEOREM FullWakeupNeverLost ==
  ASSUME "PopNonBlocking" \notin PopOps, "Resume" \notin ControlOps
  PROVE  Spec => []NoLostFullWakeup
<1>1. Init => NoLostFullWakeup
  BY DEF Init, NoLostFullWakeup, Waiting
<1>2. TypeOK /\ TypeOK' /\ OpsCalled /\ NoLostFullWakeup /\ [Next]_vars
        => NoLostFullWakeup'
  <2> SUFFICES ASSUME TypeOK, TypeOK', OpsCalled, NoLostFullWakeup,
                      [Next]_vars
               PROVE  NoLostFullWakeup'
    OBVIOUS
  <2>1. /\ queue \in Seq(Values) /\ queue' \in Seq(Values)
        /\ Len(queue) \in Nat /\ MaxQueueSize \in Nat
    BY SizeAssumption DEF TypeOK
  <2>2. ASSUME queue' = queue, shutdown_' = shutdown_,
               \A p \in Producers :
                  p \in ActiveProducers => p \in ActiveProducers',
               \A t \in Threads : pc'[t] = "fullWait" => pc[t] = "fullWait"
        PROVE  NoLostFullWakeup'
    <3>1. /\ ActiveProducers \subseteq ActiveProducers'
          /\ Waiting("fullWait")' \subseteq Waiting("fullWait")
      BY <2>2 DEF ActiveProducers, Waiting
    <3> QED
      BY <2>1, <2>2, <3>1, FullWakeupKept
  <2>3. ASSUME NEW t \in Threads, TestShutdown(t)
        PROVE  NoLostFullWakeup'
    <3>1. CASE shutdown_
      BY <2>3, <3>1 DEF TestShutdown, NoLostFullWakeup
    <3>2. CASE ~shutdown_
      BY <2>2, <2>3, <3>2
         DEF TestShutdown, Goto, TypeOK, Threads, ActiveProducers
    <3> QED
      BY <3>1, <3>2
  <2>4. ASSUME NEW p \in Producers, ProducerStep(p)
        PROVE  NoLostFullWakeup'
    <3>1. p \in Threads
      BY DEF Threads
    <3>2. CASE TestShutdown(p)
      BY <2>3, <3>1, <3>2
    <3>3. CASE PushNonBlocking(p)
      BY <2>1, <3>3, OtherPushKeepsFullWakeup DEF PushNonBlocking
    <3>4. CASE PushNonBlockingDroppingIfFull(p)
      BY <3>4, DropOldestType, OtherPushKeepsFullWakeup
         DEF PushNonBlockingDroppingIfFull
    <3>5. CASE PushAdmitted(p)
      BY <3>5, PushKeepsFullWakeup
    <3>6. CASE PushFull(p)
      <4>1. MaxQueueSize - Len(queue') <= 0
        BY <2>1, <3>6 DEF PushFull
      <4> QED
        BY <2>1, <4>1, ThreadSetsFinite DEF NoLostFullWakeup
    <3>7. CASE PushRetry(p)
      BY <2>2, <3>7 DEF PushRetry, Goto, TypeOK, Threads, ActiveProducers
    <3> QED
      BY <2>4, <3>2, <3>3, <3>4, <3>5, <3>6, <3>7 DEF ProducerStep
  <2>5. ASSUME NEW c \in Consumers, ConsumerStep(c)
        PROVE  NoLostFullWakeup'
    <3>1. c \in Threads /\ c \notin Producers
      BY ThreadsAssumption DEF Threads
    <3>2. CASE TestShutdown(c)
      BY <2>3, <3>1, <3>2
    <3>3. CASE PopReady(c)
      BY <3>3, PopWakesProducer
    <3>4. CASE PopEmpty(c) \/ PopStillEmpty(c) \/ CopyFront(c) \/ TimeOut(c)
      BY <2>2, <3>1, <3>4
         DEF PopEmpty, PopStillEmpty, CopyFront, TimeOut, Goto, TypeOK,
             Threads, ActiveProducers
    <3>5. CASE PopNonBlocking(c)
      BY <3>5 DEF PopNonBlocking, OpsCalled
    <3> QED
      BY <2>5, <3>2, <3>3, <3>4, <3>5 DEF ConsumerStep
  <2>6. ASSUME NEW p \in Producers, NEW o \in PushOps, PushCall(p, o)
        PROVE  NoLostFullWakeup'
    BY <2>2, <2>6 DEF PushCall, Goto, TypeOK, Threads, ActiveProducers
  <2>7. ASSUME NEW c \in Consumers, NEW o \in PopOps, PopCall(c, o)
        PROVE  NoLostFullWakeup'
    BY <2>2, <2>7, ThreadsAssumption
       DEF PopCall, Goto, TypeOK, Threads, ActiveProducers
  <2>8. ASSUME NEW t \in Threads, SpuriousWakeup(t)
        PROVE  NoLostFullWakeup'
    BY <2>2, <2>8 DEF SpuriousWakeup, Goto, TypeOK, Threads, ActiveProducers
  <2>9. CASE ControlStep
    BY <2>2, <2>9
       DEF ControlStep, NotifyAllEmpty, NotifyAllFull, Broadcast,
           ActiveProducers, Threads
  <2>10. ASSUME NEW o \in ControlOps, SetShutdownFlag(o)
         PROVE  NoLostFullWakeup'
    BY <2>10, OpsAssumption DEF SetShutdownFlag, NoLostFullWakeup
  <2>11. CASE UNCHANGED vars
    BY <2>2, <2>11 DEF vars, ActiveProducers
  <2> QED
    BY <2>4, <2>5, <2>6, <2>7, <2>8, <2>9, <2>10, <2>11 DEF Next
<1> QED
  BY <1>1, <1>2, TypeCorrect, OpsCalledInvariant, PTL DEF Spec

-----------------------------------------------------------------------------
(* What is in q of producer p: the numbers gone + 1 .. newest, in order.   *)
InRun(q, p, gone, newest) ==
  /\ \A i, j \in DOMAIN q :
       q[i][1] = p /\ q[j][1] = p /\ i < j => q[i][2] < q[j][2]
  /\ \A i \in DOMAIN q : q[i][1] = p => q[i][2] \in gone + 1 .. newest
  /\ \A n \in gone + 1 .. newest :
       \E i \in DOMAIN q : q[i][1] = p /\ q[i][2] = n

Delivered(p) ==
  \E gone \in lastTaken[p] .. sent[p] :
    /\ InRun(queue, p, gone, sent[p])
    /\ "PushNonBlockingDroppingIfFull" \notin PushOps => gone = lastTaken[p]

(* The property, producer by producer.                                       *)
LEMMA DeliveredIs ==
  ASSUME TypeOK
  PROVE  DeliveredInOrder <=> \A p \in Producers : Delivered(p)
<1>1. /\ queue \in Seq(Values)
      /\ \A p \in Producers : sent[p] \in Nat /\ lastTaken[p] \in Nat
  BY DEF TypeOK
<1>2. ASSUME NEW p \in Producers, NEW gone \in Nat
      PROVE  /\ \A i, j \in PositionsOf(p) : i < j => queue[i][2] < queue[j][2]
             /\ NumbersOf(p) = gone + 1 .. sent[p]
             <=> InRun(queue, p, gone, sent[p])
  BY <1>1 DEF InRun, PositionsOf, NumbersOf
<1>3. \A p \in Producers : \A gone \in lastTaken[p] .. sent[p] : gone \in Nat
  BY <1>1
<1> QED
  BY <1>2, <1>3 DEF DeliveredInOrder, Delivered

(* One more value of a producer's run at the back of the queue,              *)
LEMMA RunAppend ==
  ASSUME NEW q \in Seq(Values), NEW p \in Producers, NEW r \in Producers,
         NEW gone \in Nat, NEW newest \in Nat, NEW n \in Nat, gone <= newest,
         InRun(q, p, gone, newest), r = p => n = newest + 1
  PROVE  InRun(Append(q, <<r, n>>), p, gone, IF r = p THEN n ELSE newest)
<1>1. <<r, n>> \in Values
  BY DEF Values
<1> SUFFICES ASSUME NEW a, a = Append(q, <<r, n>>)
             PROVE  InRun(a, p, gone, IF r = p THEN n ELSE newest)
  OBVIOUS
<1>2. /\ Len(q) \in Nat /\ DOMAIN q = 1 .. Len(q)
      /\ DOMAIN a = 1 .. Len(q) + 1
      /\ \A i \in 1 .. Len(q) : a[i] = q[i]
      /\ a[Len(q) + 1] = <<r, n>>
  BY <1>1
<1>3. \A i \in DOMAIN q : q[i][2] \in Nat
  BY DEF Values
<1>4. CASE r = p
  <2>1. \A i \in DOMAIN a : a[i][1] = p =>
          IF i \in DOMAIN q THEN /\ a[i] = q[i] /\ q[i][2] \in gone + 1 .. newest
                            ELSE i = Len(q) + 1 /\ a[i][2] = newest + 1
    BY <1>2, <1>4 DEF InRun
  <2>2. \A i \in DOMAIN a : a[i][1] = p => a[i][2] \in gone + 1 .. n
    BY <1>4, <2>1
  <2>3. \A i, j \in DOMAIN a :
          a[i][1] = p /\ a[j][1] = p /\ i < j => a[i][2] < a[j][2]
    <3>1. TAKE i \in DOMAIN a, j \in DOMAIN a
    <3>2. CASE j \in DOMAIN q
      BY <1>2, <3>2 DEF InRun
    <3>3. CASE j \notin DOMAIN q
      BY <1>2, <2>1, <3>3
    <3> QED
      BY <3>2, <3>3
  <2>4. \A m \in gone + 1 .. n : \E i \in DOMAIN a : a[i][1] = p /\ a[i][2] = m
    <3>1. TAKE m \in gone + 1 .. n
    <3>2. CASE m = n
      BY <1>2, <1>4, <3>2
    <3>3. CASE m # n
      <4>1. PICK i \in DOMAIN q : q[i][1] = p /\ q[i][2] = m
        BY <1>4, <3>3 DEF InRun
      <4> QED
        BY <1>2, <4>1
    <3> QED
      BY <3>2, <3>3
  <2> QED
    BY <1>4, <2>2, <2>3, <2>4 DEF InRun
<1>5. CASE r # p
  <2>1. \A i \in DOMAIN a : a[i][1] = p => i \in DOMAIN q /\ a[i] = q[i]
    BY <1>2, <1>5
  <2>2. \A m \in gone + 1 .. newest :
          \E i \in DOMAIN a : a[i][1] = p /\ a[i][2] = m
    <3>1. TAKE m \in gone + 1 .. newest
    <3>2. PICK i \in DOMAIN q : q[i][1] = p /\ q[i][2] = m
      BY DEF InRun
    <3> QED
      BY <1>2, <3>2
  <2> QED
    BY <1>5, <2>1, <2>2, SMTT(30) DEF InRun
<1> QED
  BY <1>4, <1>5

(* and one fewer at the front.                                               *)
LEMMA RunTail ==
  ASSUME NEW q \in Seq(Values), q # <<>>, NEW p \in Producers,
         NEW gone \in Nat, NEW newest \in Nat, InRun(q, p, gone, newest)
  PROVE  IF Head(q)[1] = p
           THEN /\ Head(q)[2] = gone + 1
                /\ gone + 1 <= newest
                /\ InRun(Tail(q), p, gone + 1, newest)
           ELSE InRun(Tail(q), p, gone, newest)
<1> SUFFICES ASSUME NEW t, t = Tail(q), NEW h, h = Head(q)
             PROVE  IF h[1] = p
                      THEN /\ h[2] = gone + 1
                           /\ gone + 1 <= newest
                           /\ InRun(t, p, gone + 1, newest)
                      ELSE InRun(t, p, gone, newest)
  OBVIOUS
<1>1. /\ Len(q) \in Nat \ {0} /\ DOMAIN q = 1 .. Len(q) /\ h = q[1]
      /\ DOMAIN t = 1 .. Len(q) - 1
      /\ \A i \in 1 .. Len(q) - 1 : t[i] = q[i + 1]
  OBVIOUS
<1>2. \A i \in DOMAIN q : q[i][2] \in Nat
  BY DEF Values
<1>3. \A i \in DOMAIN t : i + 1 \in DOMAIN q /\ t[i] = q[i + 1]
  BY <1>1
<1>4. \A i \in DOMAIN q \ {1} : i - 1 \in DOMAIN t /\ t[i - 1] = q[i]
  BY <1>1
<1>5. \A i, j \in DOMAIN t :
        t[i][1] = p /\ t[j][1] = p /\ i < j => t[i][2] < t[j][2]
  <2>1. TAKE i \in DOMAIN t, j \in DOMAIN t
  <2>2. /\ i < j => i + 1 < j + 1
        /\ i + 1 \in DOMAIN q /\ j + 1 \in DOMAIN q
        /\ t[i] = q[i + 1] /\ t[j] = q[j + 1]
    BY <1>1
  <2> QED
    BY <2>2 DEF InRun
<1>6. CASE h[1] = p
  <2>1. 1 \in DOMAIN q /\ q[1][2] \in gone + 1 .. newest
    BY <1>1, <1>6 DEF InRun
  <2>2. \A i \in DOMAIN q \ {1} : q[i][1] = p => q[1][2] < q[i][2]
    BY <1>1, <1>6, <2>1 DEF InRun
  <2>3. h[2] = gone + 1
    <3>1. PICK i \in DOMAIN q : q[i][1] = p /\ q[i][2] = gone + 1
      BY <2>1, <1>2 DEF InRun
    <3> QED
      BY <1>1, <1>2, <2>1, <2>2, <3>1
  <2>4. \A i \in DOMAIN t : t[i][1] = p => t[i][2] \in gone + 2 .. newest
    <3>1. TAKE i \in DOMAIN t
    <3>2. i + 1 \in DOMAIN q /\ i + 1 # 1 /\ t[i] = q[i + 1]
      BY <1>1
    <3>3. q[i + 1][1] = p => /\ q[1][2] < q[i + 1][2]
                             /\ q[i + 1][2] \in gone + 1 .. newest
      BY <2>2, <3>2 DEF InRun
    <3> QED
      BY <1>1, <1>2, <2>1, <2>3, <3>2, <3>3
  <2>5. \A n \in gone + 2 .. newest :
          \E i \in DOMAIN t : t[i][1] = p /\ t[i][2] = n
    <3>1. TAKE n \in gone + 2 .. newest
    <3>2. n \in gone + 1 .. newest /\ n # gone + 1
      OBVIOUS
    <3>3. PICK i \in DOMAIN q : q[i][1] = p /\ q[i][2] = n
      BY <3>2 DEF InRun
    <3>4. i # 1
      BY <1>1, <2>3, <3>2, <3>3
    <3> QED
      BY <1>4, <3>3, <3>4
  <2>6. gone + 1 <= newest /\ (gone + 1) + 1 = gone + 2
    BY <2>1
  <2> QED
    BY <1>5, <1>6, <2>3, <2>4, <2>5, <2>6 DEF InRun
<1>7. CASE h[1] # p
  <2>1. \A i \in DOMAIN t : t[i][1] = p => t[i][2] \in gone + 1 .. newest
    BY <1>3 DEF InRun
  <2>2. \A n \in gone + 1 .. newest :
          \E i \in DOMAIN t : t[i][1] = p /\ t[i][2] = n
    <3>1. TAKE n \in gone + 1 .. newest
    <3>2. PICK i \in DOMAIN q : q[i][1] = p /\ q[i][2] = n
      BY DEF InRun
    <3> QED
      BY <1>1, <1>4, <1>7, <3>2
  <2> QED
    BY <1>5, <1>7, <2>1, <2>2 DEF InRun
<1> QED
  BY <1>6, <1>7

(* A push from a queue that may have lost its oldest value.                *)
LEMMA EnqueueDelivers ==
  ASSUME TypeOK, NEW p \in Producers, NEW r \in Producers,
         NEW before \in Seq(Values), NEW gone \in Nat,
         gone \in lastTaken[p] .. sent[p],
         InRun(before, p, gone, sent[p]),
         "PushNonBlockingDroppingIfFull" \notin PushOps => gone = lastTaken[p],
         Enqueue(r, before)
  PROVE  Delivered(p)'
<1>1. /\ lastTaken' = lastTaken
      /\ queue' = Append(before, <<r, sent[r] + 1>>)
      /\ sent' = [sent EXCEPT ![r] = @ + 1]
      /\ sent \in [Producers -> Nat] /\ lastTaken \in [Producers -> Nat]
  BY DEF Enqueue, TypeOK
<1>2. sent'[p] = (IF r = p THEN sent[r] + 1 ELSE sent[p]) /\ gone <= sent[p]
  BY <1>1
<1>3. InRun(queue', p, gone, sent'[p])
  BY <1>1, <1>2, RunAppend
<1>4. gone \in lastTaken'[p] .. sent'[p]
  BY <1>1, <1>2
<1> QED
  BY <1>1, <1>3, <1>4 DEF Delivered

(* A pop takes the oldest value left of its producer.                        *)
LEMMA TakeFrontDelivers ==
  ASSUME TypeOK, NEW p \in Producers, Delivered(p), TakeFront, sent' = sent
  PROVE  Delivered(p)'
<1>1. /\ queue \in Seq(Values) /\ queue # <<>> /\ queue' = Tail(queue)
      /\ Head(queue) \in Values
      /\ lastTaken' = [lastTaken EXCEPT ![Head(queue)[1]] = Head(queue)[2]]
      /\ sent \in [Producers -> Nat] /\ lastTaken \in [Producers -> Nat]
  BY DEF TakeFront, TypeOK
<1>2. PICK gone \in lastTaken[p] .. sent[p] :
        /\ InRun(queue, p, gone, sent[p])
        /\ "PushNonBlockingDroppingIfFull" \notin PushOps => gone = lastTaken[p]
  BY DEF Delivered
<1>3. gone \in Nat /\ sent[p] \in Nat
  BY <1>1
<1>4. CASE Head(queue)[1] = p
  <2>1. /\ Head(queue)[2] = gone + 1 /\ gone + 1 <= sent[p]
        /\ InRun(queue', p, gone + 1, sent[p])
    BY <1>1, <1>2, <1>3, <1>4, RunTail
  <2>2. lastTaken'[p] = gone + 1
    BY <1>1, <1>4, <2>1
  <2> QED
    BY <1>3, <2>1, <2>2 DEF Delivered
<1>5. CASE Head(queue)[1] # p
  <2>1. InRun(queue', p, gone, sent[p])
    BY <1>1, <1>2, <1>3, <1>5, RunTail
  <2>2. lastTaken'[p] = lastTaken[p]
    BY <1>1, <1>5 DEF Values
  <2> QED
    BY <1>2, <2>1, <2>2 DEF Delivered
<1> QED
  BY <1>4, <1>5

(* What one producer pushed is taken in order and at most once, and what is *)
(* left of it is a run up to its newest value; values are lost only if a   *)
(* dropping push is used at all, and then the oldest ones.                 *)
THEOREM DeliveredAlways == Spec => []DeliveredInOrder
<1> DEFINE Inv == \A p \in Producers : Delivered(p)
<1>1. Init => Inv
  <2> SUFFICES ASSUME Init, NEW p \in Producers PROVE Delivered(p)
    OBVIOUS
  <2>1. queue = <<>> /\ sent[p] = 0 /\ lastTaken[p] = 0
    BY DEF Init
  <2>2. InRun(queue, p, 0, 0)
    BY <2>1 DEF InRun
  <2> QED
    BY <2>1, <2>2 DEF Delivered
<1>2. TypeOK /\ OpsCalled /\ Inv /\ [Next]_vars => Inv'
  <2> SUFFICES ASSUME TypeOK, OpsCalled, Inv, [Next]_vars,
                      NEW p \in Producers
               PROVE  Delivered(p)'
    OBVIOUS
  <2>1. /\ Delivered(p) /\ queue \in Seq(Values)
        /\ sent[p] \in Nat /\ lastTaken[p] \in Nat
    BY DEF TypeOK
  <2>2. ASSUME UNCHANGED <<queue, sent, lastTaken>>
        PROVE  Delivered(p)'
    BY <2>1, <2>2 DEF Delivered, InRun
  <2>3. ASSUME NEW r \in Producers, ProducerStep(r)
        PROVE  Delivered(p)'
    <3>1. PICK gone \in lastTaken[p] .. sent[p] :
            /\ InRun(queue, p, gone, sent[p])
            /\ "PushNonBlockingDroppingIfFull" \notin PushOps
                 => gone = lastTaken[p]
      BY <2>1 DEF Delivered
    <3>2. gone \in Nat
      BY <2>1
    <3>3. CASE PushNonBlocking(r) \/ PushAdmitted(r)
      <4>1. Enqueue(r, queue)
        BY <3>3 DEF PushNonBlocking, PushAdmitted
      <4> QED
        BY <2>1, <3>1, <3>2, <4>1, EnqueueDelivers
    <3>4. CASE PushNonBlockingDroppingIfFull(r)
      <4>1. /\ Enqueue(r, DropOldest(queue))
            /\ "PushNonBlockingDroppingIfFull" \in PushOps
        BY <3>4 DEF PushNonBlockingDroppingIfFull, OpsCalled
      <4>2. CASE DropOldest(queue) = queue
        BY <2>1, <3>1, <3>2, <4>1, <4>2, EnqueueDelivers
      <4>3. CASE /\ DropOldest(queue) # queue
        <5>1. /\ queue # <<>> /\ DropOldest(queue) = Tail(queue)
              /\ Tail(queue) \in Seq(Values)
          BY <2>1, <4>3, SizeAssumption DEF DropOldest
        <5>2. CASE Head(queue)[1] = p
          <6>1. gone + 1 <= sent[p] /\ InRun(Tail(queue), p, gone + 1, sent[p])
            BY <2>1, <3>1, <3>2, <5>1, <5>2, RunTail
          <6>2. gone + 1 \in Nat /\ gone + 1 \in lastTaken[p] .. sent[p]
            BY <2>1, <3>1, <3>2, <6>1
          <6> QED
            BY <4>1, <5>1, <6>1, <6>2, EnqueueDelivers
        <5>3. CASE Head(queue)[1] # p
          <6>1. InRun(Tail(queue), p, gone, sent[p])
            BY <2>1, <3>1, <3>2, <5>1, <5>3, RunTail
          <6> QED
            BY <3>1, <3>2, <4>1, <5>1, <6>1, EnqueueDelivers
        <5> QED
          BY <5>2, <5>3
      <4> QED
        BY <4>2, <4>3
    <3>5. CASE TestShutdown(r) \/ PushFull(r) \/ PushRetry(r)
      BY <2>2, <3>5 DEF TestShutdown, PushFull, PushRetry
    <3> QED
      BY <2>3, <3>3, <3>4, <3>5 DEF ProducerStep
  <2>4. ASSUME NEW c \in Consumers, ConsumerStep(c)
        PROVE  Delivered(p)'
    <3>1. CASE PopReady(c)
      BY <2>1, <3>1, TakeFrontDelivers DEF PopReady
    <3>2. CASE PopNonBlocking(c)
      BY <2>1, <2>2, <3>2, TakeFrontDelivers DEF PopNonBlocking
    <3>3. CASE \/ TestShutdown(c) \/ PopEmpty(c) \/ PopStillEmpty(c)
               \/ CopyFront(c) \/ TimeOut(c)
      BY <2>2, <3>3
         DEF TestShutdown, PopEmpty, PopStillEmpty, CopyFront, TimeOut
    <3> QED
      BY <2>4, <3>1, <3>2, <3>3 DEF ConsumerStep
  <2>5. ASSUME \/ \E q \in Producers, o \in PushOps : PushCall(q, o)
               \/ \E c \in Consumers, o \in PopOps : PopCall(c, o)
               \/ \E t \in Threads : SpuriousWakeup(t)
               \/ ControlStep
               \/ \E o \in ControlOps : SetShutdownFlag(o)
               \/ UNCHANGED vars
        PROVE  Delivered(p)'
    BY <2>2, <2>5
       DEF PushCall, PopCall, SpuriousWakeup, ControlStep, NotifyAllEmpty,
           NotifyAllFull, SetShutdownFlag, vars
  <2> QED
    BY <2>3, <2>4, <2>5 DEF Next
<1>3. TypeOK /\ Inv => DeliveredInOrder
  BY DeliveredIs
<1> QED
  BY <1>1, <1>2, <1>3, TypeCorrect, OpsCalledInvariant, PTL DEF Spec

-----------------------------------------------------------------------------
(* The bounded pushes and the popping that the abstract queue promises.    *)
BoundedUse ==
  /\ PushOps \subseteq {"PushBlockingIfFull", "PushNonBlockingDroppingIfFull"}
  /\ PopOps \subseteq {"PopBlocking", "getCopyOfFrontBlocking"}
  /\ "Resume" \notin ControlOps

Offering == InCall({"PushBlockingIfFull"})
Asking   == InCall({"PopBlocking"})

(* The outstanding offers and requests.                                      *)
LEMMA CallersAre ==
  ASSUME TypeOK
  PROVE  /\ Offering = {p \in Producers : /\ pc[p] # "idle"
                                          /\ op[p] = "PushBlockingIfFull"}
         /\ Asking = {c \in Consumers : /\ pc[c] # "idle"
                                        /\ op[c] = "PopBlocking"}
BY DEF TypeOK, Offering, Asking, InCall, Threads, AllPushOps, AllPopOps

(* Which threads are in a call changes only for the thread that moves to   *)
(* or from "idle".                                                         *)
LEMMA CallersKept ==
  ASSUME op' = op,
         \A t \in Threads : (pc'[t] = "idle") <=> (pc[t] = "idle")
  PROVE  Offering' = Offering /\ Asking' = Asking
BY DEF Offering, Asking, InCall

(* A thread whose call ends.                                                 *)
LEMMA CallerLeaves ==
  ASSUME op' = op, NEW t \in Threads, pc'[t] = "idle",
         \A s \in Threads \ {t} : (pc'[s] = "idle") <=> (pc[s] = "idle")
  PROVE  Offering' = Offering \ {t} /\ Asking' = Asking \ {t}
BY DEF Offering, Asking, InCall

(* A signal moves sleepers to "relock", which is inside their call.        *)
LEMMA SignalLeaves ==
  ASSUME TypeOK, op' = op, NEW t \in Threads,
         NEW place \in {"emptyWait", "fullWait"}, pc[t] # place,
         SignalAndGoto(t, "idle", place)
  PROVE  Offering' = Offering \ {t} /\ Asking' = Asking \ {t}
<1>1. /\ pc'[t] = "idle"
      /\ \A s \in Threads \ {t} :
           pc'[s] = pc[s] \/ (pc[s] = place /\ pc'[s] = "relock")
  BY SignalEffect DEF Places, Waiting
<1> QED
  BY <1>1, CallerLeaves

(* A step of the queue is one of the FIFO, or none.                          *)
LEMMA StepImplemented ==
  ASSUME BoundedUse, TypeOK, OpsCalled, [Next]_vars
  PROVE  Fifo!FifoNext \/ UNCHANGED Fifo!fifoVars
<1> DEFINE Goal == Fifo!FifoNext \/ UNCHANGED Fifo!fifoVars
<1>0. /\ queue \in Seq(Values) /\ Len(queue) \in Nat
      /\ MaxQueueSize \in Nat \ {0}
  BY SizeAssumption DEF TypeOK
<1>1. ASSUME UNCHANGED <<queue, sent, shutdown_>>,
             Offering' = Offering, Asking' = Asking
      PROVE  Goal
  BY <1>1 DEF Fifo!fifoVars, Offering, Asking
<1>2. ASSUME UNCHANGED <<queue, sent, shutdown_, op>>,
             \A t \in Threads : (pc'[t] = "idle") <=> (pc[t] = "idle")
      PROVE  Goal
  BY <1>1, <1>2, CallersKept
<1>3. ASSUME NEW t \in Threads, TestShutdown(t)
      PROVE  Goal
  <2>1. UNCHANGED <<queue, sent, shutdown_, op>>
    BY <1>3 DEF TestShutdown
  <2>2. CASE shutdown_
    <3>1. Offering' = Offering \ {t} /\ Asking' = Asking \ {t}
      BY <1>3, <2>1, <2>2, CallerLeaves DEF TestShutdown, Goto, TypeOK
    <3>2. Fifo!Withdraw(t)
      BY <2>1, <2>2, <3>1 DEF Fifo!Withdraw, Offering, Asking
    <3> QED
      BY <3>2 DEF Fifo!FifoNext, Threads
  <2>3. CASE ~shutdown_
    BY <1>2, <1>3, <2>1, <2>3 DEF TestShutdown, Goto, TypeOK
  <2> QED
    BY <2>2, <2>3
<1>4. ASSUME NEW p \in Producers, ProducerStep(p)
      PROVE  Goal
  <2>1. /\ p \in Threads /\ pc[p] # "emptyWait" /\ p \notin Asking
        /\ p \in Offering <=> pc[p] # "idle" /\ op[p] = "PushBlockingIfFull"
    BY CallersAre, ThreadsAssumption DEF Threads, TypeOK
  <2>2. CASE TestShutdown(p)
    BY <1>3, <2>1, <2>2
  <2>3. CASE PushNonBlocking(p)
    BY <2>3 DEF PushNonBlocking, OpsCalled, BoundedUse
  <2>4. CASE PushNonBlockingDroppingIfFull(p)
    <3>1. /\ queue' = Append(DropOldest(queue), <<p, sent[p] + 1>>)
          /\ sent' = [sent EXCEPT ![p] = @ + 1]
          /\ UNCHANGED <<shutdown_, op>>
          /\ SignalAndGoto(p, "idle", "emptyWait")
      BY <2>4 DEF PushNonBlockingDroppingIfFull, Enqueue
    <3>2. Offering' = Offering /\ Asking' = Asking
      <4>1. p \notin Offering
        BY <2>1, <2>4 DEF PushNonBlockingDroppingIfFull
      <4>2. Offering' = Offering \ {p} /\ Asking' = Asking \ {p}
        BY <2>1, <3>1, SignalLeaves
      <4> QED
        BY <2>1, <4>1, <4>2
    <3>3. DropOldest(queue)
            = IF Len(queue) < MaxQueueSize THEN queue ELSE Tail(queue)
      BY <1>0 DEF DropOldest
    <3>4. Fifo!PutDropping(p)
      BY <3>1, <3>2, <3>3 DEF Fifo!PutDropping, Fifo!Add, Offering, Asking
    <3> QED
      BY <3>4 DEF Fifo!FifoNext
  <2>5. CASE PushAdmitted(p)
    <3>1. /\ queue' = Append(queue, <<p, sent[p] + 1>>)
          /\ sent' = [sent EXCEPT ![p] = @ + 1]
          /\ UNCHANGED <<shutdown_, op>>
          /\ SignalAndGoto(p, "idle", "emptyWait")
          /\ Len(queue) < MaxQueueSize
      BY <2>5 DEF PushAdmitted, Enqueue
    <3>2. Offering' = Offering \ {p} /\ Asking' = Asking
      BY <2>1, <3>1, SignalLeaves
    <3>3. p \in Offering
      BY <2>1, <2>5 DEF PushAdmitted
    <3>4. Fifo!Put(p)
      BY <3>1, <3>2, <3>3 DEF Fifo!Put, Fifo!Add, Offering, Asking
    <3> QED
      BY <3>4 DEF Fifo!FifoNext
  <2>6. CASE PushFull(p) \/ PushRetry(p)
    BY <1>2, <2>6 DEF PushFull, PushRetry, Goto, TypeOK
  <2> QED
    BY <1>4, <2>2, <2>3, <2>4, <2>5, <2>6 DEF ProducerStep
<1>5. ASSUME NEW c \in Consumers, ConsumerStep(c)
      PROVE  Goal
  <2>1. /\ c \in Threads /\ pc[c] # "fullWait" /\ c \notin Offering
        /\ c \in Asking <=> pc[c] # "idle" /\ op[c] = "PopBlocking"
        /\ pc[c] # "idle" => op[c] \in {"PopBlocking", "getCopyOfFrontBlocking"}
    BY CallersAre, ThreadsAssumption DEF Threads, TypeOK, OpsCalled, BoundedUse
  <2>2. CASE TestShutdown(c)
    BY <1>3, <2>1, <2>2
  <2>3. CASE PopReady(c)
    <3>1. /\ queue # <<>> /\ queue' = Tail(queue)
          /\ UNCHANGED <<shutdown_, op, sent>>
          /\ SignalAndGoto(c, "idle", "fullWait")
      BY <2>3 DEF PopReady, TakeFront
    <3>2. Offering' = Offering /\ Asking' = Asking \ {c}
      BY <2>1, <3>1, SignalLeaves
    <3>3. c \in Asking
      BY <2>1, <2>3 DEF PopReady
    <3>4. Fifo!Take(c)
      BY <3>1, <3>2, <3>3 DEF Fifo!Take, Offering, Asking
    <3> QED
      BY <3>4 DEF Fifo!FifoNext
  <2>4. CASE PopEmpty(c)
    BY <1>2, <2>4 DEF PopEmpty, Goto, TypeOK
  <2>5. CASE PopStillEmpty(c)
    BY <1>2, <2>1, <2>5 DEF PopStillEmpty, Goto, TypeOK, LoopOps
  <2>6. CASE PopNonBlocking(c)
    BY <2>1, <2>6 DEF PopNonBlocking
  <2>7. CASE CopyFront(c)
    <3>1. c \notin Asking /\ UNCHANGED <<queue, sent, shutdown_, op>>
      BY <2>1, <2>7 DEF CopyFront
    <3>2. Offering' = Offering \ {c} /\ Asking' = Asking \ {c}
      BY <2>1, <2>7, <3>1, CallerLeaves DEF CopyFront, Goto, TypeOK
    <3> QED
      BY <1>1, <2>1, <3>1, <3>2
  <2>8. CASE TimeOut(c)
    BY <2>1, <2>8 DEF TimeOut
  <2> QED
    BY <1>5, <2>2, <2>3, <2>4, <2>5, <2>6, <2>7, <2>8 DEF ConsumerStep
<1>6. ASSUME NEW p \in Producers, NEW o \in PushOps, PushCall(p, o)
      PROVE  Goal
  <2>1. /\ UNCHANGED <<queue, sent, shutdown_>> /\ pc[p] = "idle"
        /\ p \in Threads /\ op'[p] = o /\ pc'[p] # "idle"
        /\ \A s \in Threads \ {p} : pc'[s] = pc[s] /\ op'[s] = op[s]
    BY <1>6 DEF PushCall, Goto, TypeOK, Threads
  <2>2. Asking' = Asking
    BY <2>1 DEF Asking, InCall, BoundedUse
  <2>3. CASE o = "PushBlockingIfFull"
    <3>1. Offering' = Offering \cup {p}
      BY <2>1, <2>3 DEF Offering, InCall
    <3>2. Fifo!Offer(p)
      BY <2>1, <2>2, <3>1 DEF Fifo!Offer, Offering, Asking
    <3> QED
      BY <3>2 DEF Fifo!FifoNext
  <2>4. CASE o # "PushBlockingIfFull"
    <3>1. Offering' = Offering
      BY <2>1, <2>4 DEF Offering, InCall
    <3> QED
      BY <1>1, <2>1, <2>2, <3>1
  <2> QED
    BY <2>3, <2>4
<1>7. ASSUME NEW c \in Consumers, NEW o \in PopOps, PopCall(c, o)
      PROVE  Goal
  <2>1. /\ UNCHANGED <<queue, sent, shutdown_>> /\ pc[c] = "idle"
        /\ c \in Threads /\ op'[c] = o /\ pc'[c] # "idle"
        /\ \A s \in Threads \ {c} : pc'[s] = pc[s] /\ op'[s] = op[s]
    BY <1>7 DEF PopCall, Goto, TypeOK, Threads
  <2>2. Offering' = Offering
    BY <2>1 DEF Offering, InCall, BoundedUse
  <2>3. CASE o = "PopBlocking"
    <3>1. Asking' = Asking \cup {c}
      BY <2>1, <2>3 DEF Asking, InCall
    <3>2. Fifo!Ask(c)
      BY <2>1, <2>2, <3>1 DEF Fifo!Ask, Offering, Asking
    <3> QED
      BY <3>2 DEF Fifo!FifoNext
  <2>4. CASE o # "PopBlocking"
    <3>1. Asking' = Asking
      BY <2>1, <2>4 DEF Asking, InCall
    <3> QED
      BY <1>1, <2>1, <2>2, <3>1
  <2> QED
    BY <2>3, <2>4
<1>8. ASSUME NEW t \in Threads, SpuriousWakeup(t)
      PROVE  Goal
  BY <1>2, <1>8 DEF SpuriousWakeup, Goto, TypeOK
<1>9. CASE ControlStep
  BY <1>2, <1>9 DEF ControlStep, NotifyAllEmpty, NotifyAllFull, Broadcast
<1>10. ASSUME NEW o \in ControlOps, SetShutdownFlag(o)
       PROVE  Goal
  <2>1. /\ UNCHANGED <<queue, sent, pc, op>> /\ shutdown_' = TRUE
    BY <1>10, OpsAssumption DEF SetShutdownFlag, BoundedUse
  <2>2. Fifo!Close
    BY <2>1 DEF Fifo!Close, InCall
  <2> QED
    BY <2>2 DEF Fifo!FifoNext
<1>11. CASE UNCHANGED vars
  BY <1>2, <1>11 DEF vars
<1> QED
  BY <1>4, <1>5, <1>6, <1>7, <1>8, <1>9, <1>10, <1>11 DEF Next

(* The safety part of ImplementsFifo: whatever the interleaving of locks,  *)
(* waits, signals and spurious wake-ups, the queue does what an atomic FIFO *)
(* of max_queue_size values does, and nothing else.                        *)
THEOREM QueueImplementsFifo ==
  ASSUME BoundedUse
  PROVE  Spec => Fifo!FifoSafety
<1>1. Init => Fifo!FifoInit
  BY DEF Init, Fifo!FifoInit, InCall
<1>2. TypeOK /\ OpsCalled /\ [Next]_vars => [Fifo!FifoNext]_(Fifo!fifoVars)
  BY StepImplemented
<1> QED
  BY <1>1, <1>2, TypeCorrect, OpsCalledInvariant, PTL
     DEF Spec, Fifo!FifoSafety
=============================================================================
