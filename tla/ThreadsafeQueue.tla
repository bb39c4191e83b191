-------------------------- MODULE ThreadsafeQueue --------------------------
(* okvis::threadsafe::Queue (threadsafe/ThreadsafeQueue.hpp): a FIFO guarded *)
(* by one mutex, with a condition variable for "not empty" and one for "an   *)
(* element was popped", and a shutdown flag that is read and written without *)
(* the mutex.                                                                *)
(*                                                                           *)
(* Grain: the code between lock and unlock (or lock and cond_wait) is one    *)
(* step, the unlocked test of shutdown_ at the head of every blocking loop   *)
(* is a step of its own, and so are the flag write and the two broadcasts of *)
(* Shutdown.  The pure readers (Size, Empty, getCopyOfFront, getCopyOfBack)  *)
(* leave the state alone and are not actions.                                *)
EXTENDS Integers, Sequences, FiniteSets

CONSTANTS
  Producers, Consumers,   \* threads that push, threads that take
  PushOps,                \* the push operations the producers may call
  PopOps,                 \* the operations the consumers may call
  ControlOps,             \* subset of {"Shutdown", "Resume"}
  MaxQueueSize,           \* max_queue_size at the call site
  MaxPushes               \* bound: values one producer pushes

Threads == Producers \cup Consumers

AllPushOps == {"PushNonBlocking", "PushBlockingIfFull",
               "PushNonBlockingDroppingIfFull"}
AllPopOps  == {"PopBlocking", "PopNonBlocking", "PopTimeout",
               "getCopyOfFrontBlocking"}

ASSUME ThreadsAssumption ==
  /\ IsFiniteSet(Producers)
  /\ IsFiniteSet(Consumers)
  /\ Producers \cap Consumers = {}
ASSUME OpsAssumption ==
  /\ PushOps \subseteq AllPushOps
  /\ PopOps \subseteq AllPopOps
  /\ ControlOps \subseteq {"Shutdown", "Resume"}
ASSUME SizeAssumption ==
  /\ MaxQueueSize \in Nat \ {0}
  /\ MaxPushes \in Nat

VARIABLES
  queue,      \* queue_: the values, each <<producer, number>>
  shutdown_,  \* the atomic flag
  pc,         \* where each thread stands in its call
  op,         \* the operation each thread is in, or was last in
  control,    \* progress of the thread that calls Shutdown or Resume
  sent,       \* history: values each producer has put in the queue
  lastTaken   \* history: number of the last value taken, per producer

vars == <<queue, shutdown_, pc, op, control, sent, lastTaken>>

(* idle: outside; test: about to read shutdown_; lock: about to lock;        *)
(* emptyWait, fullWait: inside pthread_cond_wait on that condition; relock:  *)
(* woken, about to own the mutex again.                                      *)
Places == {"idle", "test", "lock", "emptyWait", "fullWait", "relock"}

Values == Producers \X Nat

Init ==
  /\ queue = <<>>
  /\ shutdown_ = FALSE
  /\ pc = [t \in Threads |-> "idle"]
  /\ op = [t \in Threads |->
             IF t \in Producers THEN "PushNonBlocking" ELSE "PopNonBlocking"]
  /\ control = "idle"
  /\ sent = [p \in Producers |-> 0]
  /\ lastTaken = [p \in Producers |-> 0]

----------------------------------------------------------------------------
(* The operations whose body is a loop "while (!shutdown_)".                 *)
LoopOps == {"PushBlockingIfFull", "PopBlocking", "getCopyOfFrontBlocking"}

Goto(t, place) == pc' = [pc EXCEPT ![t] = place]

Waiting(place) == {t \in Threads : pc[t] = place}

(* pthread_cond_signal by a thread that goes on to "next": one waiter of     *)
(* that condition, any one, or none if nobody waits.                         *)
SignalAndGoto(t, next, place) ==
  IF Waiting(place) = {}
    THEN pc' = [pc EXCEPT ![t] = next]
    ELSE \E w \in Waiting(place) :
           pc' = [pc EXCEPT ![t] = next, ![w] = "relock"]

PushCall(p, o) ==
  /\ pc[p] = "idle"
  /\ sent[p] < MaxPushes
  /\ op' = [op EXCEPT ![p] = o]
  /\ Goto(p, IF o \in LoopOps THEN "test" ELSE "lock")
  /\ UNCHANGED <<queue, shutdown_, control, sent, lastTaken>>

PopCall(c, o) ==
  /\ pc[c] = "idle"
  /\ op' = [op EXCEPT ![c] = o]
  /\ Goto(c, IF o \in LoopOps THEN "test" ELSE "lock")
  /\ UNCHANGED <<queue, shutdown_, control, sent, lastTaken>>

(* while (!shutdown_): leave the call returning false, or enter the body.    *)
TestShutdown(t) ==
  /\ pc[t] = "test"
  /\ Goto(t, IF shutdown_ THEN "idle" ELSE "lock")
  /\ UNCHANGED <<queue, shutdown_, op, control, sent, lastTaken>>

----------------------------------------------------------------------------
(* Slip: a push signals only when the queue was empty                        *)
EnqueueSignalIfEmpty(p, before) ==
  /\ queue' = Append(before, <<p, sent[p] + 1>>)
  /\ sent' = [sent EXCEPT ![p] = @ + 1]
  /\ IF before = <<>> THEN SignalAndGoto(p, "idle", "emptyWait")
                      ELSE Goto(p, "idle")
  /\ UNCHANGED <<shutdown_, op, control, lastTaken>>

(* queue_.push(value); signal condition_empty_; unlock; return.              *)
Enqueue(p, before) ==
  /\ queue' = Append(before, <<p, sent[p] + 1>>)
  /\ sent' = [sent EXCEPT ![p] = @ + 1]
  /\ SignalAndGoto(p, "idle", "emptyWait")
  /\ UNCHANGED <<shutdown_, op, control, lastTaken>>

PushNonBlocking(p) ==
  /\ pc[p] = "lock"
  /\ op[p] = "PushNonBlocking"
  /\ Enqueue(p, queue)

(* Slip: the newest value is dropped instead of the oldest                   *)
DropNewest(q) ==
  IF Len(q) >= MaxQueueSize THEN SubSeq(q, 1, Len(q) - 1) ELSE q

DropOldest(q) == IF Len(q) >= MaxQueueSize THEN Tail(q) ELSE q

PushNonBlockingDroppingIfFull(p) ==
  /\ pc[p] = "lock"
  /\ op[p] = "PushNonBlockingDroppingIfFull"
  /\ Enqueue(p, DropOldest(queue))

(* There is room: push.                                                      *)
PushAdmitted(p) ==
  /\ pc[p] = "lock"
  /\ op[p] = "PushBlockingIfFull"
  /\ Len(queue) < MaxQueueSize
  /\ Enqueue(p, queue)

(* Slip: the full producer waits on the wrong condition                      *)
PushFullWaitsEmpty(p) ==
  /\ pc[p] = "lock"
  /\ op[p] = "PushBlockingIfFull"
  /\ Len(queue) >= MaxQueueSize
  /\ Goto(p, "emptyWait")
  /\ UNCHANGED <<queue, shutdown_, op, control, sent, lastTaken>>

(* size >= max_queue_size: wait on condition_full_.                          *)
PushFull(p) ==
  /\ pc[p] = "lock"
  /\ op[p] = "PushBlockingIfFull"
  /\ Len(queue) >= MaxQueueSize
  /\ Goto(p, "fullWait")
  /\ UNCHANGED <<queue, shutdown_, op, control, sent, lastTaken>>

(* Slip: push after the wait without looking at the size again               *)
PushRetryUnchecked(p) ==
  /\ pc[p] = "relock"
  /\ op[p] = "PushBlockingIfFull"
  /\ Enqueue(p, queue)

(* After the wait "size" still holds the value read before it, so the thread *)
(* always unlocks and goes round the loop.                                   *)
PushRetry(p) ==
  /\ pc[p] = "relock"
  /\ op[p] = "PushBlockingIfFull"
  /\ Goto(p, "test")
  /\ UNCHANGED <<queue, shutdown_, op, control, sent, lastTaken>>

----------------------------------------------------------------------------
TakeFront ==
  /\ queue # <<>>
  /\ queue' = Tail(queue)
  /\ lastTaken' = [lastTaken EXCEPT ![Head(queue)[1]] = Head(queue)[2]]

(* Slip: a pop signals only when the queue was full and becomes empty        *)
PopReadyNoSignal(c) ==
  /\ pc[c] \in {"lock", "relock"}
  /\ op[c] \in {"PopBlocking", "PopTimeout"}
  /\ TakeFront
  /\ IF Len(queue) >= MaxQueueSize /\ Waiting("emptyWait") = {}
       THEN SignalAndGoto(c, "idle", "fullWait")
       ELSE Goto(c, "idle")
  /\ UNCHANGED <<shutdown_, op, control, sent>>

(* PopBlocking and PopTimeout, with a value there on the first look or after *)
(* the wait: pop it, signal condition_full_, unlock, return.                 *)
PopReady(c) ==
  /\ pc[c] \in {"lock", "relock"}
  /\ op[c] \in {"PopBlocking", "PopTimeout"}
  /\ TakeFront
  /\ SignalAndGoto(c, "idle", "fullWait")
  /\ UNCHANGED <<shutdown_, op, control, sent>>

(* The queue is empty: wait on condition_empty_.                             *)
PopEmpty(c) ==
  /\ pc[c] = "lock"
  /\ op[c] \in {"PopBlocking", "PopTimeout", "getCopyOfFrontBlocking"}
  /\ queue = <<>>
  /\ Goto(c, "emptyWait")
  /\ UNCHANGED <<queue, shutdown_, op, control, sent, lastTaken>>

(* Still empty after the wait: the loops go round, PopTimeout returns false. *)
PopStillEmpty(c) ==
  /\ pc[c] = "relock"
  /\ c \in Consumers
  /\ queue = <<>>
  /\ Goto(c, IF op[c] \in LoopOps THEN "test" ELSE "idle")
  /\ UNCHANGED <<queue, shutdown_, op, control, sent, lastTaken>>

(* PopNonBlocking: takes the front if there is one, and signals nobody.      *)
PopNonBlocking(c) ==
  /\ pc[c] = "lock"
  /\ op[c] = "PopNonBlocking"
  /\ \/ TakeFront
     \/ queue = <<>> /\ UNCHANGED <<queue, lastTaken>>
  /\ Goto(c, "idle")
  /\ UNCHANGED <<shutdown_, op, control, sent>>

(* getCopyOfFrontBlocking with a value there: nothing is removed.            *)
CopyFront(c) ==
  /\ pc[c] \in {"lock", "relock"}
  /\ op[c] = "getCopyOfFrontBlocking"
  /\ queue # <<>>
  /\ Goto(c, "idle")
  /\ UNCHANGED <<queue, shutdown_, op, control, sent, lastTaken>>

(* pthread_cond_timedwait gives up.                                          *)
TimeOut(c) ==
  /\ pc[c] = "emptyWait"
  /\ op[c] = "PopTimeout"
  /\ Goto(c, "relock")
  /\ UNCHANGED <<queue, shutdown_, op, control, sent, lastTaken>>

(* POSIX lets pthread_cond_wait return without a signal.                     *)
SpuriousWakeup(t) ==
  /\ pc[t] \in {"emptyWait", "fullWait"}
  /\ Goto(t, "relock")
  /\ UNCHANGED <<queue, shutdown_, op, control, sent, lastTaken>>

----------------------------------------------------------------------------
(* Shutdown and Resume write the flag and then broadcast, without the mutex. *)
SetShutdownFlag(o) ==
  /\ control = "idle"
  /\ shutdown_ = (o = "Resume")
  /\ shutdown_' = (o = "Shutdown")
  /\ control' = "notifyEmpty"
  /\ UNCHANGED <<queue, pc, op, sent, lastTaken>>

Broadcast(place) ==
  pc' = [t \in Threads |-> IF pc[t] = place THEN "relock" ELSE pc[t]]

NotifyAllEmpty ==
  /\ control = "notifyEmpty"
  /\ Broadcast("emptyWait")
  /\ control' = "notifyFull"
  /\ UNCHANGED <<queue, shutdown_, op, sent, lastTaken>>

NotifyAllFull ==
  /\ control = "notifyFull"
  /\ Broadcast("fullWait")
  /\ control' = "idle"
  /\ UNCHANGED <<queue, shutdown_, op, sent, lastTaken>>

----------------------------------------------------------------------------
(* What a thread does on its own inside a call; a thread in cond_wait has no *)
(* such step.                                                                *)
ProducerStep(p) ==
  \/ TestShutdown(p)
  \/ PushNonBlocking(p)
  \/ PushNonBlockingDroppingIfFull(p)
  \/ PushAdmitted(p)
  \/ PushFull(p)
  \/ PushRetry(p)

ConsumerStep(c) ==
  \/ TestShutdown(c)
  \/ PopReady(c)
  \/ PopEmpty(c)
  \/ PopStillEmpty(c)
  \/ PopNonBlocking(c)
  \/ CopyFront(c)
  \/ TimeOut(c)

ControlStep == NotifyAllEmpty \/ NotifyAllFull

Next ==
  \/ \E p \in Producers : ProducerStep(p) \/ \E o \in PushOps : PushCall(p, o)
  \/ \E c \in Consumers : ConsumerStep(c) \/ \E o \in PopOps : PopCall(c, o)
  \/ \E t \in Threads : SpuriousWakeup(t)
  \/ ControlStep
  \/ \E o \in ControlOps : SetShutdownFlag(o)

Spec == Init /\ [][Next]_vars

(* A thread inside a call that is not parked in cond_wait is run again by    *)
(* the scheduler.  Nothing is assumed about spurious wake-ups, about calling *)
(* Shutdown, or about producers starting another call.                       *)
CallFairness ==
  /\ \A p \in Producers : WF_vars(ProducerStep(p))
  /\ \A c \in Consumers : WF_vars(ConsumerStep(c))
  /\ WF_vars(ControlStep)

(* The consumers of the program are loops that call again as long as they    *)
(* live (visualisationLoop, publishingLoop, processFrame's driver).          *)
ConsumerLoops ==
  \A c \in Consumers : WF_vars(\E o \in PopOps : PopCall(c, o))

FairSpec == Spec /\ CallFairness /\ ConsumerLoops

----------------------------------------------------------------------------
(* Every variable keeps its type, and a thread only ever sleeps on the       *)
(* condition that its own operation waits for (pthread_cond_wait).           *)
TypeOK ==
  /\ queue \in Seq(Values)
  /\ shutdown_ \in BOOLEAN
  /\ pc \in [Threads -> Places]
  /\ op \in [Threads -> AllPushOps \cup AllPopOps]
  /\ control \in {"idle", "notifyEmpty", "notifyFull"}
  /\ sent \in [Producers -> Nat]
  /\ lastTaken \in [Producers -> Nat]
  /\ \A p \in Producers : /\ op[p] \in AllPushOps
                          /\ pc[p] # "emptyWait"
                          /\ pc[p] \in {"fullWait", "relock", "test"}
                               => op[p] = "PushBlockingIfFull"
  /\ \A c \in Consumers : /\ op[c] \in AllPopOps
                          /\ pc[c] # "fullWait"
                          /\ pc[c] \in {"emptyWait", "relock"}
                               => op[c] # "PopNonBlocking"

(* A producer that lost the race for the slot it was woken for waits again:  *)
(* with bounded pushes only, the queue never holds more than max_queue_size  *)
(* values (PushBlockingIfFull, PushNonBlockingDroppingIfFull).               *)
SizeBounded == Len(queue) <= MaxQueueSize

(* What one producer pushed is taken in order, each value at most once, and  *)
(* what is left of it in the queue is a run without a gap up to the newest;  *)
(* only a dropping push may lose values, and only the oldest ones.           *)
PositionsOf(p) == {i \in DOMAIN queue : queue[i][1] = p}
NumbersOf(p) == {queue[i][2] : i \in PositionsOf(p)}
DeliveredInOrder ==
  \A p \in Producers :
    /\ \A i, j \in PositionsOf(p) : i < j => queue[i][2] < queue[j][2]
    /\ \E gone \in lastTaken[p] .. sent[p] :
         /\ NumbersOf(p) = gone + 1 .. sent[p]
         /\ "PushNonBlockingDroppingIfFull" \notin PushOps
              => gone = lastTaken[p]

(* No lost wake-up on condition_empty_: while a consumer sleeps, every value *)
(* in the queue is matched by a consumer that has been woken for it.         *)
WokenConsumers == {c \in Consumers : pc[c] = "relock"}
NoLostEmptyWakeup ==
  Waiting("emptyWait") # {} => Len(queue) <= Cardinality(WokenConsumers)

(* No lost wake-up on condition_full_: while a producer sleeps, every free   *)
(* slot is matched by a producer on its way to look again, unless the queue  *)
(* is being shut down.                                                       *)
ActiveProducers ==
  {p \in Producers : op[p] = "PushBlockingIfFull"
                     /\ pc[p] \in {"test", "lock", "relock"}}
NoLostFullWakeup ==
  (Waiting("fullWait") # {} /\ ~shutdown_)
    => MaxQueueSize - Len(queue) <= Cardinality(ActiveProducers)

(* Shutdown ends every blocked call: a thread inside a call when the flag is *)
(* set leaves it (comment of Shutdown: "This will notify all threads to wake *)
(* up."; of PopBlocking: "@return False if shutdown is requested.").         *)
ShutdownEndsCalls ==
  \A t \in Threads :
    (shutdown_ /\ pc[t] # "idle") ~> (pc[t] = "idle" \/ ~shutdown_)

(* A producer that has entered PushBlockingIfFull gets out of it: space made *)
(* by a pop reaches the producers that wait for it.                          *)
PushReturns ==
  \A p \in Producers : (pc[p] # "idle") ~> (pc[p] = "idle")
============================================================================
