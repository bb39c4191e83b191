------------------------- MODULE MCThreadsafeQueue -------------------------
(* Instances of ThreadsafeQueue for TLC and its refinement of BoundedFifo.   *)
EXTENDS ThreadsafeQueue

InCall(ops) == {t \in Threads : pc[t] # "idle" /\ op[t] \in ops}

(* Calls of PushBlockingIfFull and PopBlocking are the outstanding offers    *)
(* and requests of the abstract queue.                                       *)
Fifo == INSTANCE BoundedFifo WITH
          Capacity <- MaxQueueSize,
          items    <- queue,
          count    <- sent,
          offering <- InCall({"PushBlockingIfFull"}),
          asking   <- InCall({"PopBlocking"}),
          closed   <- shutdown_

(* The mutex, the two conditions and the retry loops implement the abstract  *)
(* bounded FIFO, its progress included: a sleeping producer and a free slot, *)
(* or a sleeping consumer and a value, never stay together                   *)
(* (PushBlockingIfFull, PopBlocking).                                        *)
ImplementsFifo == Fifo!FifoSpec
============================================================================
