---------------------------- MODULE BoundedFifo ----------------------------
(* What okvis::threadsafe::Queue promises its callers, without mutex,        *)
(* condition variables or loops: a FIFO of at most Capacity values, callers  *)
(* that offer a value until there is room or ask for one until there is one, *)
(* and a flag that lets outstanding calls end without effect.                *)
EXTENDS Naturals, Sequences

CONSTANTS Producers, Consumers, Capacity

VARIABLES
  items,     \* the values, each <<producer, number>>
  count,     \* number of values each producer has put
  offering,  \* producers with an outstanding blocking push
  asking,    \* consumers with an outstanding blocking pop
  closed

fifoVars == <<items, count, offering, asking, closed>>

FifoInit ==
  /\ items = <<>>
  /\ count = [p \in Producers |-> 0]
  /\ offering = {}
  /\ asking = {}
  /\ closed = FALSE

Offer(p) ==
  /\ offering' = offering \cup {p}
  /\ UNCHANGED <<items, count, asking, closed>>

Ask(c) ==
  /\ asking' = asking \cup {c}
  /\ UNCHANGED <<items, count, offering, closed>>

Add(p, before) ==
  /\ items' = Append(before, <<p, count[p] + 1>>)
  /\ count' = [count EXCEPT ![p] = @ + 1]

Put(p) ==
  /\ p \in offering
  /\ Len(items) < Capacity
  /\ Add(p, items)
  /\ offering' = offering \ {p}
  /\ UNCHANGED <<asking, closed>>

(* The dropping push never waits; it makes room by losing the oldest value.  *)
PutDropping(p) ==
  /\ Add(p, IF Len(items) < Capacity THEN items ELSE Tail(items))
  /\ UNCHANGED <<offering, asking, closed>>

Take(c) ==
  /\ c \in asking
  /\ items # <<>>
  /\ items' = Tail(items)
  /\ asking' = asking \ {c}
  /\ UNCHANGED <<count, offering, closed>>

Close ==
  /\ closed' = TRUE
  /\ UNCHANGED <<items, count, offering, asking>>

Withdraw(t) ==
  /\ closed
  /\ offering' = offering \ {t}
  /\ asking' = asking \ {t}
  /\ UNCHANGED <<items, count, closed>>

FifoNext ==
  \/ \E p \in Producers : Offer(p) \/ Put(p) \/ PutDropping(p)
  \/ \E c \in Consumers : Ask(c) \/ Take(c)
  \/ \E t \in Producers \cup Consumers : Withdraw(t)
  \/ Close

FifoSafety == FifoInit /\ [][FifoNext]_fifoVars

(* Room and an offer do not stay together for ever, nor a value and a        *)
(* request.                                                                  *)
FifoSpec ==
  /\ FifoSafety
  /\ WF_fifoVars(\E p \in Producers : Put(p))
  /\ WF_fifoVars(\E c \in Consumers : Take(c))
============================================================================
