\* camera queue in blocking mode: PushBlockingIfFull(frames, size), PopBlocking
SPECIFICATION FairSpec
CONSTANTS
  Producers = {p1, p2}
  Consumers = {c1, c2}
  PushOps = {"PushBlockingIfFull"}
  PopOps = {"PopBlocking"}
  ControlOps = {}
  MaxQueueSize = 2
  MaxPushes = 3
INVARIANTS
  SizeBounded
  NoLostEmptyWakeup
  NoLostFullWakeup
PROPERTIES
  ImplementsFifo
  PushReturns
