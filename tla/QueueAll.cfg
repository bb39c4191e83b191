\* every operation of the queue, with shutdown and resume at any moment
SPECIFICATION Spec
CONSTANTS
  Producers = {p1, p2}
  Consumers = {c1, c2}
  PushOps = {"PushNonBlocking", "PushBlockingIfFull", "PushNonBlockingDroppingIfFull"}
  PopOps = {"PopBlocking", "PopTimeout", "PopNonBlocking", "getCopyOfFrontBlocking"}
  ControlOps = {"Shutdown", "Resume"}
  MaxQueueSize = 1
  MaxPushes = 2
INVARIANTS
  TypeOK
  DeliveredInOrder
