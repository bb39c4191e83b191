\* publishingLoop / visualisationLoop: PopBlocking while stopThreading calls Shutdown
SPECIFICATION FairSpec
CONSTANTS
  Producers = {p1}
  Consumers = {c1}
  PushOps = {"PushNonBlockingDroppingIfFull"}
  PopOps = {"PopBlocking"}
  ControlOps = {"Shutdown"}
  MaxQueueSize = 1
  MaxPushes = 1
PROPERTIES
  ShutdownEndsCalls
