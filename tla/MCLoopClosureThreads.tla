----------------------- MODULE MCLoopClosureThreads -----------------------
(* Instances of LoopClosureThreads for TLC.                                  *)
EXTENDS LoopClosureThreads
============================================================================
