----------------------------- MODULE MCPublisher -----------------------------
(* Instance of Publisher for TLC: see Publisher.cfg.                         *)
EXTENDS Publisher
=============================================================================
