------------------------ MODULE MCOutboxGroupCommit ------------------------
(* Instances of OutboxGroupCommit for TLC.                                  *)
EXTENDS OutboxGroupCommit, TLC

CONSTANTS o1, o2, o3, w1
=============================================================================
