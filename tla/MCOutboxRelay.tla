---------------------------- MODULE MCOutboxRelay ---------------------------
(* Two relays and a page that holds one row or both. *)
EXTENDS OutboxRelay, TLC

CONSTANTS r1, r2
=============================================================================
