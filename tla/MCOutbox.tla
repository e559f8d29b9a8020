------------------------------ MODULE MCOutbox ------------------------------
(***************************************************************************)
(* Outbox for TLC: two faces and a tick over three events, written one or  *)
(* two at a time and walked in pages of one, so that a walk spans several  *)
(* pages and a face loses the race for the lock.  There is a liveness      *)
(* property in the run, so no symmetry is declared.                        *)
(***************************************************************************)
EXTENDS Outbox

CONSTANTS gui, cli, tick
=============================================================================
