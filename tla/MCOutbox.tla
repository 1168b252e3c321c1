------------------------------ MODULE MCOutbox -------------------------------
(***************************************************************************)
(* Two replicas that may relay the events of two changes to two            *)
(* subscribers.                                                            *)
(***************************************************************************)
EXTENDS Outbox

OneToTwo == 1..2
==============================================================================
