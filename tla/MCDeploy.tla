------------------------------ MODULE MCDeploy -------------------------------
(***************************************************************************)
(* A small instance of a deploy: two workers at one market.  It has fewer  *)
(* faults than it takes to kill the job, whose retries are bounded.        *)
(***************************************************************************)
EXTENDS Deploy

\* The faults do not use up the job's attempts.
ASSUME RetriesAssumption == MaxFaults <= MaxAttempts
==============================================================================
