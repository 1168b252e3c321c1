-------------------------- MODULE MCForesightMarket --------------------------
(* Model values for model checking ForesightMarket. *)
EXTENDS ForesightMarket

CONSTANTS s1, s2, s3, oracle
==============================================================================
