---------------------------- MODULE MCResolution -----------------------------
(***************************************************************************)
(* Small instances of the oracle's queue: one market that people backed on *)
(* one side only, whose answer may void it, and one they backed on both.   *)
(***************************************************************************)
EXTENDS Resolution

CONSTANTS m1, m2

Backed == [m \in Market |-> IF m = m1 THEN {0} ELSE {0, 1}]
Verdict == [m \in Market |-> IF m = m1 THEN 1 ELSE 0]
==============================================================================
