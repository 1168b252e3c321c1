----------------------------- MODULE OutboundTx ------------------------------
(***************************************************************************)
(* The rule that deploy.ts and resolve.ts share: "commit the bytes before  *)
(* anything is broadcast".  Each slot, a market's deploy or its            *)
(* resolution, is given bytes once, for ever; what is on the wire was      *)
(* committed first, so a crash leaves nothing there that no row names, and *)
(* a retry can only send the same bytes again.                             *)
(***************************************************************************)
CONSTANTS Slot, NoBytes

VARIABLES
  committed,   \* the bytes on each slot's row, or NoBytes
  wire         \* what was ever handed to a node

Init == committed = [s \in Slot |-> NoBytes] /\ wire = {}

Commit(s) ==
  /\ committed[s] = NoBytes
  /\ committed' = [committed EXCEPT ![s] = committed'[s]]
  /\ UNCHANGED wire

Send(s) ==
  /\ committed[s] # NoBytes
  /\ wire' = wire \cup {committed[s]}
  /\ UNCHANGED committed

Next == \E s \in Slot : Commit(s) \/ Send(s)

Spec == Init /\ [][Next]_<<committed, wire>>
==============================================================================
