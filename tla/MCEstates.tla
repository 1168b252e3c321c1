------------------------------ MODULE MCEstates ------------------------------
(***************************************************************************)
(* The environments one may give the process: every value of what tells    *)
(* one plane from another, and one of each kind that it refuses.           *)
(***************************************************************************)
EXTENDS Estates

Given(single, network, enabled, testnetUrl, rpc) ==
  [singleNetwork |-> single, network |-> network, mainnetEnabled |-> enabled,
   testnetUrl |-> testnetUrl, rpc |-> rpc, required |-> TRUE, optional |-> TRUE,
   minGasPrice |-> 1, maxGasPrice |-> 2]

Served == {Given(single, network, network = "mainnet", url, rpc) :
             single \in {Absent, "mainnet", "testnet"},
             network \in {Absent, "mainnet"}, url \in BOOLEAN, rpc \in {Absent, "mainnet", "testnet"}}
\* What src/.env.example says, in front of a node of either network.
Untouched == {Given(Absent, "testnet", FALSE, FALSE, rpc) : rpc \in {"mainnet", "testnet"}}
Usual == Given(Absent, Absent, FALSE, FALSE, "testnet")
Environments == Served \cup
  {[Usual EXCEPT !.required = FALSE], [Usual EXCEPT !.optional = FALSE],
   [Usual EXCEPT !.minGasPrice = 3], [Usual EXCEPT !.network = "mainnet"],
   [Usual EXCEPT !.network = "other"]}
==============================================================================
