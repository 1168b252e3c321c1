----------------------------- MODULE MCRegistry ------------------------------
(***************************************************************************)
(* One market, the two stakes of the house and one of a bettor.            *)
(***************************************************************************)
EXTENDS Registry, TLC

CONSTANTS hy, hn, b

StakeOf == (hy :> [staker |-> "house", outcome |-> "yes", amount |-> 1])
        @@ (hn :> [staker |-> "house", outcome |-> "no", amount |-> 1])
        @@ (b  :> [staker |-> "bettor", outcome |-> "yes", amount |-> 1])
HouseOnly == [t \in {hy, hn} |-> StakeOf[t]]
Bettors == {"house", "bettor"}
Sides == {"yes", "no"}
ZeroOne == {0, 1}
==============================================================================
