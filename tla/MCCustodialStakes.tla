-------------------------- MODULE MCCustodialStakes --------------------------
(***************************************************************************)
(* Small instances of the custodial book.                                  *)
(***************************************************************************)
EXTENDS CustodialStakes, TLC

OneToTwo == 1..2
OneToThree == 1..3
OneMarket == 1..1
OneAsset == {"EMBER"}
TwoAssets == {"EMBER", "BTC"}

\* Users differ in nothing but their name, nor do workers.
Symmetry == Permutations(Subject) \cup Permutations(Worker)
==============================================================================
