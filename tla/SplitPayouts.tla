---------------------------- MODULE SplitPayouts -----------------------------
(***************************************************************************)
(* splitPayouts (src/src/custodialstakes.ts): how a resolved market's      *)
(* custodial pool is divided.  A stake is named by a number, which stands  *)
(* for its id where two equal stakes compete for a unit of dust; the book  *)
(* is a set S of stakes with a pool amount and an outcome each.            *)
(***************************************************************************)
EXTENDS Integers, FiniteSets, Functions

\* Exact integer sum of the amounts of a set of stakes.
poolOf(S, amount) == SumFunctionOnSet(amount, S)

winnersOf(S, outcome, w) == {s \in S : outcome[s] = w}

\* What a winner gets of the losers' money, floored.
shareOf(s, amount, winningPool, losingPool) == (amount[s] * losingPool) \div winningPool

\* The place of s in the queue for dust: largest stake first, then by id.
claimRank(s, W, amount) ==
  Cardinality({t \in W : amount[t] > amount[s] \/ (amount[t] = amount[s] /\ t < s)})

\* Wrong: the loop that hands out the dust is dropped.
splitPayouts_keepsDust(S, amount, outcome, w) ==
  LET W == winnersOf(S, outcome, w)
      winningPool == poolOf(W, amount)
      losingPool == poolOf(S \ W, amount)
  IN  IF winningPool = 0 THEN [s \in {} |-> 0]
      ELSE [s \in W |-> amount[s] + shareOf(s, amount, winningPool, losingPool)]

\* Wrong: a winner gets the share without the stake it was won with.
splitPayouts_shareOnly(S, amount, outcome, w) ==
  LET W == winnersOf(S, outcome, w)
      winningPool == poolOf(W, amount)
      losingPool == poolOf(S \ W, amount)
  IN  IF winningPool = 0 THEN [s \in {} |-> 0]
      ELSE [s \in W |-> shareOf(s, amount, winningPool, losingPool)]

\* The payouts of the winners, and of nobody else; none at all when no stake
\* backed w.  The dust goes out a unit at a time, round the queue.
splitPayouts(S, amount, outcome, w) ==
  LET W == winnersOf(S, outcome, w)
      n == Cardinality(W)
      winningPool == poolOf(W, amount)
      losingPool == poolOf(S \ W, amount)
      share == [s \in W |-> shareOf(s, amount, winningPool, losingPool)]
      remainder == losingPool - SumFunction(share)
      dust(s) == (remainder \div n)
                 + IF claimRank(s, W, amount) < remainder % n THEN 1 ELSE 0
  IN  IF winningPool = 0 THEN [s \in {} |-> 0]
      ELSE [s \in W |-> amount[s] + share[s] + dust(s)]

------------------------------------------------------------------------------
(* What the division promises, of one book. *)

\* "The total paid equals the total staked to the unit", unless nobody won.
ExactSplit(S, amount, outcome, w) ==
  LET p == splitPayouts(S, amount, outcome, w)
  IN  DOMAIN p # {} => SumFunction(p) = poolOf(S, amount)

\* Nobody is paid more than one unit above the exact pro-rata amount a + a*L/W,
\* nor a whole unit below it, whoever else is in the book.
FairSplit(S, amount, outcome, w) ==
  LET p == splitPayouts(S, amount, outcome, w)
      winningPool == poolOf(winnersOf(S, outcome, w), amount)
      losingPool == poolOf(S, amount) - winningPool
  IN  \A s \in DOMAIN p :
        LET exact == amount[s] * losingPool      \* times winningPool
            got == (p[s] - amount[s]) * winningPool
        IN  exact - winningPool < got /\ got <= exact + winningPool
==============================================================================
