--------------------------- MODULE ForesightMarket ---------------------------
(***************************************************************************)
(* One deployed ForesightMarket contract                                   *)
(* (src/src/contracts/ForesightMarket.sol): a two-outcome parimutuel       *)
(* market that holds its own money.  Every external function is one        *)
(* action; a call that reverts changes nothing and is left out.  A         *)
(* transfer is the last thing a function does, after every storage write,  *)
(* so a call is one atomic step.  Amounts are wei; a staker's purse is     *)
(* finite, which is what bounds the pools.                                 *)
(***************************************************************************)
EXTENDS Integers, FiniteSets

CONSTANTS Staker,         \* addresses that may stake
          Oracle,         \* the oracle address given to the constructor
          OracleNonces,   \* nonces at which the oracle key may create a contract
          Funds,          \* the wei each staker owns when the market is deployed
          StakeSizes,     \* the values a stake may be sent with
          closeTime, disputeWindowSeconds, feeBps,  \* constructor arguments
          MaxTime         \* bound: the clock stops here while the market is open

BPS == 10000
MAX_FEE_BPS == 1000
YES == 0
NO == 1
Outcome == {YES, NO}

ASSUME ConstructorAssumption ==
  /\ closeTime \in Nat \ {0}
  /\ disputeWindowSeconds \in Nat
  /\ feeBps \in 0..MAX_FEE_BPS
ASSUME EnvironmentAssumption ==
  /\ Funds \in Nat
  /\ StakeSizes \subseteq Nat \ {0}
  /\ Oracle \notin Staker
  /\ OracleNonces \subseteq Nat
  /\ MaxTime \in Nat

Status == {"Open", "Resolved", "Void"}
ACTION_RESOLVE_YES == 0
ACTION_RESOLVE_NO == 1
ACTION_VOID == 2
OracleAction == {ACTION_RESOLVE_YES, ACTION_RESOLVE_NO, ACTION_VOID}

VARIABLES
  now,                  \* block.timestamp
  status, winningOutcome, resolvedAt,
  pool,                 \* wei staked per outcome
  stakes,               \* _stakes[staker][outcome]
  claimed,              \* addresses whose claimed flag is set
  winningStakeClaimed, feePaid,
  balance,              \* address(this).balance
  purse,                \* the wei each staker holds outside the contract
  treasury              \* the wei the treasury has received

decision == <<status, winningOutcome, resolvedAt>>
book == <<pool, stakes>>
vars == <<now, decision, book, claimed, winningStakeClaimed, feePaid,
          balance, purse, treasury>>

------------------------------------------------------------------------------
(* The views. *)

total == pool[YES] + pool[NO]

\* Wrong: the fee taken off the top of the whole pool.
feeAmount_offTheTop == IF status = "Resolved" THEN (total * feeBps) \div BPS ELSE 0

\* The fee is a share of the losing pool, and only of a resolved market's.
feeAmount == IF status = "Resolved"
               THEN (pool[1 - winningOutcome] * feeBps) \div BPS
               ELSE 0

\* Wrong: the fee subtracted a second time.
distributable_netTwice == total - feeAmount - feeAmount

distributable == total - feeAmount

\* Wrong: a refund of one side only.
payoutOf_oneSideRefund(s) ==
  IF s \in claimed \/ status = "Open" THEN 0
  ELSE IF status = "Void" THEN stakes[s][YES]
  ELSE IF stakes[s][winningOutcome] = 0 THEN 0
  ELSE (stakes[s][winningOutcome] * distributable) \div pool[winningOutcome]

payoutOf(s) ==
  IF s \in claimed \/ status = "Open" THEN 0
  ELSE IF status = "Void" THEN stakes[s][YES] + stakes[s][NO]
  ELSE IF stakes[s][winningOutcome] = 0 THEN 0
  ELSE (stakes[s][winningOutcome] * distributable) \div pool[winningOutcome]

\* The Resolved half of every guard on money leaving: the window has passed.
disputeWindowOver == now >= resolvedAt + disputeWindowSeconds

------------------------------------------------------------------------------
Init ==
  /\ now = 0
  /\ status = "Open" /\ winningOutcome = YES /\ resolvedAt = 0
  /\ pool = [o \in Outcome |-> 0]
  /\ stakes = [s \in Staker |-> [o \in Outcome |-> 0]]
  /\ claimed = {} /\ winningStakeClaimed = 0 /\ feePaid = FALSE
  /\ balance = 0 /\ treasury = 0
  /\ purse = [s \in Staker |-> Funds]

\* Wrong: a stake in the very second of the close is taken.
stake_atClose(s, o, value) ==
  /\ status = "Open"
  /\ now <= closeTime
  /\ value <= purse[s]
  /\ stakes' = [stakes EXCEPT ![s][o] = @ + value]
  /\ pool' = [pool EXCEPT ![o] = @ + value]
  /\ purse' = [purse EXCEPT ![s] = @ - value]
  /\ balance' = balance + value
  /\ UNCHANGED <<now, decision, claimed, winningStakeClaimed, feePaid, treasury>>

stake(s, o, value) ==
  /\ status = "Open"
  /\ now < closeTime
  /\ value <= purse[s]
  /\ stakes' = [stakes EXCEPT ![s][o] = @ + value]
  /\ pool' = [pool EXCEPT ![o] = @ + value]
  /\ purse' = [purse EXCEPT ![s] = @ - value]
  /\ balance' = balance + value
  /\ UNCHANGED <<now, decision, claimed, winningStakeClaimed, feePaid, treasury>>

\* CREATE is injective in (creator, nonce), so a created address is the pair.
computeCreateAddress(deployer, nonce) == <<deployer, nonce>>

Caller == Staker \cup {Oracle}
          \cup {computeCreateAddress(a, n) : a \in Staker \cup {Oracle}, n \in OracleNonces}

isOracle(caller, oracleNonce) ==
  \/ caller = Oracle
  \/ caller = computeCreateAddress(Oracle, oracleNonce)

outcomeOf(action) == IF action = ACTION_RESOLVE_YES THEN YES ELSE NO

\* VOID at any time while Open; an outcome only from the close on, and an
\* outcome nobody backed voids the market instead.
oracleAct(caller, oracleNonce, action) ==
  /\ isOracle(caller, oracleNonce)
  /\ status = "Open"
  /\ \/ action = ACTION_VOID /\ status' = "Void"
        /\ UNCHANGED <<winningOutcome, resolvedAt>>
     \/ /\ action # ACTION_VOID
        /\ now >= closeTime
        /\ IF pool[outcomeOf(action)] = 0
             THEN status' = "Void" /\ UNCHANGED <<winningOutcome, resolvedAt>>
             ELSE /\ status' = "Resolved"
                  /\ winningOutcome' = outcomeOf(action)
                  /\ resolvedAt' = now
  /\ UNCHANGED <<now, book, claimed, winningStakeClaimed, feePaid,
                 balance, purse, treasury>>

\* claim() and claimFor(): anybody may call it for any staker.
claim(s) ==
  /\ status # "Open"
  /\ status = "Resolved" => disputeWindowOver
  /\ s \notin claimed
  /\ payoutOf(s) > 0
  /\ payoutOf(s) <= balance          \* _send: the transfer must succeed
  /\ claimed' = claimed \cup {s}
  /\ winningStakeClaimed' = winningStakeClaimed
       + (IF status = "Resolved" THEN stakes[s][winningOutcome] ELSE 0)
  /\ balance' = balance - payoutOf(s)
  /\ purse' = [purse EXCEPT ![s] = @ + payoutOf(s)]
  /\ UNCHANGED <<now, decision, book, feePaid, treasury>>

\* Wrong: the fee may be taken again and again.
settle_repeatable ==
  /\ status = "Resolved"
  /\ disputeWindowOver
  /\ balance' = balance - feeAmount
  /\ treasury' = treasury + feeAmount
  /\ feePaid' = TRUE
  /\ UNCHANGED <<now, decision, book, claimed, winningStakeClaimed, purse>>

settle ==
  /\ status = "Resolved"
  /\ disputeWindowOver
  /\ ~feePaid
  /\ feeAmount <= balance
  /\ feePaid' = TRUE
  /\ balance' = balance - feeAmount
  /\ treasury' = treasury + feeAmount
  /\ UNCHANGED <<now, decision, book, claimed, winningStakeClaimed, purse>>

\* Wrong: swept while winners are outstanding.
sweepDust_early ==
  /\ status = "Resolved"
  /\ feePaid
  /\ balance > 0
  /\ treasury' = treasury + balance
  /\ balance' = 0
  /\ UNCHANGED <<now, decision, book, claimed, winningStakeClaimed, feePaid, purse>>

\* Wrong: waits for the losing stakes to be claimed too.
sweepDust_waitsForLosers ==
  /\ status = "Resolved"
  /\ feePaid
  /\ winningStakeClaimed = total
  /\ balance > 0
  /\ treasury' = treasury + balance
  /\ balance' = 0
  /\ UNCHANGED <<now, decision, book, claimed, winningStakeClaimed, feePaid, purse>>

sweepDust ==
  /\ status = "Resolved"
  /\ feePaid
  /\ winningStakeClaimed = pool[winningOutcome]
  /\ balance > 0
  /\ treasury' = treasury + balance
  /\ balance' = 0
  /\ UNCHANGED <<now, decision, book, claimed, winningStakeClaimed, feePaid, purse>>

\* Time passes. The clock is followed to MaxTime, and past it only while a
\* dispute window is still running.
Tick ==
  /\ now < MaxTime \/ (status = "Resolved" /\ ~disputeWindowOver)
  /\ now' = now + 1
  /\ UNCHANGED <<decision, book, claimed, winningStakeClaimed, feePaid,
                 balance, purse, treasury>>

Next ==
  \/ \E s \in Staker, o \in Outcome, v \in StakeSizes : stake(s, o, v)
  \/ \E c \in Caller, n \in OracleNonces, a \in OracleAction : oracleAct(c, n, a)
  \/ \E s \in Staker : claim(s)
  \/ settle
  \/ sweepDust
  \/ Tick

Spec == Init /\ [][Next]_vars

\* claim, settle and sweepDust are permissionless and are retried by whoever
\* wants the money; nobody is obliged to stake and the oracle may be silent.
FairSpec ==
  /\ Spec
  /\ WF_vars(Tick)
  /\ \A s \in Staker : WF_vars(claim(s))
  /\ WF_vars(settle)
  /\ WF_vars(sweepDust)

------------------------------------------------------------------------------
TypeOK ==
  /\ now \in Nat
  /\ status \in Status /\ winningOutcome \in Outcome /\ resolvedAt \in Nat
  /\ pool \in [Outcome -> Nat]
  /\ stakes \in [Staker -> [Outcome -> Nat]]
  /\ claimed \subseteq Staker
  /\ winningStakeClaimed \in Nat /\ feePaid \in BOOLEAN
  /\ balance \in Nat /\ treasury \in Nat
  /\ purse \in [Staker -> Nat]

\* What is still owed to the treasury on top of the stakers.
feeOwed == IF feePaid THEN 0 ELSE feeAmount

\* The contract can always pay the next claim, whoever is next and whatever
\* has been claimed, settled or swept before it, without touching the fee it
\* still owes (_claim, settle, sweepDust).
ClaimsCovered == \A s \in Staker : payoutOf(s) + feeOwed <= balance

\* "A winner always receives at least their own stake back": a staker who has
\* claimed on a resolved market has lost at most their losing stake
\* (feeAmount, payoutOf).
WinnersKeepPrincipal ==
  status = "Resolved" =>
    \A s \in claimed : purse[s] + stakes[s][1 - winningOutcome] >= Funds

\* "Refunds are whole": on a void market a claim restores everything the staker
\* put in, on both sides, and takes nothing from anybody else.
RefundsAreWhole ==
  status = "Void" =>
    \A s \in Staker : purse[s] = IF s \in claimed THEN Funds
                                 ELSE Funds - (stakes[s][YES] + stakes[s][NO])

\* The treasury never takes more than the fee and the rounding residue, and the
\* residue is less than one wei per winner (settle, sweepDust).
TreasuryTakesFeeAndDust ==
  status = "Resolved" =>
    LET winners == {s \in Staker : stakes[s][winningOutcome] > 0}
    IN  treasury < feeAmount + Cardinality(winners)

\* A decision is taken on a book that nobody can still write to: from the close
\* on, or once the market is decided, the stakes stay what they were, including
\* in the second in which the close falls (stake, oracleAct).
BookClosesBeforeOutcome ==
  [][now >= closeTime \/ status # "Open" => UNCHANGED book]_vars

\* No money is stranded: once decided, the contract is emptied by calls anybody
\* can make (claim, claimFor, settle, sweepDust).
EverythingPaidOut == status # "Open" ~> balance = 0

==============================================================================
