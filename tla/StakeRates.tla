----------------------------- MODULE StakeRates ------------------------------
(***************************************************************************)
(* What a stake in any asset is worth in the unit of the pool              *)
(* (src/src/stakeassets.ts and quoteStake in src/src/custodialstakes.ts).  *)
(*                                                                         *)
(* An amount is a natural number of smallest units, of which Scale[d] make *)
(* a whole when there are d decimals.  A refusal (an exception of the      *)
(* code) is the amount 0, which the conversion itself never returns.       *)
(***************************************************************************)
EXTENDS Integers

CONSTANTS
  POOL_ASSET,
  Scale,               \* per number of decimals: 10 ** d in the code
  POOL_DECIMALS,
  MAX_DECIMALS,        \* the most decimals believed: 36 in the code
  MAX_PLAUSIBLE_RATE,  \* a billion dollars a unit
  STAKE_ASSET_REGISTRY,\* per asset: decimals, enabled, and whether it is a token
  CHAIN_DECIMALS,      \* decimals of the assets that have a chain, retired or not
  Retired              \* assets that may not denominate anything new

RatesAssumption ==
  /\ MAX_DECIMALS \in Nat /\ MAX_PLAUSIBLE_RATE \in Nat \ {0}
  /\ Scale \in [0..MAX_DECIMALS -> Nat \ {0}] /\ POOL_DECIMALS \in 0..MAX_DECIMALS
  /\ POOL_ASSET \in DOMAIN STAKE_ASSET_REGISTRY \cap DOMAIN CHAIN_DECIMALS
  /\ CHAIN_DECIMALS[POOL_ASSET] = POOL_DECIMALS /\ ~ STAKE_ASSET_REGISTRY[POOL_ASSET].token

Refused == 0

\* Is a rate one that can price anything?
assertRate(value) == value > 0 /\ value <= MAX_PLAUSIBLE_RATE

plausible(decimals) == decimals \in 0..MAX_DECIMALS

\* Wrong: rounded up.
poolAmountFor_up(stake, decimals, rates) ==
  LET numerator == stake * Scale[POOL_DECIMALS] * rates.stake
      denominator == Scale[decimals] * rates.pool
  IN  IF stake > 0 /\ plausible(decimals) /\ assertRate(rates.stake) /\ assertRate(rates.pool)
      THEN (numerator + denominator - 1) \div denominator
      ELSE Refused

\* Smallest units of the staked asset to smallest units of the pool, floored.
poolAmountFor(stake, decimals, rates) ==
  IF stake > 0 /\ plausible(decimals) /\ assertRate(rates.stake) /\ assertRate(rates.pool)
  THEN (stake * Scale[POOL_DECIMALS] * rates.stake) \div (Scale[decimals] * rates.pool)
  ELSE Refused

\* The inverse, which the code keeps for checking a row and never pays from.
stakeAmountForPool(pool, decimals, rates) ==
  IF pool > 0 /\ assertRate(rates.stake) /\ assertRate(rates.pool)
  THEN (pool * Scale[decimals] * rates.pool) \div (Scale[POOL_DECIMALS] * rates.stake)
  ELSE Refused

------------------------------------------------------------------------------
(* The assets.                                                             *)

Asset == DOMAIN STAKE_ASSET_REGISTRY
isTokenStakeAsset(code) == STAKE_ASSET_REGISTRY[code].token

\* The seed of the registry's rows: an asset is on, or it says why it is off.
isDeclaredStakeable(code) == code \in Asset /\ STAKE_ASSET_REGISTRY[code].enabled

\* A code that may come in a request: a token, or an asset of a chain that is not retired.
parseStakeAssetCode(code) ==
  \/ code \in Asset /\ isTokenStakeAsset(code)
  \/ code \in DOMAIN CHAIN_DECIMALS /\ code \notin Retired

\* The decimals an amount is read with: a chain's own, which the row has to agree
\* with, or those the row states for a token.
assertRegistryDecimals(code) ==
  LET stated == STAKE_ASSET_REGISTRY[code].decimals
  IN  IF isTokenStakeAsset(code) THEN plausible(stated)
      ELSE code \in DOMAIN CHAIN_DECIMALS /\ CHAIN_DECIMALS[code] = stated

\* The rates of a stake in the pool's own asset: none is applied.
identityRates(rates) == [stake |-> rates.pool, pool |-> rates.pool]

\* What a stake is priced at: the four numbers that are put on its row.
quoteStake(code, stake, rates) ==
  [asset |-> code, stake |-> stake,
   rates |-> IF code = POOL_ASSET THEN identityRates(rates) ELSE rates,
   pool |-> IF ~ assertRegistryDecimals(code) THEN Refused
            ELSE IF code = POOL_ASSET THEN stake
            ELSE poolAmountFor(stake, STAKE_ASSET_REGISTRY[code].decimals, rates)]

------------------------------------------------------------------------------
(* What the conversion promises, of one quote q and any other amount.      *)

\* What pool units are worth in the staked asset is never more than was staked,
\* and short of it by less than one unit of the pool and one of the stake.
RoundTripLoses(q) ==
  LET decimals == STAKE_ASSET_REGISTRY[q.asset].decimals
      back == stakeAmountForPool(q.pool, decimals, q.rates)
      unit == (Scale[decimals] * q.rates.pool) \div (Scale[POOL_DECIMALS] * q.rates.stake) + 1
  IN  q.pool # Refused => back <= q.stake /\ q.stake - back <= unit

\* One stake never buys less of the pool than the same stake in two parts, and at
\* most one unit more; a larger one never buys less.
SplittingNeverGains(q, more) ==
  LET decimals == STAKE_ASSET_REGISTRY[q.asset].decimals
      rest == quoteStake(q.asset, more, q.rates).pool
      whole == quoteStake(q.asset, q.stake + more, q.rates).pool
  IN  q.pool + rest <= whole /\ whole <= q.pool + rest + 1
==============================================================================
