------------------------------- MODULE Service -------------------------------
(***************************************************************************)
(* The parts of the service that share no state with each other, each      *)
(* followed by itself: a behaviour is one of the part that `part' names,   *)
(* and all the others rest.                                                *)
(*                                                                         *)
(*   money    every small book that splitPayouts may divide, and every     *)
(*            small quote                    SplitPayouts, StakeRates      *)
(*   route    the stake routes              StakeRoute                     *)
(*   seeds    the caps of house seeds       SeedCaps                       *)
(*   keys     idempotency keys              Idempotency                    *)
(*   ideas    proposals and documents       Proposals                      *)
(*   estates  one process, two networks     Estates                        *)
(***************************************************************************)
EXTENDS SplitPayouts, Sequences

CONSTANTS MaxStakes, MaxAmount                                 \* money
CONSTANTS
  POOL_ASSET, Scale, POOL_DECIMALS, MAX_DECIMALS, MAX_PLAUSIBLE_RATE, STAKE_ASSET_REGISTRY,
  CHAIN_DECIMALS, Retired,
  Attempt, Bodies, StakeMarket, Opening, RateOf, Funds, MaxStakeRows \* route
CONSTANTS
  Approval, SeedMarket, Sizes, Policies, NoPolicy, MaxSeedDay,
  SEED_PER_MARKET_CEILING_WEI, SEED_PER_DAY_CEILING_WEI        \* seeds
CONSTANTS Request, Key, DeployMarket, MaxKeyRuns               \* keys
CONSTANTS
  Idea, Operator, IdeaMarket, Text, Vague, CATEGORIES, Source, PROPOSAL_TOPICS, Count,
  REFUSALS, None, Second, MaxTime, MaxPipelineRuns, MaxAnswer  \* ideas
CONSTANTS Network, Environment, MarketId, SCHEMA_VERSION, MaxBoots \* estates

VARIABLES
  part,
  amount, outcome, quote,                                      \* money
  body, open, enabled, stakes, made, posted, limbo, held, at, read, answer, \* route
  draftStatus, house_seeds, day, approval, tx, overlapped,     \* seeds
  deployStatus, keys, deploy, queue, runs, lost, deployAnswer, \* keys
  ideas, editing, run, questions, now,                         \* ideas
  env, schema, phase, boots, markets, jobs, claimed, contracts \* estates

moneyVars == <<amount, outcome, quote>>
routeVars == <<body, open, enabled, stakes, made, posted, limbo, held, at, read, answer>>
seedsVars == <<draftStatus, house_seeds, day, approval, tx, overlapped>>
keysVars == <<deployStatus, keys, deploy, queue, runs, lost, deployAnswer>>
ideasVars == <<ideas, editing, run, questions, now>>
estatesVars == <<env, schema, phase, boots, markets, jobs, claimed, contracts>>

vars == <<part, moneyVars, routeVars, seedsVars, keysVars, ideasVars, estatesVars>>

Route == INSTANCE StakeRoute WITH Market <- StakeMarket

Seeds == INSTANCE SeedCaps WITH
  Market <- SeedMarket, MaxDay <- MaxSeedDay, status <- draftStatus, request <- approval

Keys == INSTANCE Idempotency WITH
  Market <- DeployMarket, MaxRuns <- MaxKeyRuns,
  status <- deployStatus, request <- deploy, answer <- deployAnswer

Ideas == INSTANCE Proposals WITH
  Market <- IdeaMarket, MaxRuns <- MaxPipelineRuns, markets <- questions

Estates == INSTANCE Estates

ASSUME ServiceAssumption ==
  /\ MaxStakes \in Nat /\ MaxAmount \in Nat
  /\ Route!RouteAssumption /\ Seeds!SeedAssumption /\ Keys!KeysAssumption
  /\ Ideas!ProposalsAssumption /\ Estates!EstatesAssumption

------------------------------------------------------------------------------
(* money: a book is built one stake at a time; or there is one quote.      *)

S == DOMAIN amount
NoQuote == [asset |-> "none", stake |-> 0, rates |-> Route!NoRates, pool |-> 0]

take(n, o) ==
  /\ Len(amount) < MaxStakes /\ quote = NoQuote
  /\ amount' = Append(amount, n)
  /\ outcome' = Append(outcome, o)
  /\ quote' = quote

price(code, n, rates) ==
  /\ S = {} /\ quote = NoQuote
  /\ quote' = Route!quoteStake(code, n, rates)
  /\ UNCHANGED <<amount, outcome>>

Money ==
  \/ \E n \in 1..MaxAmount, o \in 0..1 : take(n, o)
  \/ \E code \in DOMAIN STAKE_ASSET_REGISTRY, n \in 1..3*MaxAmount,
        rates \in [stake : 1..MAX_PLAUSIBLE_RATE, pool : 1..MAX_PLAUSIBLE_RATE] :
       price(code, n, rates)

------------------------------------------------------------------------------

parts == {"money", "route", "seeds", "keys", "ideas", "estates"}

\* A part that is not followed has one of its initial states.
Init ==
  /\ part \in parts
  /\ amount = <<>> /\ outcome = <<>> /\ quote = NoQuote
  /\ Route!Init /\ Seeds!Init /\ Keys!Init /\ Ideas!Init /\ Estates!Init

Next ==
  \/ /\ part = "money" /\ Money
     /\ UNCHANGED <<part, routeVars, seedsVars, keysVars, ideasVars, estatesVars>>
  \/ /\ part = "route" /\ Route!Next
     /\ UNCHANGED <<part, moneyVars, seedsVars, keysVars, ideasVars, estatesVars>>
  \/ /\ part = "seeds" /\ Seeds!Next
     /\ UNCHANGED <<part, moneyVars, routeVars, keysVars, ideasVars, estatesVars>>
  \/ /\ part = "keys" /\ Keys!Next
     /\ UNCHANGED <<part, moneyVars, routeVars, seedsVars, ideasVars, estatesVars>>
  \/ /\ part = "ideas" /\ Ideas!Next
     /\ UNCHANGED <<part, moneyVars, routeVars, seedsVars, keysVars, estatesVars>>
  \/ /\ part = "estates" /\ Estates!Next
     /\ UNCHANGED <<part, moneyVars, routeVars, seedsVars, keysVars, ideasVars>>

Spec == Init /\ [][Next]_vars

------------------------------------------------------------------------------
(* What is asked of each part.                                             *)

\* The types of every part, with what the schema's constraints add to them.
TypeOK ==
  /\ part \in parts
  /\ amount \in Seq(1..MaxAmount) /\ outcome \in Seq(0..1) /\ Len(amount) = Len(outcome)
  /\ CASE part = "route" -> Route!TypeOK
       [] part = "seeds" -> Seeds!TypeOK
       [] part = "keys" -> Keys!TypeOK
       [] part = "ideas" -> Ideas!TypeOK
       [] part = "estates" -> Estates!TypeOK
       [] OTHER -> TRUE

\* splitPayouts and poolAmountFor: neither rounding makes money.  A book is paid out
\* to the unit, whichever outcome wins, and no winner is a whole unit short or more
\* than one over; and a stake is credited no more of the pool than it is worth at
\* the rates of its quote, and less by at most a unit of the dearer of the two assets,
\* rounded up; nor would it be credited more if it were sent in two parts.
NoMoneyIsMade ==
  /\ \A w \in 0..1 : ExactSplit(S, amount, outcome, w) /\ FairSplit(S, amount, outcome, w)
  /\ \A q \in ({s.quote : s \in stakes} \cup {quote}) \ {NoQuote} :
       Route!RoundTripLoses(q) /\ \A more \in 1..MaxAmount : Route!SplittingNeverGains(q, more)

\* POST stakes and its retries: every entry that took somebody's money has its row,
\* one key has taken it once, and no answer says otherwise.
StakesAreExplained == Route!StakesAreExplained

\* withIdempotency: see Idempotency.
OneEffectPerKey == Keys!OneEffectPerKey

\* editIdea, approveIdea, discardIdea, documentFor: see Proposals.
DecisionsStand == Ideas!DecisionsStand

\* index.ts and forRequest: see Estates.
EstatesStayApart == Estates!EstatesStayApart

\* POST /markets/:id/approve and the ceilings of the schema: see SeedCaps.
UncontendedSeedsFit == Seeds!UncontendedSeedsFit
==============================================================================
