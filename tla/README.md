# Foresight in TLA+

A verification of `micro-foresight`, a prediction-market service: TLA+ models of
its parts, TLC runs over small instances of them, and theorems checked by TLAPS.
Paths below are relative to the repository (`src/src/jobs.ts` is a file of the
service); "sol" is `src/src/contracts/ForesightMarket.sol`.

## The system

The service runs two-outcome parimutuel markets. A market is a row in Postgres
and, once deployed, a contract that holds its own money. People stake either
directly into the contract or through the service (*custodial* stakes), whose
money sits in a double-entry ledger that is another service. Several replicas
run the HTTP routes and a leased job queue (`@cloudsforge/jobs`); Postgres
transactions and conditional updates are the only synchronisation. Custody
signs, a node broadcasts and mines, an indexer reports what the chain holds.

| part | state it keeps | operations | what makes it correct |
|---|---|---|---|
| **market contract** (sol) | status, pools, stakes, claims, fee flag, balance | `stake`, `oracleAct`, `claim`, `claimFor`, `settle`, `sweepDust` | it can always pay the next claim; winners keep their stake; void refunds are whole; the treasury takes the fee and dust only; the book is closed before an answer; nothing is stranded |
| **stake routes** (`server.ts`, `custodialstakes.ts`) | `custodial_stakes` rows with their keys; entries and balances at the ledger | quote, intent, stake, replay; accept, escrow posting, record, delete | every entry that took money has its row, one key takes it once, no answer says otherwise; escrow holds exactly what is in and not out |
| **settlement job** (`custodialSettleHandler`, `jobs.ts:520`) | the job's lease, its list of stakes | refund or pay every stake of a market that is over | what was staked is paid; a void leaves every account flat; everything leaves escrow; two runners do no harm |
| **pool division** (`splitPayouts`) | none | floor shares, hand out the dust | exact to the unit and within a unit of pro rata |
| **resolution** (`resolve.ts`, `resolutionPostHandler`) | `resolutions` rows, leases, the oracle's nonce | plan, claim, nonce, sign, commit, send, receipt, apply | commit before send; one transaction per nonce; the registry follows the chain, and gets there when nothing fails |
| **deploy** (`deploy.ts`, `marketDeployHandler`, `deploySweepHandler`) | deploy columns, lease, job row | provision, quote, fund, nonce, sign, commit, send, receipt | one contract per market; open only on a mined one; every deploy ends |
| **registry** (`markets.ts`, `ideas.ts`, routes) | `ideas`, `markets` | propose, approve, discard, draft, open, close, plan, resolve, void | nothing opens unapproved; what opened is decided, unless its resolution was left where nothing takes it up |
| **house seed** (`houseseed.ts`, approve route, schema) | `house_seeds` | size and cap checks, plan at approval, record at opening | the caps of the policy and of the schema hold; the disclosed stake is in the pool, on both sides |
| **position mirror** (`mirror.ts`) | `positions`, `mirror_cursors` | read activity, read each transaction, write | it converges to the chain after reorganisations |
| **outbox, relay, inbox** (`outbox.ts`, `jobs.ts:684-748`) | `outbox`, `outbox_deliveries`, `event_subscriptions`, `inbox`, the relay's job | emit in the transaction, relay, record, publish, re-arm, handle once | no event lost, none about a change that did not commit, none handled twice |
| **idempotency** (`idempotency.ts`) | `idempotency_keys` | claim, work and response in one transaction, replay | one effect per key, and an answer that is the caller's own |
| **stake assets, rates** (`stakeassets.ts`, `pricingclient.ts`) | `stake_assets` | read two rates, convert to the pool's unit and back, switch off | no more of the pool than a stake is worth, split or not |
| **proposals** (`ideas.ts`, `proposer.ts`, `categories.ts`, `questiondoc.ts`) | `ideas`, the pipeline's job | propose, edit, approve, discard, draft with its document | a decision stands on the text it was made on; a row is its document |
| **the process** (`env.ts`, `migrator.ts`, `index.ts`, `forRequest`) | the planes: a database, a queue and a runner per network | refuse or start, migrate, serve, drain, attribute a request | what is one network's stays in its database, queue and chain |
| upstream clients, EVM encoding, images, migrations | none beyond the schema | I/O, encoding | - |

How they interact. The approve route writes the market and its seed and enqueues
the deploy; the deploy job ends by enqueuing one `mirror.sync`; the opening
gate reads the deploy's outcome and, for a seeded market, the mirror; closing is
a sweep; planning writes a `resolutions` row that the resolution job drives; the
receipt makes it write the registry; a market that is `resolved` or `void` is
what the settlement job looks for. Jobs and routes meet only in rows, so every
read may be stale by the time the write happens: the models keep the reads and
writes apart wherever the code has an await between them.

The hard behaviours: two workers on one job after a lapsed lease; crashes
between a commit and a send; an upstream that refuses, is silent, or did the work
and then was silent; a shared nonce; reorganisations under the mirror; requests
that outlive the market; integer rounding of fees, shares and dust. `PROJECT.json`
lists each at its line under `hazards`, with the properties that would notice.

## The modules

| module | models | state corresponds to | actions correspond to |
|---|---|---|---|
| `ForesightMarket` | sol | storage variables by name; `purse` and `treasury` are the accounts outside; `now` the block time | one action per external function; a revert is a step not taken |
| `SplitPayouts` | `splitPayouts` | - | operators on a set of numbered stakes |
| `StakeRates` | `stakeassets.ts`, `quoteStake` | - | operators: the registry's checks, the two conversions, a quote |
| `StakeRoute` | the quote, intent and stake routes, with the policy, pricing and ledger clients | `stakes` = `custodial_stakes`; `at`, `read`, `answer` = each attempt's position, what it has read, its reply; `limbo` = postings nobody waits for | one action per await: every check, read, write or call |
| `SeedCaps` | approving with a seed: policy, sums, trigger | `house_seeds`; `tx` = rows of open transactions | one action per statement, and the commit |
| `Idempotency` | `withIdempotency` around the deploy route | `keys`; `queue` = the deploy jobs; `runs`, `lost` = the effects of a key and the transactions that did not commit | claim, run, respond, crash |
| `Proposals` | `ideas.ts`, the pipeline, drafts and documents | `ideas`, `markets`; `run` = the job; `editing` = what an edit has read | one action per route or step of the pipeline |
| `Estates` | environment, migrator, planes, `forRequest`, runners | `markets`, `jobs` per database; `phase` = the process | migrate, boot, serve, drain, exit; one action per route or job that crosses a network |
| `CustodialStakes` | stake route, rows, postings, settlement job, ledger | `row` = `custodial_stakes`, `entries`/`credited`/`bal` = the ledger, `request` = the route's position, `job`/`holder`/`attempts` = the runner | one action per database write or ledger call |
| `OutboundTx` | the rule `deploy.ts` and `resolve.ts` share: bytes are committed once, then perhaps sent | `committed`, `wire` | `Commit`, `Send` |
| `Resolution` | `resolve.ts`, the resolution job, node and contracts | `res` = `resolutions`, `market` = the registry's status, `pool`/`mined` = node | one action per query or call of the drive |
| `Deploy` | `deploy.ts`, its job and sweep, open and void routes | `deploy`, `lease`, `status` = the market row | the same |
| `Mirror` | `syncMarket`, sweep, indexer | `positions`, `sync` = what a run has read, `seen` = the indexer's view | one action per indexer call, one for the write |
| `Registry` | `ideas.ts`, `markets.ts`, seed gate and routes, composed with `Mirror`; of the resolution, every step after which it can be left for good | `idea`, `market`, `seed`; `plan` = the `resolutions` row, and whether a pass has it in hand | one action per route or job step |
| `Notification` | what the outbox promises: each subscriber acts on changes that happened, once each | `happened`, `acted` | `Happen`, `ActOn` |
| `Outbox` | `outbox.ts`, the relay's job and its recurrence (`jobs.ts`), a subscriber with an inbox | the four tables by name; `since` = the rows there were at a subscription; `run` = what each replica's pass has read | one action per query or call of a pass |
| `Service` | `StakeRates` and `SplitPayouts`, `StakeRoute`, `SeedCaps`, `Idempotency`, `Proposals` and `Estates` side by side | `part` = the one of the six a behaviour is of | those of the part |
| `ForesightMarketProofs`, `CustodialStakesProofs`, `ResolutionProofs`, `DeployProofs`, `RegistryProofs`, `ServiceProofs`, `SplitPayoutsProofs`, `OutboxProofs` | theorems on the module each is named after; `SplitPayoutsProofs` also holds the lemmas on sums over a finite set | | |
| `MC...` | instances for TLC; `MCEstates` names the environments | | |

`Resolution` and `Deploy` both implement `OutboundTx` under a refinement
mapping: the bytes on the rows are `committed`, the mempool and the mined
transactions are `wire`. A change of the bytes after they are set, or bytes on
the wire that no row names, is not a step of `OutboundTx`. `Outbox` implements
`Notification`, with the registry's committed changes as `happened`.

`CustodialStakes` and `StakeRoute` meet in the row and its posting. The first has one
request for each stake and follows its money to the end; the second has every check and
answer of the route, any number of attempts on one key, rates and a ledger that is late,
and stops when the row is booked. `Registry` and `Proposals` meet in the approval of an
idea: the first needs its status, the second its text. `SeedCaps` ends at the commit that
is one action of `Registry`, and `Estates` has as one step what `Deploy` and `Outbox` have
in full.

External parts are what the code relies on and no more. The *ledger* posts an
entry once per key and refuses to overdraw a user's account. The *node* accepts
a transaction, or says it is already known, refuses, or is silent having taken it
or not; it mines an account's transactions in nonce order. *Custody* returns
different bytes each time it signs. The *indexer* may list a transaction before
it has finished it, and for a while shows both sightings of one that was
orphaned and included again. The *job runner* deletes a job that completes,
retries one that throws up to a number of attempts, and lets another worker claim
it once the lease lapses, while the first is perhaps still running; a process that
was overtaken still deletes the row it was started for. A *subscriber* answers after
it has committed the event, and may get a request late or more than once.

Each operator named `x_y` next to an operator `x` is a wrong form of it (a
dropped guard, a lost step); substituting it must break a property, which shows
the property looks at the code it claims to be about.

## The runs

| run | instance | shows |
|---|---|---|
| `MCForesightMarket` | 3 stakers with 21 wei, stakes of 7 or 21, a 10 % fee, all interleavings | `ClaimsCovered`, `WinnersKeepPrincipal`, `RefundsAreWhole`, `TreasuryTakesFeeAndDust`, `BookClosesBeforeOutcome`, and that the contract is emptied (`EverythingPaidOut`) |
| `MCCustodialStakes` | 3 stakes of 2 users in 2 assets, 1 market, no fault | `PoolConserved`, `EscrowAccounted`, `VoidLeavesFlat`, and everything leaves escrow (`ExitReached`) |
| `MCCustodialStakesFaults` | 2 stakes, 2 markets, 2 runners, 2 faults, requests that outlive their market | `MarkedRowsHaveEntries`, `WinnersKeepStake`, `TerminalRowsStay` |
| `MCCustodialStakesOutage` | 3 stakes, 1 fault | *violated*: `PoolConserved` |
| `MCResolution` | 2 markets, 2 workers, 2 faults | `RowsAndWireAgree` (only committed bytes are sent, and what a row says was sent is on the wire), `ChainFirst` (the registry decides after the contract and as it did, but for an answer nobody backed), `OutboundTx` (`CommitBeforeSend`), and where no fault happens every plan reaches the chain, and what the chain decided the registry (`CalmResolutionArrives`) |
| `MCResolutionCrash` | 1 market, 1 fault | *violated*: `PlanCarriedOut` |
| `MCDeploy` | 2 workers, 3 faults, up to 4 signatures | `OneContract` (and an open market has it), `CommitBeforeSend`, `DeployFinishes` |
| `MCRegistry` | a seeded market from a proposal, 2 house stakes, 2 workers, 1 reorganisation, 1 fault of the mirror, the deploy's job or the resolution | `UnapprovedNeverOpens`, `OpenSeedIsInPool`, `MirrorConverges`, `OpenedIsDecided` (or its resolution is `stranded`) |
| `MCRegistrySeed` | the same, no fault, no reorganisation | *violated*: `SeededMarketOpens` |
| `MCOutbox` | 2 changes, 2 subscribers, one of them from the start, 2 replicas, 1 fault | `Notification` (`EffectivelyOnce`), `PublishedReachedAll`, `EveryChangeReaches` |
| `MCService` | six parts, each by itself, see below | `NoMoneyIsMade`, `StakesAreExplained`, `UncontendedSeedsFit`, `OneEffectPerKey`, `DecisionsStand`, `EstatesStayApart` |
| `MCEstatesMainnet` | the settings of `src/.env.example`, a node of either network | *violated*: `MainnetIsDeliberate` |

Each module's `TypeOK` is checked by one of its runs. Deadlock is not checked where
the system comes to rest: a market that is decided and paid out has nothing left
to do, and the bounded clocks, stakes and faults run out.

`EveryChangeReaches` has an exception that is the code's: the next run of a
recurring job is enqueued after the row of the last one is deleted, nobody awaits
that, and a failure is only logged (`jobs.ts:737-746`). A crash in between is repaired when
the replica starts again; a failed enqueue in a process that lives on is not, and
`unarmed` says that this has happened. The property promises delivery unless it has.

`OpenedIsDecided` and `ChainFirst` have exceptions that are the code's, too. A market that
took stakes is decided, or its row is `stranded`: left `building` (`claimForBuilding`
takes only what is planned), left `confirmed` before the registry knew
(`listOutstandingResolutions` no longer lists it), or failed (a market is planned once).
The run's one fault can fall on each of these steps; what it cannot do is leave a market
undecided whose row is not in one of the three. `ChainFirst` says that registry and
contract agree on every market whose outcome in the registry somebody backed, and that
the contract is void where nobody did.

`OneEffectPerKey` has one as well: the deploy route enqueues through the queue's own
connection, so a transaction that does not commit leaves its job behind, and the retry of
its key enqueues again. The property counts: the work of a key is done at most once more
than its transactions were lost.

The parts of `Service` share no variable, so a behaviour is one of the part named by
`part` and the others rest in an initial state; each part is explored as if alone, and a
mutant of any of them is seen by its own property.

| part | instance | property |
|---|---|---|
| money | every book of up to 4 stakes of 1..5 units, whichever side wins; every quote of 1..15 units at rates 1..5 | `NoMoneyIsMade`: a book is paid out to the unit and within a unit of pro rata; no quote credits more than the stake is worth, nor would two parts of it |
| route | 2 attempts of any two of 14 bodies: two users with one key, a service, no token, six assets, a closed market, no market, a malformed amount; decimals in base 2, rates 1, 3 and unusable; a market that closes and assets that are switched off meanwhile | `StakesAreExplained`: each debit has its row, one key is debited once, 201 is a booked stake of the caller, a refusal other than 503 took nothing |
| seeds | 3 approvals of 2 drafts, ceilings 3 and 5, policies on both sides of them, 2 days | `UncontendedSeedsFit`: approvals that do not overlap keep every cap |
| keys | 3 requests over 2 keys and 2 markets, crashes, a queue that fails | `OneEffectPerKey`: see above; a replay tells of the caller's own market, and a retry is not told that its key is another's |
| ideas | 2 proposals, 1 operator whose edit is two steps, 1 run of the pipeline, 1 draft, 3 texts | `DecisionsStand`: no step changes what was decided on, its author or its sources, or leaves a row that is not its document |
| estates | 2 databases, 2 markets, 2 boots, every combination of the settings that tell the planes apart | `EstatesStayApart`: rows, jobs, keys and contracts of one network stay in its database, queue and chain |

**The four violations** are disagreements between the code and what the repository
says of it; `PROJECT.json` quotes both sides.
1. *Outage* (`jobs.ts:524`): a pass interrupted by the ledger leaves some stakes
   paid; the next pass divides the pool among the stakes that are left, so the
   total paid is not the total staked.
2. *Mainnet* (`index.ts:49`): the process's own network is `CF_NETWORK_SINGLE`, or the
   mainnet when that is empty; `FORESIGHT_NETWORK` and `FORESIGHT_MAINNET_ENABLED` decide
   whether the process starts and nothing afterwards. As shipped, a request without a
   header is the mainnet's, and its market is deployed there if the node is the mainnet's.
3. *Crash* (`resolve.ts:357`): a row left `building` is listed as outstanding and
   never claimed, and blocks the nonce of its whole chain.
4. *Seed* (`mirror.ts:269`): the sweep skips `approved` markets, so a house stake
   made after the deploy's single sync is never mirrored and the market never opens.

**Known not to hold**, found with these modules, without a run of their own:
- *A refund that is stuck* (`jobs.ts:561`). `ExitReached` under one fault: a request dies
  between the row and its posting, the market is voided, the ledger refuses to
  refund what escrow never got, the refusal is thrown, and the attempts of the one
  settlement job run out. `jobs.ts:572-575` says that such a stake "still has to be
  refundable". `CustodialStakes` shows it with `MaxFaults = 1`.
- *Seeds above the ceiling* (`server.ts:1437`). `UncontendedSeedsFit` without
  `~ overlapped`: two approvals read the day's total before either commits, and the
  trigger (`migrations.ts:709`) sums committed rows only, so both pass.
- *An answer nobody backed* (`jobs.ts:396`). `ChainFirst` without `unbacked`, that is
  `market[m] \in {"closed", contract[m]}`, in `MCResolution`, with no fault: the outcome
  that is posted has an empty pool, so the contract voids itself (sol:247-251), the
  receipt is one of success, and the registry writes the planned outcome, on which the
  custodial stakes are then settled. `jobs.ts:389` has it "Write down what the chain has
  already accepted", as has `markets.ts:497`, and `custodialstakes.ts:969` says that the
  custodial pool "settles against the outcome the CHAIN resolved".
- *A market confirmed and never told* (`jobs.ts:368-376`). `OpenedIsDecided` without
  `stranded`, or `CalmResolutionArrives` without `faults = 0`: a crash between
  `markResolutionConfirmed` and `applyConfirmedResolution` leaves the contract decided and
  the registry closed for ever.
- *A void market with a contract* (`server.ts:1596`). The void route reads that there is no
  contract, a deploy signs, and the route voids: the contract goes on taking stakes. The
  comment at `server.ts:1585-1587` and the answer at 1600 say that the route does not let
  the two disagree. `Registry` and `Deploy` have its read and its write as two steps.
- *A seed orphaned after the opening* (`houseseed.ts:185`). A house stake may be orphaned
  once the gate has seen it, and nothing looks again: `OpenSeedIsInPool` with `canonical`
  for `listed`. `houseseed.ts:34` and `server.ts:1510` speak of money in the pool.
- *"Within one smallest unit"* (`stakeassets.ts:429-430`), of the way from a stake to the
  pool and back. It is within one unit of the dearer of the two assets, rounded up, which
  is what `NoMoneyIsMade` checks; of a cheaper stake it is many.
- *A replay of a stake that is going* (`server.ts:1064`). A retry that arrives between
  the refusal and the deletion is answered 200 with a row that is about to be deleted.

**Comments that lag the code.** No property is about these; who reads the code beside the
models should know of them.
- `.env.example:119-125`: that nothing refunds or settles a custodial stake.
  `custodialSettleHandler` (`jobs.ts:520`) does.
- `server.ts:660-661` and `1032-1034`: a stake `accepted` without its escrow entry is one "the
  reconciler finishes", or the operator. There is no such code; `StakeRoute` leaves it
  there until the user retries the key, as the code does.
- `server.ts:506-508` and `env.ts:285-289`: that a request without a network is refused.
  `index.ts:49` and 345 give every process a network of its own, which `server.ts:516` falls
  back to; *Mainnet* above is what follows.

**Bounds, and why they are enough.** Two workers are what a lapsed lease needs;
two markets are what a shared nonce, or a job that goes on to the next market,
needs. Three stakers reach two winners and a loser, with floors that do not come
out even: 7 and 21 wei and a 10 % fee leave dust. Three custodial stakes are two
winners and a loser, or one already paid and two left. Books of four stakes of up to five units have every remainder
from 0 to 3 and every tie that a dust loop can get wrong; rates and amounts up to 5 and 15,
with scales that differ, reach quotes of nothing, of dust and of several units of the pool to
one of the stake. Two attempts are a request and its retry, or a rival with the same key; two
approvals overlap and the third finds what they left; two boots are a crash and what
the next process finds. The faults of a run
are crashes, lost answers, refusals and lapsed leases, in any mixture up to
the bound (`MaxFaults`); one suffices to interrupt any step, two or three to
interrupt the recovery as well. `MaxAttempts` is small so that a job can die in
the model; in `MCDeploy` it is at least the number of faults, as the code's
attempts exceed what one outage uses. `MaxSignatures` exceeds what the
faults can make the deploy sign. `MaxReorgs`, `MaxTime`, `Funds`
and the amount sets bound the environment, never the code. `PageSize` is the code's: as
large as `Tx` in the runs, it leaves out the markets with more activity than the first
page, whose older stakes and reorganisations the code never reads (`mirror.ts:180`), and
`MirrorConverges` says nothing of them. In
`MCOutbox` a batch takes both rows, so one pass can be interrupted between them; one
fault is a crash, an outage, a lost or late answer or a lapsed lease, after which two
passes may relay at once. Users, workers,
attempts and proposals are symmetric; symmetry is used in the two runs of faults on custodial
stakes and in `MCService`, which check no liveness.

**Fairness.** Weak fairness, per action, on what the code's scheduling keeps
doing: a job that is queued is run and each of its steps is taken (the runner
polls; a recurring job is re-armed); a request goes on unless it crashes; a lease
lapses if nobody renews it; the node mines what it holds; time passes; a replica
that died is started again, and a request that was not lost arrives (`MCOutbox`). The users,
the operator, the oracle's choice, stakes and faults have no fairness, with these
exceptions: somebody claims and settles in `MCForesightMarket` (anybody may,
`claimFor` included), somebody funds the deployer in `MCDeploy` (the code waits
for exactly that), and in `MCRegistry` the operator opens a market that may be
opened and plans its resolution once it has closed: without that nothing follows.
In `MCRegistry` the fairness of the resolution is that of `driveResolution` as a whole, a
pass that goes on; what no pass takes up again is not enabled and nothing is fair to it.
That its job is always queued again is assumed there: the re-arming, and how it fails, is
in `Outbox` alone.

## What is proved

Each theorem is about every value of the constants that satisfies the assumptions named
with it, and no other assumption is used. The runs above check the same properties on
small instances.

### The market contract

`ForesightMarketProofs`, for every set of stakers, any funds and stake sizes,
every fee up to `MAX_FEE_BPS`, every closing time and dispute window
(`ConstructorAssumption`, `EnvironmentAssumption`):

| theorem | says |
|---|---|
| `TypeCorrect` | `TypeOK` always holds |
| `Solvency` | the contract's balance covers every outstanding claim and the fee |
| `PrincipalIsSafe` | a winner ends with at least what it staked on the winning side |
| `RefundsWhole` | a void market gives everyone back what they put in |
| `BookIsClosed` | no stake changes at or after the close, or after the decision |
| `DustIsSmall` | the treasury gets the fee and, in dust, less than one wei for each winner |

The argument. `ClaimsCovered` is not inductive: the balance left after some claims
is enough only because what was paid so far is at most those winners' share of the
pot, a statement about a *sum over stakers* of whom some are gone. The inductive
invariant `IInv` names no sum: it
says that *there is* an additive measure of the sets of stakers for each side
(`Books`): a function from sets to naturals that is 0 on the empty set, grows by the stake of
each new element, is monotone, and is the pool on the whole set. It exists at the
start (everything is 0) and each `stake` turns it into the next one; claims,
`settle` and `sweepDust` only use it. With it `ResolvedBooks` says
`paid * pool[w] <= winningStakeClaimed * distributable`, and `ShareFits` shows that the
next floored share keeps that. `Purses` ties what a staker holds outside to
`Funds`, which gives the principal and refund theorems.

What the sweep may take needs a bound from the other side. `Dust` says that the backers
of an outcome are finitely many, and somebody when there is a pool, that only winners have
claimed, and that the claims made so far, say `n`, left little:
`winningStakeClaimed * distributable <= paid * pool[w] + n * (pool[w] - 1)`. Each share
keeps that (`ShareLeavesLittle`), and when everything is claimed what is left is less than one
wei for each winner (`LeftIsLittle`).

### The service

| theorem | assumes | says |
|---|---|---|
| `SplitPayoutsProofs.SplitIsExact` | a finite book of naturals | `ExactSplit`: the payouts add up to what was staked, or nobody won |
| `SplitPayoutsProofs.SplitIsFair` | the same | `FairSplit`: a winner's part of the losers' money is pro rata to within a unit |
| `CustodialStakesProofs.TypeCorrect` | `StakesAssumption` | `TypeOK`: among others, no user's account is overdrawn |
| `CustodialStakesProofs.RowsTellTheTruth` | `StakesAssumption` | `MarkedRowsHaveEntries`: a row marked refunded, paid or escrowed has its ledger entry |
| `CustodialStakesProofs.WinnersKeep` | `StakesAssumption` | `WinnersKeepStake`: whatever passes it took, a winner gets the stake back at least, a loser nothing |
| `CustodialStakesProofs.OutIsOut` | `StakesAssumption` | `TerminalRowsStay`: a stake that is out, or deleted, stays so |
| `CustodialStakesProofs.BooksAreTheEntries` | `StakesAssumption` | every balance is the opening funds plus the postings of the entries there are, each once |
| `CustodialStakesProofs.PoolsArePaidOut` | `StakesAssumption`; while `Calm` | `PoolConserved`: a settled pool is paid out to the unit |
| `CustodialStakesProofs.EscrowIsAccounted` | `StakesAssumption`; while `Calm` | `EscrowAccounted`: escrow holds what is in and not out |
| `CustodialStakesProofs.VoidIsFlat` | `StakesAssumption`; while `Calm` | `VoidLeavesFlat`: a void leaves every account as it was |
| `ServiceProofs.Explains` | nothing | `StakesAreExplained`: a debit has its one stake, and answers are true of the money |
| `DeployProofs.TypeCorrect` | `DeployAssumption` | `TypeOK` |
| `DeployProofs.OneContractEver` | `DeployAssumption` | `OneContract`: at most the one contract the row names |
| `DeployProofs.CommitsBeforeItSends` | `DeployAssumption` | `CommitBeforeSend`: `Deploy` implements `OutboundTx` |
| `ResolutionProofs.TypeCorrect` | `ResolutionAssumption` | `TypeOK` |
| `ResolutionProofs.RowsAndWire` | `ResolutionAssumption` | `RowsAndWireAgree`: on the wire is what a row holds; while the nodes agree, what a row says was sent is there or was refused |
| `ResolutionProofs.ChainIsFirst` | `ResolutionAssumption` | `ChainFirst`: what the registry says its contract decided before, and as it did; an answer nobody backed is the one exception, and a void of the contract |
| `ResolutionProofs.CommitsBeforeItSends` | `ResolutionAssumption` | `CommitBeforeSend`: `Resolution` implements `OutboundTx` |
| `RegistryProofs.TypeCorrect` | `MirrorAssumption`, `SeedAssumption` | `TypeOK` of the registry and the mirror |
| `RegistryProofs.SeedIsBehind` | the same | `OpenSeedIsInPool`: the seed an open market disclosed is, on every side and in full, among the stakes that the indexer lists |
| `RegistryProofs.UnapprovedNever` | `SeedAssumption` (`Origins` are truth values) | `UnapprovedNeverOpens` |
| `ServiceProofs.OneEffect` | nothing | `OneEffectPerKey`: a key's work is done once, and once more for each transaction that was lost |
| `ServiceProofs.EstatesApart` | nothing | `EstatesStayApart`: rows, jobs and contracts are on their network |
| `ServiceProofs.RoundingMakesNone` | `ServiceAssumption` | `NoMoneyIsMade`: neither the quotes on the rows nor the division of a pool make money |
| `ServiceProofs.SeedsFit` | `ServiceAssumption` | `UncontendedSeedsFit`: approvals that do not overlap keep every cap |
| `ServiceProofs.DecisionsAreFinal` | `ServiceAssumption` | `DecisionsStand`: what was decided on does not change, and a row is its document |
| `ServiceProofs.TypeCorrect` | `ServiceAssumption` | `TypeOK` of each of the parts |
| `OutboxProofs.TypeCorrect` | `OutboxAssumption` | `TypeOK`: among others, a pass has in hand only rows that exist |
| `OutboxProofs.PublishedIsReached` | `OutboxAssumption` | `PublishedReachedAll`: what is off the backlog has been acted on by all it was for |
| `OutboxProofs.ActsOnce` | `OutboxAssumption` | `EffectivelyOnce`: `Outbox` implements `Notification` |

- `SplitPayouts`. First it is proved, by induction on a finite set written as membership in
  a set of good subsets, that `SumFunctionOnSet` is the sum: it does not depend on the order
  the fold chooses, and adds, compares and scales as a sum does. The floors are less than
  one unit each below the winners' shares, so the dust is less than the number of winners
  (`DustIsLittle`) and one round of the loop hands it out: to the first `dust` of a strict
  order, of which there are exactly so many (`Ranks`, `FirstInQueue`).
- `CustodialStakes`, whatever fails. The invariant `IInv` says what each actor may rely on: a
  request past its posting has its entry and nobody else posts it (`StakeSound`); a pass is at
  stakes of the market it is at, which is over and whose pool it divided, and at `mark` it
  has the entry of the stake it is about to mark (`PassSound`); an entry of a
  payout is of a resolved market and credits what a pass worked out (`PaidSound`). Terms,
  decided markets and entries only ever stay or grow (`Stable`), so none of this goes stale
  however many passes overlap. `Booked` says that each balance is the sum of the postings of
  the entries, so it is `Stable` terms that make a repeated key harmless.
- `CustodialStakes`, while nothing fails. `PoolConserved` is false after a fault (that is the
  run `MCCustodialStakesOutage`), and so are the other two: a stake paid by a pass that dies before the mark is
  refunded by none but is divided again by the next, and a request that outlives its market may
  post after the refund. `Calm` says that there has been no fault and that no market ends under
  a request (`~ EndsInFlight`): the instance of `MCCustodialStakes`, for any stakes, users,
  assets, quotes, workers and markets. `Undisturbed` is what holds then: only one pass is on;
  every market that is over is waiting for it with no entry made, under way in its hands with
  the payouts it divided over all its stakes, or settled, with payouts that sum to the stakes
  (`Waiting`, `UnderWay`, `Settled`). `SplitIsExact` is what makes the second of these true
  when a market is picked, and `Booked` turns it into statements about balances.
- `StakeRoute`. An attempt at work is alone with its row (`OwnRow`, `Apart`), ids are not
  used again (`RowsTyped`), and an entry's row is never deleted (`EntriesHaveRows`),
  because only the attempt that was refused deletes it. Who is still on the way has no
  answer yet, and a late posting is of somebody who was told it is uncertain (`Unanswered`).
  The other parts of `Service` leave all of this alone.
- `Deploy`. `OneContract` is not inductive. Nothing is on the wire before the row has
  bytes (`WireCommitted`), and bytes on the row are not replaced; a run at `commit` has
  signed, one that sends or polls has seen bytes, one that confirms has seen the receipt
  (`Positions`), and an open market's contract is mined (`Deployed`). The proof
  does not need the lease: workers that overtake each other are safe because the commit
  looks for bytes again. The refinement maps the bytes to `committed`, mempool and chain to `wire`.
- `Resolution`. Here one account signs for every market, so the nonce is what has to be
  shown. A row is built by the one pass that claimed it (`Alone`) and no two rows are built
  at once (`OneMade`): that is the index `resolutions_in_flight_uniq`. So the nonce the node
  names is nobody else's (`Told`, `Distinct`), as the account's nonces are spent in
  order (`Nonces`) and every row that is still of use is on the wire or about to be
  (`Sent`). Those three hold as long as no node has taken bytes that another refused
  (`Consistent`): a refusal that was not one frees a nonce that is in use. Bytes on a row stay, and are on the row before the wire
  (`WireCommitted`); who writes an answer has seen the receipt (`Positions`, `Receipts`).
  The lease is not needed here either.
- `Registry`. An approved proposal stays approved, and no step but an approval leads out
  of `draft`; so looking once, at the approval, is enough. The seed compares what
  `openMarket` saw in the mirror with what the indexer lists ever after: a row of the mirror is
  of a transaction that the indexer lists (`MirrorTyped`), what it lists it goes on listing,
  orphaned or not (`ListedGrows`), so the house's position only grows
  (`PositionGrows`), and a seed becomes staked, and a market open, in `openMarket` alone
  (`RowsTyped`, `OnlyByOpening`). So the gate need not be asked again, and a sync that
  overlaps it does no harm.
- `Outbox`. A row and its change are one (`Committed`), what may still arrive is of a row
  (`Tables`), and an inbox is the set of what its subscriber acted on (`InboxIsActed`). What
  is written down as delivered is in the inbox (`DeliveredArrived`). A pass about to publish
  found nothing outstanding, and who subscribes after that does so when the row is already
  there, so it is not owed to them (`PassSound`). Inboxes and subscriptions only grow
  (`Grows`), so no pass comes to know something false, however many overlap. The proof
  needs neither the lease nor the order of the batch.
- `Idempotency`. Whoever works on a key is alone (`Exclusive`) and found no row of it
  (`Unrecorded`); what was done and not lost is in the row or in that request's hands
  (`Counted`).
- `Estates`. A row is written through the handle of a request, and of the databases a
  process holds no two are of one network (`OneHandle`); so the handle, the queue and the
  chain of a request are of one plane (`RowsApart`, `JobsApart`, `ContractsApart`).
- Money. `NoMoneyIsMade` is about the quotes of rows, and a row is written from what its
  attempt read before. So every row was priced: by an asset of the registry and at rates that
  `quoteStake` takes (`RowsPriced`, and of an attempt on its way `PricedAt`). The rest is
  arithmetic for every rate and scale: a stake bought and changed back is worth no more than
  it was, and at most a unit of each less (`ThereAndBack`), two parts buy no more than the
  whole (`FloorsAdd`), and a book is divided as `SplitIsExact` and `SplitIsFair` say.
- `SeedCaps`. While approvals do not overlap at most one of them runs (`OneByOne`), so the
  total it read is the one it adds to; a day that begins has no rows yet (`SeedRows`). Sums
  over the rows of a day are those of `SplitPayoutsProofs`.
- `Proposals`. An edit about to write has looked, at a row that is there (`Edits`), a row
  keeps the CHECKs of its table (`SoundRow`), and the write asks again whether the row was
  decided. That is what makes the two steps of an edit harmless.
- Types of `Service`. They follow from these invariants, and from bounds on ids and counts
  (`RouteBounded`, `RunsBounded`) and a runner that is at a job there is (`ProcessTyped`).

### Only model-checked

Every invariant and every action property of the passing runs is proved, and so are the
three refinements. Liveness, and with it the fairness it rests on, is out of the
prover's reach, since it has no rule for ENABLED: `EverythingPaidOut`, `ExitReached`,
`CalmResolutionArrives`, `DeployFinishes`, `MirrorConverges`, `OpenedIsDecided` (with its exception)
and `EveryChangeReaches` (with its own) are checked on the instances above and no further. So are the four
violations, which are counterexamples and need no more. Of the custodial stakes, three
properties are proved while `Calm`, because without it they are false.

## Not modelled, and why

- `fee.report` and the status `settled`: nothing in the repository inserts into
  `fee_reports`, so they are unreachable.
- A subscriber that never answers again. Its events stay on the backlog, and since a
  pass reads the oldest `batchSize` rows (`outbox.ts:277-282`), a batch full of them
  starves everybody else. Nor is the order of events promised or checked: rows go out by the time
  their transaction began, and a failed one goes again after later ones.
- Images, prompts, rendering, metrics, the read-only routes and listings: no other part's
  state depends on them. Texts are records of what is asked of them.
- `reapIdempotencyKeys`: nothing calls it, so keys stay.
- The network of a metric: `index.ts:277` arms the schedule of gauges with
  `env.network`, which may differ from the process's own; nothing but a gauge reads it.
- RLP, ABI and address derivation: pure encodings with published vectors.
- The cursor and odds of the mirror.
- A receipt that changes: the unconditional `markDeployFailed` and
  `markResolutionFailed` could then overwrite a success. A node that refuses what another
  takes is modelled (`refusals` of `Resolution`).

## Plan

Done, in this order, the money first: `ForesightMarket` and its proofs,
`SplitPayouts`, `CustodialStakes`, `OutboundTx`, `Resolution`, `Deploy`, `Mirror`,
`Registry` composed with it, `Notification` and `Outbox`; then `StakeRates`, `StakeRoute`,
`SeedCaps`, `Idempotency`, `Proposals` and `Estates`.

Next:
1. A run of `Outbox` with a subscriber that is gone for good, for the starvation of a
   batch, and the order of events per key.
2. The mirror's cursor and pages; the stranded contract of a market that missed its
   opening.
3. `StakeRoute` handing its rows to `CustodialStakes`, as one composition.

Theorems worth proving next: the safety half of the liveness properties (that a
pass which goes through leaves nothing behind in escrow, that a deploy which is
confirmed is no longer swept), and for the composition of 3 that its `StakeRoute` only does to
the rows what `CustodialStakes` allows.
