------------------------------ MODULE Registry -------------------------------
(***************************************************************************)
(* The life of one market in the registry: the proposal it may come from   *)
(* (src/src/ideas.ts), its row and transitions (src/src/markets.ts), the   *)
(* house seed (src/src/houseseed.ts) and the operator's routes             *)
(* (src/src/server.ts), composed with the position mirror, which gates the *)
(* opening of a seeded market.  What the deploy and the resolution do      *)
(* inside is in Deploy and Resolution; here each is the steps at which the *)
(* registry and the contract change, or it can be interrupted for good.    *)
(*                                                                         *)
(* Left out: the text of a proposal or a draft and its validation, images, *)
(* the emitted events, the engagement policy's caps (SeedSizes are amounts *)
(* they allow).  The schema's CHECKs are not guards here: the code is to   *)
(* keep them by itself.                                                    *)
(***************************************************************************)
EXTENDS Mirror

CONSTANTS House,      \* the published house address
          SeedSizes,  \* per-outcome wei an approval may carry; 0 is no seed
          Origins     \* may a draft come from the proposal?  From nowhere?

ASSUME SeedAssumption == House \in Staker /\ SeedSizes \subseteq Nat /\ Origins \subseteq BOOLEAN

VARIABLES
  idea,       \* status of the proposal
  market,     \* the row: status, whether it names the proposal, deploy_state, address
  seed,       \* house_seeds: its state and amount per outcome
  contract,   \* the contract's status on the chain
  plan,       \* the resolutions row; has a pass of resolution.post it in hand?
  voiding,    \* has the void route read a row without a contract?
  deployed,   \* has marketDeployHandler seen "deployed" and not enqueued yet?
  due         \* is it past the close time?

registry == <<idea, market, seed, plan>>
others == <<contract, voiding, deployed, due>>
vars == <<registry, others, mirrorVars>>

status == market.status
hasContractAddress == market.address
to(s) == market' = [market EXCEPT !.status = s]

------------------------------------------------------------------------------
(* Proposals.                                                              *)

insertIdea ==
  /\ idea = "none"
  /\ idea' = "proposed"
  /\ UNCHANGED <<market, seed, plan, others, mirrorVars>>

approveIdea ==
  /\ idea = "proposed"
  /\ idea' = "approved"
  /\ UNCHANGED <<market, seed, plan, others, mirrorVars>>

\* Wrong: the update asks for the id alone.
discardIdea_anyStatus ==
  /\ idea \in {"proposed", "approved"}
  /\ idea' = "discarded"
  /\ UNCHANGED <<market, seed, plan, others, mirrorVars>>

discardIdea ==
  /\ idea = "proposed"
  /\ idea' = "discarded"
  /\ UNCHANGED <<market, seed, plan, others, mirrorVars>>

------------------------------------------------------------------------------
(* Draft, approval, contract, opening.                                     *)

\* The foreign key asks that a named proposal exists, whatever was decided of it.
createDraft(fromIdea) ==
  /\ status = "none" /\ ~due /\ (fromIdea => idea # "none")
  /\ market' = [market EXCEPT !.status = "draft", !.fromIdea = fromIdea]
  /\ UNCHANGED <<idea, seed, plan, others, mirrorVars>>

\* approveMarket and planHouseSeed, in one transaction.  ideas.status reaches
\* the row through the foreign key's cascade.
approveMarket(wei) ==
  /\ status = "draft" /\ ~due /\ (market.fromIdea => idea = "approved")
  /\ to("approved")
  /\ seed' = IF wei = 0 THEN seed ELSE [state |-> "planned", wei |-> wei]
  /\ UNCHANGED <<idea, plan, others, mirrorVars>>

\* markSigned: from here on the row has a contract address.
markSigned ==
  /\ status = "approved" /\ market.deploy = "pending"
  /\ market' = [market EXCEPT !.deploy = "signed", !.address = TRUE]
  /\ UNCHANGED <<idea, seed, plan, others, mirrorVars>>

\* Refused before it was signed or after, or reverted.
markDeployFailed ==
  /\ market.deploy = "signed" \/ (status = "approved" /\ market.deploy = "pending")
  /\ contract = "none"
  /\ market' = [market EXCEPT !.deploy = "failed"]
  /\ UNCHANGED <<idea, seed, plan, others, mirrorVars>>

\* The creation is mined.
create ==
  /\ market.deploy = "signed" /\ contract = "none"
  /\ contract' = "Open"
  /\ UNCHANGED <<registry, voiding, deployed, due, mirrorVars>>

\* The deploy reaches its confirmations.
markDeployed ==
  /\ market.deploy = "signed" /\ contract # "none"
  /\ market' = [market EXCEPT !.deploy = "deployed"]
  /\ deployed' = TRUE
  /\ UNCHANGED <<idea, seed, plan, contract, voiding, due, mirrorVars>>

\* marketDeployHandler: the mirror starts following the contract.
enqueueSync ==
  /\ deployed
  /\ deployed' = FALSE
  /\ enqueue
  /\ UNCHANGED <<registry, contract, voiding, due, chain, positions, faults>>

\* The handler dies before that; the row is "deployed" by then and is not
\* driven again.
crashDeploy ==
  /\ deployed /\ fault
  /\ deployed' = FALSE
  /\ UNCHANGED <<registry, contract, voiding, due, chain, positions, runner>>

\* Wrong: one side is enough.
recordHouseStake_oneSide == \E o \in Outcome : position(live, House, o) = seed.wei

\* The mirror shows exactly the planned position, on both sides.
recordHouseStake == \A o \in Outcome : position(live, House, o) = seed.wei

\* openMarket and recordHouseStake, in one transaction.
openMarket ==
  /\ status = "approved" /\ market.deploy = "deployed" /\ ~due
  /\ seed.state = "planned" => recordHouseStake
  /\ to("open")
  /\ seed' = IF seed.state = "planned" THEN [seed EXCEPT !.state = "staked"] ELSE seed
  /\ UNCHANGED <<idea, plan, others, mirrorVars>>

------------------------------------------------------------------------------
(* Close, resolution, void.                                                *)

tick ==
  /\ ~due
  /\ due' = TRUE
  /\ UNCHANGED <<registry, contract, voiding, deployed, mirrorVars>>

closeMarket ==
  /\ status = "open" /\ due
  /\ to("closed")
  /\ UNCHANGED <<idea, seed, plan, others, mirrorVars>>

\* An unreachable source makes the action a void.  A market is planned once.
planResolution(action) ==
  /\ status = "closed" /\ plan.state = "none"
  /\ plan' = [action |-> action, state |-> "planned", held |-> FALSE]
  /\ UNCHANGED <<idea, market, seed, others, mirrorVars>>

\* From here to the commit of the bytes the row is in this pass's hands alone.
claimForBuilding ==
  /\ plan.state = "planned"
  /\ plan' = [plan EXCEPT !.state = "building", !.held = TRUE]
  /\ UNCHANGED <<idea, market, seed, others, mirrorVars>>

\* Signed and committed: now any pass may send the bytes and poll.
markResolutionSigned ==
  /\ plan.state = "building" /\ plan.held
  /\ plan' = [plan EXCEPT !.state = "signed", !.held = FALSE]
  /\ UNCHANGED <<idea, market, seed, others, mirrorVars>>

\* Custody refuses to sign, or the node to take the bytes.
markResolutionFailed ==
  /\ (plan.state = "building" /\ plan.held) \/ plan.state = "signed"
  /\ contract = "Open" /\ fault
  /\ plan' = [plan EXCEPT !.state = "failed", !.held = FALSE]
  /\ UNCHANGED <<idea, market, seed, others, chain, positions, runner>>

\* The bytes are mined.  An answer that nobody backed is a void too.
oracleAct ==
  /\ plan.state = "signed" /\ contract = "Open" /\ due
  /\ contract' = IF \E t \in canonical : stakeOf[t].outcome = plan.action THEN "Resolved" ELSE "Void"
  /\ UNCHANGED <<registry, voiding, deployed, due, mirrorVars>>

\* The receipt is there.  What is confirmed is outstanding no more: only the pass
\* that confirmed it tells the registry.
markResolutionConfirmed ==
  /\ plan.state = "signed" /\ contract \in {"Resolved", "Void"}
  /\ plan' = [plan EXCEPT !.state = "confirmed", !.held = TRUE]
  /\ UNCHANGED <<idea, market, seed, others, mirrorVars>>

\* Wrong: an answer that the contract turned into a void is waited for.
applyConfirmedResolution_answered ==
  /\ plan.state = "confirmed" /\ plan.held
  /\ contract = IF plan.action = "void" THEN "Void" ELSE "Resolved"
  /\ plan' = [plan EXCEPT !.held = FALSE]
  /\ to(IF plan.action = "void" THEN "void"
        ELSE IF status = "closed" THEN "resolved" ELSE status)
  /\ UNCHANGED <<idea, seed, others, mirrorVars>>

\* applyConfirmedResolution: the registry writes what was planned.  A market that
\* has moved on is a conflict.
applyConfirmedResolution ==
  /\ plan.state = "confirmed" /\ plan.held
  /\ plan' = [plan EXCEPT !.held = FALSE]
  /\ to(IF plan.action = "void" THEN "void"
        ELSE IF status = "closed" THEN "resolved" ELSE status)
  /\ UNCHANGED <<idea, seed, others, mirrorVars>>

\* The pass dies with the row in hand, or an upstream is silent before the commit,
\* or the registry's transaction fails.
resolutionInterrupted ==
  /\ plan.held /\ fault
  /\ plan' = [plan EXCEPT !.held = FALSE]
  /\ UNCHANGED <<idea, market, seed, others, chain, positions, runner>>

\* The void route looks for a contract, then voids whatever the row is by then.
readForVoid ==
  /\ status # "none" /\ ~hasContractAddress /\ ~voiding
  /\ voiding' = TRUE
  /\ UNCHANGED <<registry, contract, deployed, due, mirrorVars>>

voidMarket ==
  /\ voiding
  /\ voiding' = FALSE
  /\ IF status \in {"draft", "approved", "open", "closed", "resolved"}
       THEN to("void") ELSE UNCHANGED market
  /\ UNCHANGED <<idea, seed, plan, contract, deployed, due, mirrorVars>>

------------------------------------------------------------------------------
(* The mirror of this market.                                              *)

\* Wrong: approved markets are followed too, with a contract or without.
mirrorable_approved == status \in {"approved", "open", "closed", "resolved"}

\* listMirrorable: a market with a contract that is open and not yet final.
mirrorable == hasContractAddress /\ status \in {"open", "closed", "resolved"}

\* mirrorSweepHandler
mirrorSweep ==
  /\ mirrorable /\ ~queued
  /\ enqueue
  /\ UNCHANGED <<registry, others, chain, positions, faults>>

\* ForesightMarket.stake: the contract takes a stake from the second it is
\* there, whatever the registry says, until it closes or is decided.
stake(t) ==
  /\ contract = "Open" /\ ~due
  /\ include(t)
  /\ UNCHANGED <<registry, others, positions, runner, faults>>

reorganise(t) ==
  /\ drop(t) \/ finish(t)
  /\ UNCHANGED <<registry, others, positions, runner, faults>>

mirrorStep ==
  /\ leaseLapses \/ \E w \in Worker : syncStep(w) \/ syncFails(w) \/ crashWorker(w)
  /\ UNCHANGED <<registry, others>>

------------------------------------------------------------------------------

Init ==
  /\ MirrorInit
  /\ idea = "none"
  /\ market = [status |-> "none", fromIdea |-> FALSE, deploy |-> "pending", address |-> FALSE]
  /\ seed = [state |-> "none", wei |-> 0]
  /\ contract = "none" /\ plan = [action |-> "none", state |-> "none", held |-> FALSE]
  /\ voiding = FALSE /\ deployed = FALSE /\ due = FALSE

\* A pass of resolution.post, and the chain it waits for.
driveResolution ==
  \/ claimForBuilding \/ markResolutionSigned \/ oracleAct
  \/ markResolutionConfirmed \/ applyConfirmedResolution

Next ==
  \/ insertIdea \/ approveIdea \/ discardIdea
  \/ \E fromIdea \in Origins : createDraft(fromIdea)
  \/ \E wei \in SeedSizes : approveMarket(wei)
  \/ markSigned \/ markDeployFailed \/ create \/ markDeployed \/ enqueueSync \/ crashDeploy
  \/ openMarket \/ tick \/ closeMarket
  \/ \E action \in Outcome \cup {"void"} : planResolution(action)
  \/ driveResolution \/ markResolutionFailed \/ resolutionInterrupted
  \/ readForVoid \/ voidMarket
  \/ mirrorSweep \/ mirrorStep
  \/ \E t \in Tx : stake(t) \/ reorganise(t)

Spec == Init /\ [][Next]_vars

\* The jobs run, the indexer finishes its blocks, the operator opens a market
\* that is let open and resolves one that is closed.  A pass that goes on goes on;
\* nothing is fair to a row that was left by the one pass that could go on with it.
\* Time need not pass and nobody need stake.
FairSpec ==
  /\ Spec
  /\ WF_vars(markDeployed) /\ WF_vars(enqueueSync) /\ WF_vars(openMarket)
  /\ WF_vars(closeMarket) /\ WF_vars(\E action \in Outcome \cup {"void"} : planResolution(action))
  /\ WF_vars(driveResolution)
  /\ WF_vars(mirrorSweep)
  /\ \A w \in Worker : WF_vars(syncStep(w) /\ UNCHANGED <<registry, others>>)
  /\ \A t \in Tx : WF_vars(finish(t) /\ UNCHANGED <<registry, others, positions, runner, faults>>)

------------------------------------------------------------------------------
(* What must hold.                                                         *)

\* The rows keep to the schema's lists of states, and so does the mirror; a
\* market that takes stakes has a contract that was deployed, a seed an approval,
\* and a mirror.sync job a contract to look at.
TypeOK ==
  /\ idea \in {"none", "proposed", "approved", "discarded"}
  /\ market \in [status : {"none", "draft", "approved", "open", "closed", "resolved", "void"},
                 fromIdea : BOOLEAN, deploy : {"pending", "signed", "deployed", "failed"},
                 address : BOOLEAN]
  /\ status \in {"open", "closed", "resolved"} => market.deploy = "deployed"
  /\ seed.state # "none" => status # "draft"
  /\ queued \/ deployed => contract # "none"
  /\ seed \in [state : {"none", "planned", "staked"}, wei : Nat]
  /\ contract \in {"none", "Open", "Resolved", "Void"}
  /\ plan \in [action : Outcome \cup {"none", "void"}, held : BOOLEAN,
               state : {"none", "planned", "building", "signed", "confirmed", "failed"}]
  /\ plan.held => plan.state \in {"building", "confirmed"}
  /\ voiding \in BOOLEAN /\ deployed \in BOOLEAN /\ due \in BOOLEAN
  /\ MirrorTypeOK

\* markets_unapproved_never_opens: no market past its draft stands on a
\* proposal that a person has not approved, whatever becomes of the proposal
\* after the draft was made from it.
UnapprovedNeverOpens ==
  status \notin {"none", "draft", "void"} /\ market.fromIdea => idea = "approved"

\* recordHouseStake: behind the disclosure of an open market are stakes of the house
\* that the indexer has listed, in full and on every side, however runs of the mirror
\* overlap.  Listed, and not in the pool now: one may have been orphaned since, and
\* nothing in the code looks again.
OpenSeedIsInPool ==
  status \in {"open", "closed", "resolved"} /\ seed.state # "none" =>
    seed.state = "staked" /\ \A o \in Outcome : position(listed, House, o) >= seed.wei

\* mirrorSweepHandler, syncMarket: the mirror of a market that is followed comes
\* to show what the chain holds, whatever runs died or wrote late on the way.
MirrorConverges == <>[]mirrorable => <>[](live = canonical)

\* The row was left where no other pass takes it up: before its bytes were committed
\* (claimForBuilding takes what is planned), or after it was confirmed and before the
\* registry knew (listOutstandingResolutions does not list it); or it has failed, and
\* a market is planned but once.
stranded ==
  plan.state = "failed" \/ (plan.state \in {"building", "confirmed"} /\ ~plan.held)

\* closeMarket, planResolution, driveResolution, applyConfirmedResolution: a market
\* that took stakes is resolved or void some time after its close, whatever happens
\* to the mirror and the deploy's job, unless its resolution was interrupted where
\* the code does not take it up again.
OpenedIsDecided == status = "open" /\ due ~> status \in {"resolved", "void"} \/ stranded

\* openMarket: a market whose contract is up and whose seed is in the pool, to
\* the unit and for good, opens while there is time.
seedInPool ==
  market.deploy = "deployed" /\ \A o \in Outcome : position(canonical, House, o) = seed.wei
SeededMarketOpens ==
  []<>(status # "approved" \/ due \/ ~seedInPool \/ seed.state # "planned")
==============================================================================
