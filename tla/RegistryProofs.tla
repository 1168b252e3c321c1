---------------------------- MODULE RegistryProofs ----------------------------
(***************************************************************************)
(* What always holds of the registry and its mirror, for any stakes, sizes *)
(* of seeds, workers, faults and reorganisations, from MirrorAssumption    *)
(* and SeedAssumption.                                                     *)
(*                                                                         *)
(* No market past its draft stands on a proposal nobody approved.  The     *)
(* invariant adds only that the row is a row; what the proof shows is that *)
(* no step but an approval makes a draft more than a draft, and that a     *)
(* proposal once approved stays so, which lets the approval look once.     *)
(*                                                                         *)
(* OpenSeedIsInPool compares what openMarket saw in the mirror with what   *)
(* the indexer lists ever after.  It is kept because a row of the mirror   *)
(* is of a transaction the indexer lists (MirrorTyped), because what it    *)
(* lists it goes on listing (ListedGrows), so that the house's position    *)
(* there can only grow (PositionGrows, by the lemmas on sums of            *)
(* SplitPayoutsProofs), and because a seed becomes staked, and a market    *)
(* open, in openMarket alone (RowsTyped, OnlyByOpening).                   *)
(***************************************************************************)
EXTENDS Registry, SplitPayoutsProofs

Row == [status : {"none", "draft", "approved", "open", "closed", "resolved", "void"},
        fromIdea : BOOLEAN, deploy : {"pending", "signed", "deployed", "failed"},
        address : BOOLEAN]

IInv == market \in Row /\ UnapprovedNeverOpens

\* There is no market.
THEOREM Initially == Init => IInv
PROOF
  BY DEF Init, IInv, Row, UnapprovedNeverOpens, status

\* A row that keeps its proposal, and that was past its draft if it is now.
LEMMA Onward ==
  ASSUME IInv, market' \in Row, market'.fromIdea = market.fromIdea,
         status' \in {"none", "draft", "void"} \/ status \notin {"none", "draft", "void"},
         idea = "approved" => idea' = "approved"
  PROVE  IInv'
PROOF
  BY DEF IInv, UnapprovedNeverOpens, status

\* No step of a person, a worker or the chain breaks it.
THEOREM StepKeeps == IInv /\ [Next]_vars => IInv'
PROOF
<1> SUFFICES ASSUME IInv, [Next]_vars
             PROVE  IInv'
  OBVIOUS
<1>1. ASSUME UNCHANGED <<idea, market>>
      PROVE  IInv'
  BY <1>1 DEF IInv, UnapprovedNeverOpens, status
<1>2. ASSUME UNCHANGED market, idea # "approved"
      PROVE  IInv'
  BY <1>2 DEF IInv, UnapprovedNeverOpens, status
<1>3. ASSUME NEW s \in {"open", "closed", "resolved", "void"}, to(s), UNCHANGED idea,
             s = "void" \/ status \notin {"none", "draft", "void"}
      PROVE  IInv'
  <2>1. market' \in Row /\ market'.fromIdea = market.fromIdea /\ status' = s
    BY <1>3 DEF to, IInv, Row, status
  <2> QED
    BY <1>3, <2>1, Onward
<1>4. ASSUME NEW d \in {"signed", "deployed", "failed"}, UNCHANGED idea,
             \/ market' = [market EXCEPT !.deploy = d]
             \/ market' = [market EXCEPT !.deploy = d, !.address = TRUE]
      PROVE  IInv'
  <2>1. market' \in Row /\ market'.fromIdea = market.fromIdea /\ status' = status
    BY <1>4 DEF IInv, Row, status
  <2> QED
    BY <1>4, <2>1, Onward
<1>5. CASE insertIdea \/ approveIdea \/ discardIdea
  BY <1>2, <1>5 DEF insertIdea, approveIdea, discardIdea
<1>6. ASSUME NEW fromIdea \in Origins, createDraft(fromIdea)
      PROVE  IInv'
  <2>1. market' = [market EXCEPT !.status = "draft", !.fromIdea = fromIdea]
    BY <1>6 DEF createDraft
  <2>2. fromIdea \in BOOLEAN
    BY SeedAssumption
  <2> QED
    BY <2>1, <2>2 DEF IInv, Row, UnapprovedNeverOpens, status
<1>7. ASSUME NEW wei \in SeedSizes, approveMarket(wei)
      PROVE  IInv'
  <2>1. market' = [market EXCEPT !.status = "approved"] /\ idea' = idea
    BY <1>7 DEF approveMarket, to
  <2>2. market.fromIdea => idea = "approved"
    BY <1>7 DEF approveMarket
  <2> QED
    BY <2>1, <2>2 DEF IInv, Row, UnapprovedNeverOpens, status
<1>8. CASE markSigned \/ markDeployFailed \/ markDeployed
  BY <1>4, <1>8 DEF markSigned, markDeployFailed, markDeployed
<1>9. CASE openMarket \/ closeMarket
  BY <1>3, <1>9 DEF openMarket, closeMarket
<1>10. CASE applyConfirmedResolution
  <2>1. CASE plan.action = "void"
    BY <1>3, <1>10, <2>1 DEF applyConfirmedResolution
  <2>2. CASE plan.action # "void" /\ status = "closed"
    BY <1>3, <1>10, <2>2 DEF applyConfirmedResolution
  <2>3. CASE plan.action # "void" /\ status # "closed"
    <3>1. market' = [market EXCEPT !.status = market.status] /\ idea' = idea
      BY <1>10, <2>3 DEF applyConfirmedResolution, to, status
    <3>2. market' = market
      BY <3>1 DEF IInv, Row
    <3> QED
      BY <1>1, <3>1, <3>2
  <2> QED
    BY <2>1, <2>2, <2>3
<1>11. CASE voidMarket
  BY <1>1, <1>3, <1>11 DEF voidMarket
<1>12. ASSUME \/ create \/ enqueueSync \/ crashDeploy \/ tick \/ readForVoid
              \/ claimForBuilding \/ markResolutionSigned \/ markResolutionFailed \/ oracleAct
              \/ markResolutionConfirmed \/ resolutionInterrupted \/ mirrorSweep \/ mirrorStep
              \/ \E action \in Outcome \cup {"void"} : planResolution(action)
              \/ \E t \in Tx : stake(t) \/ reorganise(t)
       PROVE  IInv'
  BY <1>1, <1>12 DEF create, enqueueSync, crashDeploy, tick, readForVoid, claimForBuilding,
                     markResolutionSigned, markResolutionFailed, oracleAct, markResolutionConfirmed,
                     resolutionInterrupted, mirrorSweep, mirrorStep, planResolution, stake,
                     reorganise, registry
<1>13. CASE UNCHANGED vars
  BY <1>1, <1>13 DEF vars, registry
<1> QED
  BY <1>5, <1>6, <1>7, <1>8, <1>9, <1>10, <1>11, <1>12, <1>13
  DEF Next, driveResolution

\* No market past its draft stands on a proposal that a person has not approved.
THEOREM UnapprovedNever == Spec => []UnapprovedNeverOpens
PROOF
<1>1. IInv => UnapprovedNeverOpens
  BY DEF IInv
<1> QED
  BY <1>1, Initially, StepKeeps, PTL DEF Spec

------------------------------------------------------------------------------
(* The rows and the mirror keep to their types.                            *)

Statuses == {"none", "draft", "approved", "open", "closed", "resolved", "void"}
Run == [pc : {"idle", "read"}, page : SUBSET Tx, suspect : SUBSET Tx,
        rows : SUBSET [tx : Tx, as : {"live", "orphaned"}]]

Plan == [action : Outcome \cup {"none", "void"}, held : BOOLEAN,
         state : {"none", "planned", "building", "signed", "confirmed", "failed"}]

\* What TypeOK says of the mirror, and that a run is one.
MirrorTyped == MirrorTypeOK /\ sync \in [Worker -> Run]

\* What it says of the rows, the chain and the jobs, and that a seed is of a market
\* that was drafted, staked only once it was opened, and a deployed contract is one.
RowsTyped ==
  /\ idea \in {"none", "proposed", "approved", "discarded"}
  /\ market \in Row
  /\ status \in {"open", "closed", "resolved"} => market.deploy = "deployed"
  /\ market.deploy = "deployed" => contract # "none"
  /\ seed \in [state : {"none", "planned", "staked"}, wei : Nat]
  /\ seed.state # "none" => status \notin {"none", "draft"}
  /\ seed.state = "staked" => status # "approved"
  /\ queued \/ deployed => contract # "none"
  /\ contract \in {"none", "Open", "Resolved", "Void"}
  /\ plan \in Plan
  /\ plan.held => plan.state \in {"building", "confirmed"}
  /\ voiding \in BOOLEAN /\ deployed \in BOOLEAN /\ due \in BOOLEAN

\* A step of the chain as the indexer shows it keeps the mirror's types.
LEMMA ChainTyped ==
  ASSUME MirrorTyped, NEW t \in Tx, include(t) \/ drop(t) \/ finish(t),
         UNCHANGED <<positions, runner, faults>>
  PROVE  MirrorTyped' /\ listed \subseteq listed'
PROOF
<1>1. /\ seen' \in [Tx -> {"unseen", "unfinished", "included", "orphaned", "moving"}]
      /\ \A u \in Tx : seen[u] # "unseen" => seen'[u] # "unseen"
  BY DEF MirrorTyped, MirrorTypeOK, include, drop, finish
<1>2. reorgs' \in 0..MaxReorgs
  BY MirrorAssumption DEF MirrorTyped, MirrorTypeOK, include, drop, finish
<1>3. listed \subseteq listed'
  BY <1>1 DEF listed
<1>4. \A w \in Worker : sync[w].rows \subseteq [tx : listed', as : {"live", "orphaned"}]
  BY <1>3 DEF MirrorTyped, MirrorTypeOK
<1>5. \A w \in Worker : sync[w].page \cup sync[w].suspect \subseteq listed'
  BY <1>3 DEF MirrorTyped, MirrorTypeOK
<1> QED
  BY <1>1, <1>2, <1>3, <1>4, <1>5 DEF MirrorTyped, MirrorTypeOK, runner

\* Worker w is left with run r, and the chain as it is.
LEMMA RunTyped ==
  ASSUME MirrorTyped, UNCHANGED chain, NEW w \in Worker, NEW r \in Run,
         r.page \cup r.suspect \subseteq listed,
         r.rows \subseteq [tx : listed, as : {"live", "orphaned"}],
         sync' = [sync EXCEPT ![w] = r],
         queued' \in BOOLEAN, holder' \in Worker \cup {NoWorker}, faults' \in 0..MaxFaults,
         positions' \in [Tx -> {"none", "live", "orphaned"}],
         \A t \in Tx : positions'[t] # "none" => seen[t] # "unseen"
  PROVE  MirrorTyped'
PROOF
<1>1. listed' = listed /\ UNCHANGED <<seen, reorgs>>
  BY DEF chain, listed
<1>2. sync' \in [Worker -> Run] /\ sync'[w] = r /\ \A v \in Worker \ {w} : sync'[v] = sync[v]
  BY DEF MirrorTyped
<1>3. \A v \in Worker :
        /\ sync'[v].pc \in {"idle", "read"} /\ sync'[v].page \cup sync'[v].suspect \subseteq listed'
        /\ sync'[v].rows \subseteq [tx : listed', as : {"live", "orphaned"}]
  BY <1>1, <1>2 DEF MirrorTyped, MirrorTypeOK, Run
<1> QED
  BY <1>1, <1>2, <1>3 DEF MirrorTyped, MirrorTypeOK

\* A fault is counted within its bound.
LEMMA FaultTyped == ASSUME MirrorTyped, fault PROVE faults' \in 0..MaxFaults
PROOF
  BY MirrorAssumption DEF MirrorTyped, MirrorTypeOK, fault

\* A step of mirror.sync keeps the mirror's types and makes no job.
LEMMA SyncTyped ==
  ASSUME MirrorTyped, leaseLapses \/ \E w \in Worker : syncStep(w) \/ syncFails(w) \/ crashWorker(w)
  PROVE  MirrorTyped' /\ (queued' => queued) /\ UNCHANGED chain
PROOF
<1>1. Idle \in Run /\ Idle.page \cup Idle.suspect \subseteq listed
      /\ Idle.rows \subseteq [tx : listed, as : {"live", "orphaned"}]
  BY DEF Idle, Run
<1>2. /\ queued \in BOOLEAN /\ holder \in Worker \cup {NoWorker} /\ faults \in 0..MaxFaults
      /\ positions \in [Tx -> {"none", "live", "orphaned"}]
      /\ \A t \in Tx : positions[t] # "none" => seen[t] # "unseen"
  BY DEF MirrorTyped, MirrorTypeOK
<1>3. listed \subseteq Tx
  BY DEF listed
<1>4. ASSUME leaseLapses
      PROVE  MirrorTyped' /\ (queued' => queued) /\ UNCHANGED chain
  <2>1. faults' \in 0..MaxFaults
    BY <1>4, FaultTyped DEF leaseLapses
  <2>2. listed' = listed
    BY <1>4 DEF leaseLapses, chain, listed
  <2> QED
    BY <1>4, <2>1, <2>2 DEF leaseLapses, chain, MirrorTyped, MirrorTypeOK
<1>5. ASSUME NEW w \in Worker, complete(w), UNCHANGED chain, UNCHANGED positions,
             faults' \in 0..MaxFaults
      PROVE  MirrorTyped' /\ (queued' => queued)
  <2>1. sync' = [sync EXCEPT ![w] = Idle] /\ queued' = FALSE /\ holder' = NoWorker
    BY <1>5 DEF complete
  <2> QED
    BY <1>1, <1>2, <1>5, <2>1, RunTyped
<1>6. ASSUME NEW w \in Worker, finishSync(w)
      PROVE  MirrorTyped' /\ (queued' => queued) /\ UNCHANGED chain
  BY <1>2, <1>5, <1>6 DEF finishSync
<1>7. ASSUME NEW w \in Worker, syncFails(w)
      PROVE  MirrorTyped' /\ (queued' => queued) /\ UNCHANGED chain
  BY <1>5, <1>7, FaultTyped DEF syncFails
<1>8. ASSUME NEW w \in Worker, crashWorker(w)
      PROVE  MirrorTyped' /\ (queued' => queued) /\ UNCHANGED chain
  <2>1. faults' \in 0..MaxFaults
    BY <1>8, FaultTyped DEF crashWorker
  <2>2. /\ sync' = [sync EXCEPT ![w] = Idle] /\ holder' \in Worker \cup {NoWorker}
        /\ UNCHANGED <<queued, chain, positions>>
    BY <1>2, <1>8 DEF crashWorker
  <2> QED
    BY <1>1, <1>2, <2>1, <2>2, RunTyped
<1>9. ASSUME NEW w \in Worker, readActivity(w)
      PROVE  MirrorTyped' /\ (queued' => queued) /\ UNCHANGED chain
  <2>1. PICK page \in SUBSET listed :
          sync' = [sync EXCEPT ![w] = [pc |-> "read", page |-> page, rows |-> {},
                                       suspect |-> page \cap activityOrphaned]]
    BY <1>9 DEF readActivity, kSubset
  <2>2. PICK r : r = [pc |-> "read", page |-> page, rows |-> {},
                      suspect |-> page \cap activityOrphaned]
    OBVIOUS
  <2>3. r \in Run
    BY <1>3, <2>1, <2>2 DEF Run
  <2>4. r.page \cup r.suspect \subseteq listed /\ r.rows \subseteq [tx : listed, as : {"live", "orphaned"}]
    BY <2>1, <2>2
  <2>5. sync' = [sync EXCEPT ![w] = r]
    BY <2>1, <2>2
  <2>6. holder' = w /\ UNCHANGED <<queued, chain, positions, faults>>
    BY <1>9 DEF readActivity
  <2> QED
    BY <1>2, <2>3, <2>4, <2>5, <2>6, RunTyped
<1>10. ASSUME NEW w \in Worker, NEW t \in Tx, readTransaction(w, t)
       PROVE  MirrorTyped' /\ (queued' => queued) /\ UNCHANGED chain
  <2>1. /\ sync[w] \in Run /\ sync[w].page \cup sync[w].suspect \subseteq listed
        /\ sync[w].rows \subseteq [tx : listed, as : {"live", "orphaned"}]
        /\ t \in sync[w].page
    BY <1>10 DEF readTransaction, MirrorTyped, MirrorTypeOK
  <2>2. PICK rows : rows = IF seen[t] = "unfinished" THEN sync[w].rows ELSE sync[w].rows \cup
          {[tx |-> t, as |-> IF t \in sync[w].suspect \/ transactionOrphaned(t)
                             THEN "orphaned" ELSE "live"]}
    OBVIOUS
  <2>3. rows \subseteq [tx : listed, as : {"live", "orphaned"}]
    BY <2>1, <2>2
  <2>4. PICK r : r = [sync[w] EXCEPT !.page = @ \ {t}, !.rows = rows]
    OBVIOUS
  <2>5. r = [pc |-> sync[w].pc, page |-> sync[w].page \ {t}, suspect |-> sync[w].suspect,
             rows |-> rows]
    BY <2>1, <2>4 DEF Run
  <2>6. r \in Run
    BY <1>3, <2>1, <2>3, <2>5 DEF Run
  <2>7. sync' = [sync EXCEPT ![w] = r]
    BY <1>10, <2>2, <2>4 DEF readTransaction
  <2>8. UNCHANGED <<queued, holder, chain, positions, faults>>
    BY <1>10 DEF readTransaction
  <2>9. r.page \cup r.suspect \subseteq listed /\ r.rows = rows
    BY <2>1, <2>5
  <2> QED
    BY <1>2, <2>3, <2>6, <2>7, <2>8, <2>9, RunTyped
<1>11. ASSUME NEW w \in Worker, recordStakes(w)
       PROVE  MirrorTyped' /\ (queued' => queued) /\ UNCHANGED chain
  <2>1. /\ sync[w] \in Run /\ sync[w].page \cup sync[w].suspect \subseteq listed
        /\ sync[w].rows \subseteq [tx : listed, as : {"live", "orphaned"}]
    BY DEF MirrorTyped, MirrorTypeOK
  <2>2. PICK q \in sync[w].rows : /\ positions' = [positions EXCEPT ![q.tx] = q.as]
                                  /\ sync' = [sync EXCEPT ![w].rows = @ \ {q}]
    BY <1>11 DEF recordStakes
  <2>3. q.tx \in listed /\ q.as \in {"live", "orphaned"}
    BY <2>1, <2>2
  <2>4. /\ positions' \in [Tx -> {"none", "live", "orphaned"}]
        /\ \A t \in Tx : positions'[t] # "none" => seen[t] # "unseen"
    BY <1>2, <1>3, <2>2, <2>3 DEF listed
  <2>5. PICK r : r = [sync[w] EXCEPT !.rows = @ \ {q}]
    OBVIOUS
  <2>6. r = [pc |-> sync[w].pc, page |-> sync[w].page, suspect |-> sync[w].suspect,
             rows |-> sync[w].rows \ {q}]
    BY <2>1, <2>5 DEF Run
  <2>7. r \in Run
    BY <2>1, <2>6 DEF Run
  <2>8. sync' = [sync EXCEPT ![w] = r]
    BY <2>2, <2>5
  <2>9. UNCHANGED <<queued, holder, chain, faults>>
    BY <1>11 DEF recordStakes
  <2>10. /\ r.page \cup r.suspect \subseteq listed
         /\ r.rows \subseteq [tx : listed, as : {"live", "orphaned"}]
    BY <2>1, <2>6
  <2> QED
    BY <1>2, <2>4, <2>7, <2>8, <2>9, <2>10, RunTyped
<1> QED
  BY <1>4, <1>6, <1>7, <1>8, <1>9, <1>10, <1>11 DEF syncStep

\* A step that leaves the mirror alone, but that it may ask for a run.
LEMMA MirrorLeft ==
  ASSUME MirrorTyped, UNCHANGED <<chain, positions, holder, sync, faults>>, queued' \in BOOLEAN
  PROVE  MirrorTyped'
PROOF
  BY DEF MirrorTyped, MirrorTypeOK, chain, listed

\* Whatever the service, the chain and the workers do, the mirror keeps its types.
LEMMA MirrorKeeps == MirrorTyped /\ [Next]_vars => MirrorTyped'
PROOF
<1> SUFFICES ASSUME MirrorTyped, [Next]_vars
             PROVE  MirrorTyped'
  OBVIOUS
<1>1. queued \in BOOLEAN
  BY DEF MirrorTyped, MirrorTypeOK
<1>2. ASSUME UNCHANGED mirrorVars
      PROVE  MirrorTyped'
  BY <1>1, <1>2, MirrorLeft DEF mirrorVars, runner
<1>3. CASE \E t \in Tx : stake(t) \/ reorganise(t)
  BY <1>3, ChainTyped DEF stake, reorganise
<1>4. CASE mirrorStep
  BY <1>4, SyncTyped DEF mirrorStep
<1>5. CASE enqueueSync \/ mirrorSweep
  BY <1>5, MirrorLeft DEF enqueueSync, mirrorSweep, enqueue
<1>6. CASE crashDeploy \/ markResolutionFailed \/ resolutionInterrupted
  <2>1. faults' \in 0..MaxFaults
    BY <1>6, FaultTyped DEF crashDeploy, markResolutionFailed, resolutionInterrupted
  <2>2. UNCHANGED <<chain, positions, runner>>
    BY <1>6 DEF crashDeploy, markResolutionFailed, resolutionInterrupted
  <2> QED
    BY <2>1, <2>2 DEF MirrorTyped, MirrorTypeOK, chain, runner, listed
<1>7. CASE \/ insertIdea \/ approveIdea \/ discardIdea
           \/ (\E fromIdea \in Origins : createDraft(fromIdea))
           \/ (\E wei \in SeedSizes : approveMarket(wei))
           \/ markSigned \/ markDeployFailed \/ create \/ markDeployed
           \/ openMarket \/ tick \/ closeMarket
           \/ (\E action \in Outcome \cup {"void"} : planResolution(action))
           \/ driveResolution \/ readForVoid \/ voidMarket \/ UNCHANGED vars
  BY <1>2, <1>7 DEF insertIdea, approveIdea, discardIdea, createDraft, approveMarket, markSigned,
                    markDeployFailed, create, markDeployed, openMarket, tick, closeMarket,
                    planResolution, driveResolution, claimForBuilding, markResolutionSigned,
                    oracleAct, markResolutionConfirmed, applyConfirmedResolution, readForVoid,
                    voidMarket, vars
<1> QED
  BY <1>3, <1>4, <1>5, <1>6, <1>7 DEF Next

\* A step that leaves the rows and the contract alone, and asks for a run only of a
\* mirror with a contract.
LEMMA RowsLeft ==
  ASSUME RowsTyped, UNCHANGED <<idea, market, seed, plan>>,
         contract' = contract \/ (contract = "none" /\ contract' = "Open")
                              \/ (contract = "Open" /\ contract' \in {"Resolved", "Void"}),
         voiding' \in BOOLEAN, deployed' \in BOOLEAN, due' \in BOOLEAN,
         queued' \/ deployed' => contract # "none"
  PROVE  RowsTyped'
PROOF
  BY DEF RowsTyped, status

\* A step of the row alone.
LEMMA RowMoves ==
  ASSUME RowsTyped, UNCHANGED <<idea, plan, contract, voiding, deployed, due, queued>>,
         market' \in Row, seed' \in [state : {"none", "planned", "staked"}, wei : Nat],
         status' \in {"open", "closed", "resolved"} => market'.deploy = "deployed",
         market'.deploy = "deployed" => market.deploy = "deployed",
         seed'.state # "none" => status' \notin {"none", "draft"},
         seed'.state = "staked" => status' # "approved"
  PROVE  RowsTyped'
PROOF
  BY DEF RowsTyped, status

\* The market goes to state s.
LEMMA To ==
  ASSUME RowsTyped, NEW s \in Statuses, to(s)
  PROVE  /\ market' \in Row /\ status' = s /\ market'.deploy = market.deploy
         /\ market'.fromIdea = market.fromIdea /\ market'.address = market.address
PROOF
  BY DEF RowsTyped, to, Row, status, Statuses

\* And so do the rows, the contract and the jobs.
LEMMA RowsKeep == RowsTyped /\ MirrorTyped /\ [Next]_vars => RowsTyped'
PROOF
<1> SUFFICES ASSUME RowsTyped, MirrorTyped, [Next]_vars
             PROVE  RowsTyped'
  OBVIOUS
<1>1. CASE insertIdea \/ approveIdea \/ discardIdea
  BY <1>1 DEF insertIdea, approveIdea, discardIdea, RowsTyped, status, others, mirrorVars, runner
<1>2. ASSUME NEW fromIdea \in Origins, createDraft(fromIdea)
      PROVE  RowsTyped'
  <2>1. market' = [market EXCEPT !.status = "draft", !.fromIdea = fromIdea] /\ status = "none"
    BY <1>2 DEF createDraft
  <2>2. market' \in Row /\ status' = "draft" /\ market'.deploy = market.deploy
    BY <2>1, SeedAssumption DEF RowsTyped, Row, status
  <2>3. seed.state = "none" /\ seed' = seed /\ seed \in [state : {"none", "planned", "staked"}, wei : Nat]
    BY <1>2, <2>1 DEF RowsTyped, createDraft
  <2> QED
    BY <1>2, <2>2, <2>3, RowMoves DEF createDraft, others, mirrorVars, runner
<1>3. ASSUME NEW wei \in SeedSizes, approveMarket(wei)
      PROVE  RowsTyped'
  <2>1. /\ market' \in Row /\ status' = "approved" /\ market'.deploy = market.deploy
    BY <1>3, To DEF approveMarket, Statuses
  <2>2. seed' \in [state : {"none", "planned", "staked"}, wei : Nat] /\ seed'.state # "staked"
    BY <1>3, SeedAssumption DEF approveMarket, RowsTyped
  <2> QED
    BY <1>3, <2>1, <2>2, RowMoves DEF approveMarket, others, mirrorVars, runner
<1>4. CASE markSigned \/ markDeployFailed
  <2>1. market' \in Row /\ status' = status /\ market'.deploy # "deployed"
    BY <1>4, ZenonT(40) DEF markSigned, markDeployFailed, RowsTyped, Row, status
  <2>2. UNCHANGED <<idea, plan, contract, voiding, deployed, due, queued, seed>>
    BY <1>4 DEF markSigned, markDeployFailed, others, mirrorVars, runner
  <2>3. status \notin {"open", "closed", "resolved"}
    BY <1>4 DEF markSigned, markDeployFailed, RowsTyped
  <2> QED
    BY <2>1, <2>2, <2>3, RowMoves DEF RowsTyped
<1>5. CASE markDeployed
  <2>1. market' = [market EXCEPT !.deploy = "deployed"] /\ contract # "none"
    BY <1>5 DEF markDeployed
  <2>2. market' \in Row /\ status' = status
    BY <2>1 DEF RowsTyped, Row, status
  <2>3. UNCHANGED <<idea, plan, contract, voiding, due, queued, seed>> /\ deployed' = TRUE
    BY <1>5 DEF markDeployed, mirrorVars, runner
  <2>4. market'.deploy = "deployed"
    BY <2>1 DEF RowsTyped, Row
  <2> QED
    BY <2>1, <2>2, <2>3, <2>4 DEF RowsTyped
<1>6. CASE create \/ oracleAct \/ tick \/ readForVoid
  <2>1. /\ voiding \in BOOLEAN /\ deployed \in BOOLEAN /\ due \in BOOLEAN
        /\ queued \/ deployed => contract # "none"
    BY DEF RowsTyped
  <2>2. CASE create
    BY <2>1, <2>2, RowsLeft DEF create, registry, mirrorVars, runner
  <2>3. CASE oracleAct
    BY <2>1, <2>3, RowsLeft DEF oracleAct, registry, mirrorVars, runner
  <2>4. CASE tick
    BY <2>1, <2>4, RowsLeft DEF tick, registry, mirrorVars, runner
  <2>5. CASE readForVoid
    BY <2>1, <2>5, RowsLeft DEF readForVoid, registry, mirrorVars, runner
  <2> QED
    BY <1>6, <2>2, <2>3, <2>4, <2>5
<1>7. CASE enqueueSync \/ crashDeploy
  BY <1>7, RowsLeft DEF enqueueSync, crashDeploy, enqueue, registry, runner, RowsTyped
<1>8. CASE mirrorSweep
  <2>1. contract # "none"
    BY <1>8 DEF mirrorSweep, mirrorable, RowsTyped
  <2> QED
    BY <1>8, <2>1, RowsLeft DEF mirrorSweep, registry, others, RowsTyped
<1>9. CASE openMarket
  <2>1. /\ market' \in Row /\ status' = "open" /\ market'.deploy = market.deploy
        /\ market.deploy = "deployed"
    BY <1>9, To DEF openMarket, Statuses
  <2>2. seed' \in [state : {"none", "planned", "staked"}, wei : Nat]
    BY <1>9 DEF openMarket, RowsTyped
  <2> QED
    BY <1>9, <2>1, <2>2, RowMoves DEF openMarket, others, mirrorVars, runner
<1>10. CASE closeMarket
  <2>1. market' \in Row /\ status' = "closed" /\ market'.deploy = market.deploy
    BY <1>10, To DEF closeMarket, Statuses
  <2>2. seed' = seed /\ seed \in [state : {"none", "planned", "staked"}, wei : Nat]
    BY <1>10 DEF closeMarket, RowsTyped
  <2>3. market.deploy = "deployed"
    BY <1>10 DEF closeMarket, RowsTyped
  <2> QED
    BY <1>10, <2>1, <2>2, <2>3, RowMoves DEF closeMarket, others, mirrorVars, runner
<1>11. CASE \/ \E action \in Outcome \cup {"void"} : planResolution(action)
            \/ claimForBuilding \/ markResolutionSigned \/ markResolutionConfirmed
            \/ markResolutionFailed \/ resolutionInterrupted
  <2>1. plan' \in Plan /\ (plan'.held => plan'.state \in {"building", "confirmed"})
    <3>1. plan \in Plan
      BY DEF RowsTyped
    <3>2. CASE \E action \in Outcome \cup {"void"} : planResolution(action)
      BY <3>2 DEF planResolution, Plan
    <3>3. CASE claimForBuilding
      BY <3>1, <3>3 DEF claimForBuilding, Plan
    <3>4. CASE markResolutionSigned
      BY <3>1, <3>4 DEF markResolutionSigned, Plan
    <3>5. CASE markResolutionConfirmed
      BY <3>1, <3>5 DEF markResolutionConfirmed, Plan
    <3>6. CASE markResolutionFailed
      BY <3>1, <3>6 DEF markResolutionFailed, Plan
    <3>7. CASE resolutionInterrupted
      BY <3>1, <3>7 DEF resolutionInterrupted, Plan
    <3> QED
      BY <1>11, <3>2, <3>3, <3>4, <3>5, <3>6, <3>7
  <2>2. UNCHANGED <<idea, market, seed, others, queued>>
    BY <1>11 DEF planResolution, claimForBuilding, markResolutionSigned, markResolutionConfirmed,
                 markResolutionFailed, resolutionInterrupted, mirrorVars, runner
  <2> QED
    BY <2>1, <2>2 DEF RowsTyped, status, others
<1>12. CASE applyConfirmedResolution
  <2>1. PICK s : s = IF plan.action = "void" THEN "void"
                    ELSE IF status = "closed" THEN "resolved" ELSE status
    OBVIOUS
  <2>2. s \in Statuses
    BY <2>1 DEF RowsTyped, Row, Statuses, status
  <2>3. to(s)
    BY <1>12, <2>1 DEF applyConfirmedResolution
  <2>4. market' \in Row /\ status' = s /\ market'.deploy = market.deploy
    BY <2>2, <2>3, To
  <2>5. /\ UNCHANGED <<idea, seed, contract, voiding, deployed, due, queued>>
        /\ plan' \in Plan /\ ~ plan'.held
    BY <1>12 DEF applyConfirmedResolution, others, mirrorVars, runner, RowsTyped, Plan
  <2>6. /\ s \in {"open", "closed", "resolved"} => market.deploy = "deployed"
        /\ s \in {"none", "draft", "approved"} => s = status
    BY <2>1 DEF RowsTyped
  <2> QED
    BY <2>4, <2>5, <2>6 DEF RowsTyped
<1>13. CASE voidMarket
  <2>1. market' \in Row /\ market'.deploy = market.deploy /\ status' \in {"void", status}
    BY <1>13, To DEF voidMarket, Statuses, RowsTyped, status
  <2>2. UNCHANGED <<idea, seed, plan, contract, deployed, due, queued>> /\ voiding' = FALSE
    BY <1>13 DEF voidMarket, mirrorVars, runner
  <2> QED
    BY <2>1, <2>2, ZenonT(40) DEF RowsTyped
<1>14. CASE mirrorStep
  <2>1. (queued' => queued) /\ UNCHANGED <<registry, others>>
    BY <1>14, SyncTyped DEF mirrorStep
  <2> QED
    BY <2>1, RowsLeft DEF registry, others, RowsTyped
<1>15. CASE \E t \in Tx : stake(t) \/ reorganise(t)
  BY <1>15, RowsLeft DEF stake, reorganise, registry, others, runner, RowsTyped
<1>16. CASE UNCHANGED vars
  BY <1>16, RowsLeft DEF vars, registry, others, mirrorVars, runner, RowsTyped
<1> QED
  BY <1>1, <1>2, <1>3, <1>4, <1>5, <1>6, <1>7, <1>8, <1>9, <1>10, <1>11, <1>12, <1>13, <1>14,
     <1>15, <1>16 DEF Next, driveResolution

\* Both are true of a service that has no market yet.
LEMMA TypedInit == Init => RowsTyped /\ MirrorTyped
PROOF
<1> SUFFICES ASSUME Init
             PROVE  RowsTyped /\ MirrorTyped
  OBVIOUS
<1>1. RowsTyped
  BY DEF Init, MirrorInit, RowsTyped, Row, Plan, status
<1>2. sync \in [Worker -> Run] /\ \A w \in Worker : sync[w] = Idle
  BY DEF Init, MirrorInit, Idle, Run
<1>3. \A w \in Worker : /\ sync[w].pc = "idle" /\ sync[w].page = {} /\ sync[w].suspect = {}
                        /\ sync[w].rows = {}
  BY <1>2 DEF Idle
<1>4. reorgs \in 0..MaxReorgs /\ faults \in 0..MaxFaults
  BY MirrorAssumption DEF Init, MirrorInit
<1>5. MirrorTypeOK
  BY <1>3, <1>4 DEF Init, MirrorInit, MirrorTypeOK
<1> QED
  BY <1>1, <1>2, <1>5 DEF MirrorTyped

\* The rows keep to the schema's states and the mirror to the chain's transactions, a
\* market that takes stakes has a deployed contract, a seed was approved with its market,
\* and there is no mirror.sync job without a contract to read.
THEOREM TypeCorrect == Spec => []TypeOK
PROOF
<1>1. RowsTyped /\ MirrorTyped => TypeOK
  BY DEF RowsTyped, MirrorTyped, TypeOK, Row, Plan
<1> QED
  BY <1>1, TypedInit, RowsKeep, MirrorKeeps, PTL DEF Spec

------------------------------------------------------------------------------
(* The house's money is behind the seed of an open market.                 *)

\* Of more transactions a staker holds no less.
LEMMA PositionGrows ==
  ASSUME NEW S \in SUBSET Tx, NEW R \in SUBSET S, NEW s, NEW o
  PROVE  /\ position(R, s, o) \in Nat /\ position(S, s, o) \in Nat
         /\ position(R, s, o) <= position(S, s, o)
PROOF
<1>1. PICK f : f = [t \in Tx |-> stakeOf[t].amount]
  OBVIOUS
<1>2. PICK A, B : /\ A = {t \in R : stakeOf[t].staker = s /\ stakeOf[t].outcome = o}
                  /\ B = {t \in S : stakeOf[t].staker = s /\ stakeOf[t].outcome = o}
  OBVIOUS
<1>3. A \in SUBSET B /\ B \subseteq Tx
  BY <1>2
<1>4. IsFiniteSet(A) /\ IsFiniteSet(B)
  BY <1>3, MirrorAssumption, FS_Subset
<1>5. \A t \in B : f[t] \in Nat
  BY <1>1, <1>3, MirrorAssumption
<1>6. \A t \in A : f[t] \in Nat
  BY <1>3, <1>5
<1>7. SumFunctionOnSet(f, A) <= SumFunctionOnSet(f, B)
  BY <1>3, <1>4, <1>5, SumMonotone
<1>8. SumFunctionOnSet(f, A) \in Nat /\ SumFunctionOnSet(f, B) \in Nat
  BY <1>4, <1>5, <1>6, SumNat
<1> QED
  BY <1>1, <1>2, <1>7, <1>8 DEF position

\* The indexer goes on listing what it has listed.
LEMMA ListedGrows == ASSUME MirrorTyped, [Next]_vars PROVE listed \subseteq listed'
PROOF
<1>1. ASSUME UNCHANGED chain
      PROVE  listed \subseteq listed'
  BY <1>1 DEF chain, listed
<1>2. CASE \E t \in Tx : stake(t) \/ reorganise(t)
  BY <1>2, ChainTyped DEF stake, reorganise
<1>3. CASE mirrorStep
  BY <1>1, <1>3, SyncTyped DEF mirrorStep
<1>4. CASE \/ insertIdea \/ approveIdea \/ discardIdea
           \/ (\E fromIdea \in Origins : createDraft(fromIdea))
           \/ (\E wei \in SeedSizes : approveMarket(wei))
           \/ markSigned \/ markDeployFailed \/ create \/ markDeployed \/ enqueueSync
           \/ crashDeploy \/ openMarket \/ tick \/ closeMarket
           \/ (\E action \in Outcome \cup {"void"} : planResolution(action))
           \/ driveResolution \/ markResolutionFailed \/ resolutionInterrupted
           \/ readForVoid \/ voidMarket \/ mirrorSweep \/ UNCHANGED vars
  BY <1>1, <1>4 DEF insertIdea, approveIdea, discardIdea, createDraft, approveMarket, markSigned,
                    markDeployFailed, create, markDeployed, enqueueSync, crashDeploy, openMarket,
                    tick, closeMarket, planResolution, driveResolution, claimForBuilding,
                    markResolutionSigned, oracleAct, markResolutionConfirmed,
                    applyConfirmedResolution, markResolutionFailed, resolutionInterrupted,
                    readForVoid, voidMarket, mirrorSweep, vars, mirrorVars
<1> QED
  BY <1>2, <1>3, <1>4 DEF Next

\* The states of a market with a seed that was disclosed.
Opened == {"open", "closed", "resolved"}

\* A market comes to be open by openMarket only, and its seed changes by nothing else
\* from then on.
LEMMA OnlyByOpening ==
  ASSUME RowsTyped, [Next]_vars, status' \in Opened, ~ openMarket
  PROVE  status \in Opened /\ seed' = seed
PROOF
<1>1. ASSUME UNCHANGED <<market, seed>>
      PROVE  status \in Opened /\ seed' = seed
  BY <1>1 DEF status
<1>2. ASSUME NEW fromIdea \in Origins, createDraft(fromIdea)
      PROVE  FALSE
  BY <1>2 DEF createDraft, RowsTyped, Row, status, Opened
<1>3. ASSUME NEW wei \in SeedSizes, approveMarket(wei)
      PROVE  FALSE
  BY <1>3, To DEF approveMarket, Statuses, Opened
<1>4. CASE markSigned \/ markDeployFailed \/ markDeployed
  <2>1. status' = status
    BY <1>4 DEF markSigned, markDeployFailed, markDeployed, RowsTyped, Row, status
  <2> QED
    BY <1>4, <2>1 DEF markSigned, markDeployFailed, markDeployed
<1>5. CASE closeMarket
  BY <1>5 DEF closeMarket, Opened
<1>6. CASE applyConfirmedResolution
  <2>1. CASE plan.action = "void"
    BY <1>6, <2>1, To DEF applyConfirmedResolution, Statuses, Opened
  <2>2. CASE status = "closed"
    BY <1>6, <2>2 DEF applyConfirmedResolution, Opened
  <2>3. CASE plan.action # "void" /\ status # "closed"
    <3>1. status \in Statuses
      BY DEF RowsTyped, Row, Statuses, status
    <3>2. status' = status /\ seed' = seed
      BY <1>6, <2>3, <3>1, To DEF applyConfirmedResolution
    <3> QED
      BY <3>2
  <2> QED
    BY <2>1, <2>2, <2>3, <1>6
<1>7. CASE voidMarket
  <2>1. CASE to("void")
    BY <2>1, To DEF Statuses, Opened
  <2> QED
    BY <1>1, <1>7, <2>1 DEF voidMarket
<1>8. CASE \/ insertIdea \/ approveIdea \/ discardIdea \/ create \/ enqueueSync
           \/ crashDeploy \/ tick
           \/ (\E action \in Outcome \cup {"void"} : planResolution(action))
           \/ claimForBuilding \/ markResolutionSigned \/ oracleAct \/ markResolutionConfirmed
           \/ markResolutionFailed \/ resolutionInterrupted
           \/ readForVoid \/ mirrorSweep \/ mirrorStep
           \/ (\E t \in Tx : stake(t) \/ reorganise(t)) \/ UNCHANGED vars
  BY <1>1, <1>8 DEF insertIdea, approveIdea, discardIdea, create, enqueueSync, crashDeploy, tick,
                    planResolution, claimForBuilding, markResolutionSigned, oracleAct,
                    markResolutionConfirmed, markResolutionFailed, resolutionInterrupted,
                    readForVoid, mirrorSweep, mirrorStep, stake, reorganise, vars, registry
<1> QED
  BY <1>2, <1>3, <1>4, <1>5, <1>6, <1>7, <1>8 DEF Next, driveResolution

\* A market that was opened keeps the house's position in its pool.
LEMMA SeedKeeps ==
  ASSUME RowsTyped, MirrorTyped, OpenSeedIsInPool, [Next]_vars
  PROVE  OpenSeedIsInPool'
PROOF
<1> SUFFICES ASSUME status' \in Opened, seed'.state # "none"
             PROVE  /\ seed'.state = "staked"
                    /\ \A o \in Outcome : position(listed', House, o) >= seed'.wei
  BY DEF OpenSeedIsInPool, Opened, position
<1>1. listed \in SUBSET listed' /\ listed' \in SUBSET Tx
  BY ListedGrows DEF listed
<1>2. seed \in [state : {"none", "planned", "staked"}, wei : Nat]
  BY DEF RowsTyped
<1>3. CASE openMarket
  <2>1. seed.state \in {"planned", "staked"} /\ seed'.state = "staked" /\ seed'.wei = seed.wei
    BY <1>2, <1>3 DEF openMarket
  <2>2. status = "approved"
    BY <1>3 DEF openMarket
  <2>3. seed.state = "planned"
    BY <2>1, <2>2 DEF RowsTyped
  <2>4. \A o \in Outcome : position(live, House, o) = seed.wei
    BY <1>3, <2>3 DEF openMarket, recordHouseStake
  <2>5. listed' = listed /\ live \in SUBSET listed
    BY <1>3 DEF openMarket, mirrorVars, chain, listed, live, MirrorTyped, MirrorTypeOK
  <2>6. \A o \in Outcome : position(listed', House, o) >= seed.wei
    <3> TAKE o \in Outcome
    <3>1. /\ position(live, House, o) \in Nat /\ position(listed', House, o) \in Nat
          /\ position(live, House, o) <= position(listed', House, o)
      BY <1>1, <2>5, PositionGrows
    <3> QED
      BY <2>4, <3>1
  <2> QED
    BY <2>1, <2>6
<1>4. CASE ~ openMarket
  <2>1. status \in Opened /\ seed' = seed
    BY <1>4, OnlyByOpening
  <2>2. /\ seed.state = "staked"
        /\ \A o \in Outcome : position(listed, House, o) >= seed.wei
    BY <2>1 DEF OpenSeedIsInPool, Opened
  <2>3. \A o \in Outcome : position(listed', House, o) >= seed.wei
    <3> TAKE o \in Outcome
    <3>1. /\ position(listed, House, o) \in Nat /\ position(listed', House, o) \in Nat
          /\ position(listed, House, o) <= position(listed', House, o)
      BY <1>1, PositionGrows
    <3> QED
      BY <1>2, <2>2, <3>1
  <2> QED
    BY <2>1, <2>2, <2>3
<1> QED
  BY <1>3, <1>4

\* Behind the seed that an open market discloses is the house's position in its pool, in
\* full and on every side, whatever the chain reorganised and the mirror read meanwhile.
THEOREM SeedIsBehind == Spec => []OpenSeedIsInPool
PROOF
<1>1. Init => OpenSeedIsInPool
  BY DEF Init, OpenSeedIsInPool, status
<1>2. RowsTyped /\ MirrorTyped /\ OpenSeedIsInPool /\ [Next]_vars => OpenSeedIsInPool'
  BY SeedKeeps
<1> QED
  BY <1>1, <1>2, TypedInit, RowsKeep, MirrorKeeps, PTL DEF Spec
===============================================================================
