------------------------------- MODULE Deploy --------------------------------
(***************************************************************************)
(* One market's contract deploy: the lease, the steps and the recovery of  *)
(* src/src/deploy.ts, the job and the sweep that drive it (src/src/jobs.ts)*)
(* and the routes that open and void the market meanwhile                  *)
(* (src/src/server.ts, src/src/markets.ts).  Custody gives every market an *)
(* account of its own, so markets share no nonce and one is enough.        *)
(*                                                                         *)
(* A signature is named by a number, in the order custody made them: two   *)
(* of them are two contracts even where the nonce is the same.             *)
(***************************************************************************)
EXTENDS Integers, FiniteSets

CONSTANTS Worker, NoWorker,   \* processes that may run market.deploy
          MaxAttempts,        \* throws after which the runner gives the job up
          MaxFaults,          \* bound on crashes, lost answers, refusals, lapses
          MaxSignatures       \* bound on what custody is asked to sign

ASSUME DeployAssumption ==
  /\ NoWorker \notin Worker
  /\ MaxAttempts \in Nat \ {0} /\ MaxFaults \in Nat /\ MaxSignatures \in Nat \ {0}

VARIABLES
  status,      \* of the market: "approved", "open" or "void"
  deploy,      \* the deploy columns of its row
  lease,       \* lease_owner, and whether lease_until is yet to come
  voiding,     \* where POST /markets/:id/void is
  funded,      \* does the deployer hold what the gas costs?
  signatures,  \* how many custody has made
  pool,        \* the account's transactions in the node's mempool
  mined,       \* those with a receipt, with its status
  queued,      \* is there a market.deploy job?
  job,         \* what each worker's run of it is doing
  holder,      \* who holds it
  attempts,    \* throws since it last completed
  faults

row == <<status, deploy, lease>>
node == <<funded, signatures, pool, mined>>
runner == <<queued, job, holder, attempts>>
vars == <<row, voiding, node, runner, faults>>

NoTx == [sig |-> 0, nonce |-> 0]
hasBytes == deploy.tx # NoTx
minedTx == {r.tx : r \in mined}
nextNonce == Cardinality(mined)

fault == faults < MaxFaults /\ faults' = faults + 1
at(w, pc) == job[w].pc = pc

------------------------------------------------------------------------------
(* The job and its runner. *)

Idle == [pc |-> "idle", tx |-> NoTx, claimed |-> FALSE]
goto(w, pc) == job' = [job EXCEPT ![w].pc = pc] /\ UNCHANGED <<queued, holder, attempts>>

\* The handler returns: the job's row is deleted, whoever holds it by now.
complete(w) ==
  /\ job' = [job EXCEPT ![w] = Idle]
  /\ queued' = FALSE /\ holder' = NoWorker /\ attempts' = 0

throw(w) ==
  /\ job' = [job EXCEPT ![w] = Idle]
  /\ IF holder = w THEN holder' = NoWorker /\ attempts' = attempts + 1
                   ELSE UNCHANGED <<holder, attempts>>
  /\ UNCHANGED queued

\* deploySweepHandler over listOutstandingDeploys, and the deploy route, which
\* looks at the status alone.
enqueue ==
  /\ ~queued /\ status = "approved"
  /\ queued' = TRUE
  /\ UNCHANGED <<row, voiding, node, job, holder, attempts, faults>>

startRun(w) ==
  /\ queued /\ holder = NoWorker /\ at(w, "idle") /\ attempts < MaxAttempts
  /\ holder' = w
  /\ job' = [job EXCEPT ![w].pc = "claim"]
  /\ UNCHANGED <<row, voiding, node, queued, attempts, faults>>

------------------------------------------------------------------------------
(* driveDeploy and advance. *)

\* Wrong: a row another process was building is nobody's.
claimable_pending == status = "approved" /\ deploy.state = "pending" /\ ~hasBytes /\ ~lease.live

claimable ==
  /\ status = "approved" /\ deploy.state \in {"pending", "building"}
  /\ ~hasBytes /\ ~lease.live

\* resumeIfSigned: bytes on the row are sent again and never signed again.
claimDeploy(w) ==
  /\ at(w, "claim")
  /\ \/ /\ claimable
        /\ deploy' = [deploy EXCEPT !.state = "building"]
        /\ lease' = [owner |-> w, live |-> TRUE]
        /\ job' = [job EXCEPT ![w].pc = IF deploy.provisioned THEN "quote" ELSE "provision",
                              ![w].claimed = TRUE]
        /\ UNCHANGED <<queued, holder, attempts>>
     \/ /\ ~claimable /\ hasBytes /\ deploy.state \in {"signed", "broadcast"}
        /\ goto(w, IF deploy.stamped THEN "poll" ELSE "send")
        /\ UNCHANGED <<deploy, lease>>
     \/ /\ ~claimable /\ ~(hasBytes /\ deploy.state \in {"signed", "broadcast"})
        /\ complete(w)
        /\ UNCHANGED <<deploy, lease>>
  /\ UNCHANGED <<status, voiding, node, faults>>

released(w) == IF lease.owner = w THEN [owner |-> NoWorker, live |-> FALSE] ELSE lease

\* An upstream is away: the run lets go of the lease if it had claimed the row.
\* A resumed run leaves the lease as it is.
unavailable(w) ==
  /\ lease' = IF job[w].claimed THEN released(w) ELSE lease
  /\ complete(w)

\* A peer said no: the claimed row is failed, a resumed run throws.
refused(w) ==
  UNCHANGED lease /\ IF job[w].claimed THEN goto(w, "fail") ELSE throw(w)

\* provisionDeployer and markProvisioned, which needs the lease.
markProvisioned(w) ==
  /\ at(w, "provision")
  /\ \/ /\ lease.owner = w
        /\ deploy' = [deploy EXCEPT !.provisioned = TRUE]
        /\ goto(w, "quote") /\ UNCHANGED <<lease, faults>>
     \/ lease.owner # w /\ complete(w) /\ UNCHANGED <<deploy, lease, faults>>
     \/ fault /\ unavailable(w) /\ UNCHANGED deploy
  /\ UNCHANGED <<status, voiding, node>>

\* heartbeat: a run that lost its lease stops as if an upstream were away.
beat(w, pc) ==
  IF lease.owner = w
    THEN lease' = [lease EXCEPT !.live = TRUE] /\ goto(w, pc)
    ELSE UNCHANGED lease /\ complete(w)

\* The fee bid and the balance.  awaitFunds puts the row back to pending.
checkFunds(w) ==
  /\ at(w, "quote")
  /\ \/ beat(w, "funds") /\ UNCHANGED <<deploy, faults>>
     \/ fault /\ unavailable(w) /\ UNCHANGED deploy
  /\ UNCHANGED <<status, voiding, node>>

awaitFunds(w) ==
  /\ at(w, "funds")
  /\ IF funded THEN beat(w, "nonce") /\ UNCHANGED deploy
     ELSE /\ complete(w)
          /\ IF lease.owner = w /\ ~hasBytes
               THEN deploy' = [deploy EXCEPT !.state = "pending"] /\ lease' = released(w)
               ELSE UNCHANGED <<deploy, lease>>
  /\ UNCHANGED <<status, voiding, node, faults>>

\* The pending count, then custody's signature over it.
readNonce(w) ==
  /\ at(w, "nonce")
  /\ \/ /\ job' = [job EXCEPT ![w].pc = "sign", ![w].tx.nonce = nextNonce + Cardinality(pool)]
        /\ UNCHANGED <<lease, queued, holder, attempts, faults>>
     \/ fault /\ unavailable(w)
  /\ UNCHANGED <<status, deploy, voiding, node>>

sign(w) ==
  /\ at(w, "sign")
  /\ \/ /\ signatures < MaxSignatures
        /\ signatures' = signatures + 1
        /\ job' = [job EXCEPT ![w].pc = "commit", ![w].tx.sig = signatures + 1]
        /\ UNCHANGED <<lease, queued, holder, attempts, faults>>
     \/ fault /\ unavailable(w) /\ UNCHANGED signatures
     \/ fault /\ refused(w) /\ UNCHANGED signatures
  /\ UNCHANGED <<status, deploy, voiding, funded, pool, mined>>

\* Wrong: whoever has a signature writes it down.
markSigned_anyOwner(w) ==
  /\ at(w, "commit")
  /\ deploy' = [deploy EXCEPT !.state = "signed", !.tx = job[w].tx]
  /\ goto(w, "send")
  /\ UNCHANGED <<status, lease, voiding, node, faults>>

\* Under the lease only, and once: any other signature is dropped unsent.
markSigned(w) ==
  /\ at(w, "commit")
  /\ IF lease.owner = w /\ ~hasBytes
       THEN deploy' = [deploy EXCEPT !.state = "signed", !.tx = job[w].tx] /\ goto(w, "send")
       ELSE UNCHANGED deploy /\ complete(w)
  /\ UNCHANGED <<status, lease, voiding, node, faults>>

\* broadcast.  The row's bytes are the only ones ever sent: the node takes them,
\* has them already, or a fault decides.
sendBytes(w) ==
  /\ at(w, "send")
  /\ \/ pool' = (IF deploy.tx \in minedTx THEN pool ELSE pool \cup {deploy.tx})
        /\ goto(w, "stamp") /\ UNCHANGED <<lease, faults>>
     \/ deploy.tx \notin pool \cup minedTx /\ fault /\ refused(w) /\ UNCHANGED pool
     \/ /\ fault /\ unavailable(w)
        /\ pool' \in {pool, IF deploy.tx \in minedTx THEN pool ELSE pool \cup {deploy.tx}}
  /\ UNCHANGED <<status, deploy, voiding, funded, signatures, mined>>

markBroadcast(w) ==
  /\ at(w, "stamp")
  /\ deploy' = IF deploy.stamped THEN deploy
               ELSE [deploy EXCEPT !.state = "broadcast", !.stamped = TRUE]
  /\ goto(w, "poll")
  /\ UNCHANGED <<status, lease, voiding, node, faults>>

\* Wrong: what was sent is taken for mined.
pollReceipt_optimistic(w) ==
  /\ at(w, "poll") /\ goto(w, "confirm")
  /\ UNCHANGED <<row, voiding, node, faults>>

pollReceipt(w) ==
  LET receipts == {r \in mined : r.tx = deploy.tx}
  IN  /\ at(w, "poll")
      /\ \/ receipts = {} /\ lease' = released(w) /\ complete(w) /\ UNCHANGED faults
         \/ \E r \in receipts : goto(w, IF r.ok THEN "confirm" ELSE "fail")
                                /\ UNCHANGED <<lease, faults>>
         \/ fault /\ unavailable(w)
      /\ UNCHANGED <<status, deploy, voiding, node>>

markDeployed(w) ==
  /\ at(w, "confirm")
  /\ IF deploy.state = "broadcast"
       THEN deploy' = [deploy EXCEPT !.state = "deployed"]
            /\ lease' = [owner |-> NoWorker, live |-> FALSE]
       ELSE UNCHANGED <<deploy, lease>>
  /\ complete(w)
  /\ UNCHANGED <<status, voiding, node, faults>>

\* Wrong: the owner is cleared, the lease's end is not.
markDeployFailed_keepsLease(w) ==
  /\ at(w, "fail")
  /\ deploy' = [deploy EXCEPT !.state = "failed"]
  /\ lease' = [lease EXCEPT !.owner = NoWorker]
  /\ complete(w)
  /\ UNCHANGED <<status, voiding, node, faults>>

\* Whatever the state of the row, whoever has the lease.
markDeployFailed(w) ==
  /\ at(w, "fail")
  /\ deploy' = [deploy EXCEPT !.state = "failed"]
  /\ lease' = [owner |-> NoWorker, live |-> FALSE]
  /\ complete(w)
  /\ UNCHANGED <<status, voiding, node, faults>>

------------------------------------------------------------------------------
(* The operator, the chain, and what goes wrong by itself. *)

\* openMarket
openMarket ==
  /\ status = "approved" /\ deploy.state = "deployed"
  /\ status' = "open"
  /\ UNCHANGED <<deploy, lease, voiding, node, runner, faults>>

\* POST /markets/:id/void reads the row and refuses one with a contract ...
readForVoid ==
  /\ voiding = "no" /\ ~hasBytes
  /\ voiding' = "read"
  /\ UNCHANGED <<row, node, runner, faults>>

\* ... and then voids whatever the row says by now.
voidMarket ==
  /\ voiding = "read"
  /\ status' = IF status \in {"approved", "open"} THEN "void" ELSE status
  /\ voiding' = "done"
  /\ UNCHANGED <<deploy, lease, node, runner, faults>>

fund ==
  /\ deploy.provisioned /\ ~funded
  /\ funded' = TRUE
  /\ UNCHANGED <<row, voiding, signatures, pool, mined, runner, faults>>

\* A creation is mined; its constructor may revert, once the close time is past.
mine(t, ok) ==
  /\ t \in pool /\ t.nonce = nextNonce
  /\ pool' = {u \in pool : u.nonce # t.nonce}
  /\ mined' = mined \cup {[tx |-> t, ok |-> ok]}
  /\ UNCHANGED <<row, voiding, funded, signatures, runner, faults>>

\* The lease on the row runs out: of a run that is gone in time, of one that is
\* not when it stalls between two heartbeats.
leaseLapses ==
  /\ lease.live
  /\ \/ ~job[lease.owner].claimed /\ UNCHANGED faults
     \/ job[lease.owner].claimed /\ fault
  /\ lease' = [lease EXCEPT !.live = FALSE]
  /\ UNCHANGED <<status, deploy, voiding, node, runner>>

crashWorker(w) ==
  /\ ~at(w, "idle") /\ fault
  /\ job' = [job EXCEPT ![w] = Idle]
  /\ holder' = IF holder = w THEN NoWorker ELSE holder
  /\ UNCHANGED <<row, voiding, node, queued, attempts>>

\* The runner's lease lapses under a run, which goes on.
jobLapses(w) ==
  /\ holder = w /\ Cardinality(Worker) > 1 /\ fault
  /\ holder' = NoWorker
  /\ UNCHANGED <<row, voiding, node, queued, job, attempts>>

------------------------------------------------------------------------------

Init ==
  /\ status = "approved" /\ voiding = "no"
  /\ deploy = [state |-> "pending", provisioned |-> FALSE, tx |-> NoTx, stamped |-> FALSE]
  /\ lease = [owner |-> NoWorker, live |-> FALSE]
  /\ funded = FALSE /\ signatures = 0 /\ pool = {} /\ mined = {}
  /\ queued = FALSE /\ job = [w \in Worker |-> Idle]
  /\ holder = NoWorker /\ attempts = 0 /\ faults = 0

runStep(w) ==
  \/ startRun(w) \/ claimDeploy(w) \/ markProvisioned(w) \/ checkFunds(w) \/ awaitFunds(w)
  \/ readNonce(w) \/ sign(w) \/ markSigned(w) \/ sendBytes(w) \/ markBroadcast(w)
  \/ pollReceipt(w) \/ markDeployed(w) \/ markDeployFailed(w)

Next ==
  \/ enqueue \/ openMarket \/ readForVoid \/ voidMarket \/ fund \/ leaseLapses
  \/ \E t \in pool, ok \in BOOLEAN : mine(t, ok)
  \/ \E w \in Worker : runStep(w) \/ crashWorker(w) \/ jobLapses(w)

Spec == Init /\ [][Next]_vars

\* The sweep sweeps, a run goes on, time passes, the deployer is funded and the
\* chain mines what it holds.
FairSpec ==
  /\ Spec
  /\ WF_vars(enqueue) /\ WF_vars(leaseLapses /\ UNCHANGED faults) /\ WF_vars(fund)
  /\ WF_vars(\E t \in pool, ok \in BOOLEAN : mine(t, ok))
  /\ \A w \in Worker : WF_vars(runStep(w))

------------------------------------------------------------------------------
(* What must hold. *)

Tx == [sig : 0..MaxSignatures, nonce : Nat]
Pc == {"idle", "claim", "provision", "quote", "funds", "nonce", "sign", "commit", "send",
       "stamp", "poll", "confirm", "fail"}

\* The columns keep to the schema: a state with bytes has them, and a live lease
\* has an owner.
TypeOK ==
  /\ status \in {"approved", "open", "void"} /\ voiding \in {"no", "read", "done"}
  /\ deploy \in [state : {"pending", "building", "signed", "broadcast", "deployed", "failed"},
                 provisioned : BOOLEAN, tx : Tx, stamped : BOOLEAN]
  /\ deploy.state \in {"signed", "broadcast", "deployed"} => hasBytes
  /\ lease \in [owner : Worker \cup {NoWorker}, live : BOOLEAN]
  /\ lease.live => lease.owner # NoWorker
  /\ funded \in BOOLEAN /\ queued \in BOOLEAN /\ signatures \in 0..MaxSignatures
  /\ pool \subseteq Tx /\ mined \subseteq [tx : Tx, ok : BOOLEAN]
  /\ job \in [Worker -> [pc : Pc, tx : Tx, claimed : BOOLEAN]]
  /\ holder \in Worker \cup {NoWorker}
  /\ attempts \in 0..MaxAttempts /\ faults \in 0..MaxFaults

wire == pool \cup minedTx

\* claimDeploy, markSigned, and openMarket after markDeployed: one market has one
\* contract, whatever was signed, it is the one the row names, and an open market's
\* was mined.
OneContract ==
  /\ wire \subseteq {deploy.tx}
  /\ status = "open" => [tx |-> deploy.tx, ok |-> TRUE] \in mined

Outbound == INSTANCE OutboundTx WITH
  Slot <- {"deploy"}, NoBytes <- NoTx, committed <- [s \in {"deploy"} |-> deploy.tx]

\* driveDeploy: a deploy is an outbound transaction that is committed once and
\* only then, if ever, sent.
CommitBeforeSend == Outbound!Spec

\* deploySweepHandler: "a closed tab must not strand" a deploy, nor does a crash.
DeployFinishes ==
  status = "approved" ~> deploy.state \in {"deployed", "failed"} \/ status = "void"
==============================================================================
