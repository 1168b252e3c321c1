----------------------------- MODULE Resolution ------------------------------
(***************************************************************************)
(* Posting a market's answer on chain: the plan (planResolution), the      *)
(* drive of one row (driveResolution, buildAndSend, sendResolution in      *)
(* src/src/resolve.ts), the job that drives the rows of one chain and      *)
(* writes down what the chain accepted (src/src/jobs.ts), over a node with *)
(* a mempool and one market contract per market.                           *)
(*                                                                         *)
(* Every market here is on one chain and closed; all resolutions go        *)
(* through one oracle account.  Bytes are named by what they say: the      *)
(* market, the action and the nonce.                                       *)
(***************************************************************************)
EXTENDS Integers, FiniteSets

CONSTANTS Market,
          backed,             \* the outcomes of each contract that somebody staked on
          verdict,            \* the outcome the operator names for each market
          Worker, NoWorker,   \* processes that may run resolution.post
          MaxAttempts,        \* throws after which the runner gives the job up
          MaxFaults           \* bound on crashes, lost answers, refusals, lapses

ASSUME ResolutionAssumption ==
  /\ IsFiniteSet(Market) /\ "none" \notin Market
  /\ backed \in [Market -> SUBSET {0, 1}] /\ verdict \in [Market -> {0, 1}]
  /\ NoWorker \notin Worker
  /\ MaxAttempts \in Nat \ {0} /\ MaxFaults \in Nat

ACTION_VOID == 2
Action == 0..2

VARIABLES
  market,    \* the registry: "closed", "void", or the outcome written down
  res,       \* the resolutions row of each market
  contract,  \* what each market's contract says
  pool,      \* the oracle's transactions in the node's mempool
  mined,     \* those that have a receipt, with its status
  refusals,  \* the bytes a node has ever refused
  job,       \* what each worker's pass is doing
  holder,    \* who holds the job
  attempts,  \* throws of the job since it last completed
  faults

chain == <<contract, pool, mined, refusals>>
runner == <<job, holder, attempts>>
vars == <<market, res, chain, runner, faults>>

NoResolution == [state |-> "none", action |-> 0, nonce |-> 0, raw |-> FALSE, stamped |-> FALSE,
                 owner |-> NoWorker, leased |-> FALSE, made |-> 0]

\* raw: raw_tx is on the row.  stamped: broadcast_at is.  made: the rows before it.
bytes(m) == [market |-> m, action |-> res[m].action, nonce |-> res[m].nonce]

fault == faults < MaxFaults /\ faults' = faults + 1

------------------------------------------------------------------------------
(* The node and the contracts, as the service relies on them. *)

minedTx == {r.tx : r \in mined}
nextNonce == Cardinality(mined)

\* eth_getTransactionCount at 'pending'.
pendingNonce ==
  CHOOSE n \in nextNonce..(nextNonce + Cardinality(pool)) :
    /\ \A t \in pool : t.nonce # n
    /\ \A k \in nextNonce..(n - 1) : \E t \in pool : t.nonce = k

\* A node takes bytes whose nonce is free; it knows bytes it already has, and
\* says "nonce too low" to those whose nonce is spent.
taken(t) == t \in pool \/ t.nonce < nextNonce
blocked(t) == ~taken(t) /\ \E u \in pool : u.nonce = t.nonce

\* broadcast: the answers of eth_sendRawTransaction as the code sorts them.
broadcast(t, answer) ==
  \/ taken(t) /\ answer = "ok" /\ UNCHANGED <<pool, refusals, faults>>
  \/ ~taken(t) /\ ~blocked(t) /\ answer = "ok" /\ pool' = pool \cup {t}
     /\ UNCHANGED <<refusals, faults>>
  \/ blocked(t) /\ answer = "unavailable" /\ UNCHANGED <<pool, refusals, faults>>
  \/ ~taken(t) /\ answer = "refused" /\ fault /\ refusals' = refusals \cup {t} /\ UNCHANGED pool
  \/ answer = "unavailable" /\ fault /\ UNCHANGED refusals
     /\ pool' \in {pool, IF taken(t) \/ blocked(t) THEN pool ELSE pool \cup {t}}

\* oracleAct: an outcome nobody backed voids the market.
oracleAct(m, a) ==
  IF a # ACTION_VOID /\ a \in backed[m] THEN (IF a = 0 THEN "yes" ELSE "no") ELSE "void"

\* The next transaction of the account is mined.  A market that has its answer
\* refuses a second one.
mine(t) ==
  /\ t \in pool /\ t.nonce = nextNonce
  /\ pool' = pool \ {t}
  /\ mined' = mined \cup {[tx |-> t, ok |-> contract[t.market] = "open"]}
  /\ contract' = IF contract[t.market] = "open"
                   THEN [contract EXCEPT ![t.market] = oracleAct(t.market, t.action)]
                   ELSE contract
  /\ UNCHANGED <<market, res, refusals, runner, faults>>

------------------------------------------------------------------------------
(* planResolution.  The answer to a closed market's question, or void when  *)
(* the source it named does not answer.                                     *)

plannedAction(m, reachable) == IF reachable THEN verdict[m] ELSE ACTION_VOID

planResolution(m, reachable) ==
  /\ market[m] = "closed" /\ res[m].state = "none"
  /\ res' = [res EXCEPT ![m] = [NoResolution EXCEPT !.state = "planned",
                                  !.action = plannedAction(m, reachable),
                                  !.made = Cardinality({n \in Market : res[n].state # "none"})]]
  /\ UNCHANGED <<market, chain, runner, faults>>

------------------------------------------------------------------------------
(* resolutionPostHandler: the outstanding rows, oldest first, one at a time. *)

Idle == [pc |-> "idle", row |-> "none", queue |-> {}, nonce |-> 0, building |-> FALSE]

\* The row in hand.  Its bytes, once committed, never change.
current(w) == job[w].row

listOutstandingResolutions ==
  {m \in Market : /\ res[m].state \in {"planned", "building", "signed", "broadcast"}
                  /\ ~res[m].leased}

\* order by created_at
oldest(rows) == CHOOSE m \in rows : \A n \in rows : res[m].made <= res[n].made

at(w, pc) == job[w].pc = pc
goto(w, pc) == job' = [job EXCEPT ![w].pc = pc] /\ UNCHANGED <<holder, attempts>>

\* The handler returns: the job's row is deleted and put back for the next tick.
complete(w) ==
  job' = [job EXCEPT ![w] = Idle] /\ holder' = NoWorker /\ attempts' = 0

\* The loop takes the next of the rows that are left.
takes(w, rows) ==
  job' = [job EXCEPT ![w] = [Idle EXCEPT !.pc = "drive", !.row = oldest(rows),
                                         !.queue = rows \ {oldest(rows)}]]

continue(w) ==
  IF job[w].queue = {} THEN complete(w)
  ELSE takes(w, job[w].queue) /\ UNCHANGED <<holder, attempts>>

throw(w) ==
  /\ job' = [job EXCEPT ![w] = Idle]
  /\ IF holder = w THEN holder' = NoWorker /\ attempts' = attempts + 1
                   ELSE UNCHANGED <<holder, attempts>>

startPass(w) ==
  /\ holder = NoWorker /\ at(w, "idle") /\ attempts < MaxAttempts
  /\ listOutstandingResolutions # {}
  /\ takes(w, listOutstandingResolutions)
  /\ holder' = w
  /\ UNCHANGED <<market, res, chain, attempts, faults>>

\* Committed bytes are sent again and never signed again; a row without bytes
\* is claimed.
driveResolution(w) ==
  LET m == current(w)
  IN  /\ at(w, "drive")
      /\ IF res[m].state \in {"confirmed", "failed"} THEN continue(w)
         ELSE goto(w, IF ~res[m].raw THEN "claim" ELSE IF res[m].stamped THEN "poll" ELSE "send")
      /\ UNCHANGED <<market, res, chain, faults>>

inFlight == {m \in Market : res[m].state \in {"building", "signed", "broadcast"}}

\* Wrong: without the index.
admits_any(m) == m \in Market

\* resolutions_in_flight_uniq, over the rows of one chain.
admits(m) == inFlight \subseteq {m}

claimable(m) == res[m].state = "planned" /\ ~res[m].raw /\ admits(m)

\* Not claimed: somebody else has it, or another row of the chain is in flight.
claimForBuilding(w) ==
  LET m == current(w)
  IN  /\ at(w, "claim")
      /\ \/ /\ claimable(m)
            /\ res' = [res EXCEPT ![m].state = "building", ![m].owner = w, ![m].leased = TRUE]
            /\ job' = [job EXCEPT ![w].pc = "nonce", ![w].building = TRUE]
            /\ UNCHANGED <<holder, attempts>>
         \/ ~claimable(m) /\ continue(w) /\ UNCHANGED res
      /\ UNCHANGED <<market, chain, faults>>

release(m, w) ==
  IF res[m].owner = w THEN [res EXCEPT ![m].owner = NoWorker, ![m].leased = FALSE] ELSE res

\* What becomes of an upstream's error: inside buildAndSend it is caught, on a
\* re-send it is the runner's.
unavailable(w) ==
  IF job[w].building THEN res' = release(current(w), w) /\ complete(w)
                     ELSE UNCHANGED res /\ throw(w)
refused(w) ==
  UNCHANGED res /\ (IF job[w].building THEN goto(w, "fail") ELSE throw(w))

readNonce(w) ==
  /\ at(w, "nonce")
  /\ \/ /\ job' = [job EXCEPT ![w].pc = "sign", ![w].nonce = pendingNonce]
        /\ UNCHANGED <<res, holder, attempts, faults>>
     \/ fault /\ unavailable(w)
  /\ UNCHANGED <<market, chain>>

\* custody.sign
sign(w) ==
  /\ at(w, "sign")
  /\ \/ goto(w, "commit") /\ UNCHANGED <<res, faults>>
     \/ fault /\ unavailable(w)
     \/ fault /\ refused(w)
  /\ UNCHANGED <<market, chain>>

\* Wrong: the bytes go out before the row has them.
markResolutionSigned_afterSend(w) ==
  LET m == current(w)
  IN  /\ at(w, "commit")
      /\ pool' = pool \cup {[market |-> m, action |-> res[m].action, nonce |-> job[w].nonce]}
      /\ \/ /\ res' = [res EXCEPT ![m].state = "signed", ![m].raw = TRUE, ![m].nonce = job[w].nonce]
            /\ goto(w, "send") /\ UNCHANGED faults
         \/ fault /\ unavailable(w)
      /\ UNCHANGED <<market, contract, mined, refusals>>

\* The bytes are on the row before they are anywhere else.
markResolutionSigned(w) ==
  LET m == current(w)
  IN  /\ at(w, "commit")
      /\ \/ /\ res[m].owner = w /\ ~res[m].raw
            /\ res' = [res EXCEPT ![m].state = "signed", ![m].raw = TRUE, ![m].nonce = job[w].nonce]
            /\ goto(w, "reread")
         \/ /\ ~(res[m].owner = w /\ ~res[m].raw)
            /\ continue(w) /\ UNCHANGED res
      /\ UNCHANGED <<market, chain, faults>>

\* Another worker may have sent them since.
rereadSigned(w) ==
  /\ at(w, "reread")
  /\ goto(w, IF res[current(w)].stamped THEN "poll" ELSE "send")
  /\ UNCHANGED <<market, res, chain, faults>>

send(w) ==
  /\ at(w, "send")
  /\ \E answer \in {"ok", "refused", "unavailable"} :
       /\ broadcast(bytes(current(w)), answer)
       /\ \/ answer = "ok" /\ goto(w, "stamp") /\ UNCHANGED res
          \/ answer = "refused" /\ refused(w)
          \/ answer = "unavailable" /\ unavailable(w)
  /\ UNCHANGED <<market, contract, mined>>

\* A row that has failed meanwhile comes back, unless another is in flight by now:
\* then the index refuses it, and the error is the runner's.
markResolutionBroadcast(w) ==
  LET m == current(w)
  IN  /\ at(w, "stamp")
      /\ \/ res[m].stamped /\ UNCHANGED res /\ goto(w, "poll")
         \/ /\ ~res[m].stamped /\ admits(m)
            /\ res' = [res EXCEPT ![m].state = "broadcast", ![m].stamped = TRUE]
            /\ goto(w, "poll")
         \/ /\ ~res[m].stamped /\ ~admits(m)
            /\ res' = IF job[w].building THEN release(m, w) ELSE res
            /\ throw(w)
      /\ UNCHANGED <<market, chain, faults>>

\* Wrong: what was sent is taken for accepted.
pollReceipt_optimistic(w) ==
  /\ at(w, "poll")
  /\ goto(w, "confirm")
  /\ UNCHANGED <<market, res, chain, faults>>

\* receiptFor.  A receipt of a revert fails the row; without one the pass ends.
pollReceipt(w) ==
  LET m == current(w)
      receipts == {r \in mined : r.tx = bytes(m)}
  IN  /\ at(w, "poll")
      /\ \/ receipts = {} /\ res' = release(m, w) /\ complete(w) /\ UNCHANGED faults
         \/ \E r \in receipts : goto(w, IF r.ok THEN "confirm" ELSE "fail")
                                /\ UNCHANGED <<res, faults>>
         \/ fault /\ unavailable(w)
      /\ UNCHANGED <<market, chain>>

\* Wrong: the lease outlives its owner.
markResolutionFailed_keepsLease(w) ==
  /\ at(w, "fail")
  /\ res' = [res EXCEPT ![current(w)].state = "failed", ![current(w)].owner = NoWorker]
  /\ continue(w)
  /\ UNCHANGED <<market, chain, faults>>

\* Whatever the state of the row.
markResolutionFailed(w) ==
  /\ at(w, "fail")
  /\ res' = [res EXCEPT ![current(w)].state = "failed", ![current(w)].leased = FALSE,
                        ![current(w)].owner = NoWorker]
  /\ continue(w)
  /\ UNCHANGED <<market, chain, faults>>

\* Wrong: the loop goes on without telling the registry.
markResolutionConfirmed_only(w) ==
  /\ at(w, "confirm")
  /\ res' = [res EXCEPT ![current(w)].state = "confirmed", ![current(w)].leased = FALSE,
                        ![current(w)].owner = NoWorker]
  /\ continue(w)
  /\ UNCHANGED <<market, chain, faults>>

markResolutionConfirmed(w) ==
  LET m == current(w)
  IN  /\ at(w, "confirm")
      /\ res' = IF res[m].state = "broadcast"
                  THEN [res EXCEPT ![m].state = "confirmed", ![m].leased = FALSE,
                                   ![m].owner = NoWorker]
                  ELSE res
      /\ goto(w, "apply")
      /\ UNCHANGED <<market, chain, faults>>

\* applyConfirmedResolution: the registry follows.  A market that has moved on
\* is a conflict, which is thrown.
applyConfirmedResolution(w) ==
  LET m == current(w)
  IN  /\ at(w, "apply")
      /\ \/ /\ market[m] = "closed"
            /\ market' = [market EXCEPT ![m] = <<"yes", "no", "void">>[res[m].action + 1]]
            /\ continue(w)
         \/ market[m] # "closed" /\ UNCHANGED market /\ throw(w)
      /\ UNCHANGED <<res, chain, faults>>

------------------------------------------------------------------------------
(* What goes wrong by itself. *)

crashWorker(w) ==
  /\ ~at(w, "idle") /\ fault
  /\ job' = [job EXCEPT ![w] = Idle]
  /\ holder' = IF holder = w THEN NoWorker ELSE holder
  /\ UNCHANGED <<market, res, chain, attempts>>

\* The runner's lease lapses under a pass, which goes on.
jobLapses(w) ==
  /\ holder = w /\ Cardinality(Worker) > 1 /\ fault
  /\ holder' = NoWorker
  /\ UNCHANGED <<market, res, chain, job, attempts>>

\* The lease on the row runs out.
leaseLapses(m) ==
  /\ res[m].leased
  /\ res' = [res EXCEPT ![m].leased = FALSE]
  /\ UNCHANGED <<market, chain, runner, faults>>

------------------------------------------------------------------------------

Init ==
  /\ market = [m \in Market |-> "closed"]
  /\ res = [m \in Market |-> NoResolution]
  /\ contract = [m \in Market |-> "open"]
  /\ pool = {} /\ mined = {} /\ refusals = {}
  /\ job = [w \in Worker |-> Idle]
  /\ holder = NoWorker /\ attempts = 0 /\ faults = 0

passStep(w) ==
  \/ startPass(w) \/ driveResolution(w) \/ claimForBuilding(w) \/ readNonce(w)
  \/ sign(w) \/ markResolutionSigned(w) \/ rereadSigned(w) \/ send(w) \/ markResolutionBroadcast(w)
  \/ pollReceipt(w) \/ markResolutionFailed(w) \/ markResolutionConfirmed(w)
  \/ applyConfirmedResolution(w)

Next ==
  \/ \E m \in Market : leaseLapses(m)
       \/ \E reachable \in BOOLEAN : planResolution(m, reachable)
  \/ \E t \in pool : mine(t)
  \/ \E w \in Worker : passStep(w) \/ crashWorker(w) \/ jobLapses(w)

Spec == Init /\ [][Next]_vars

\* A pass goes on and the next one starts, the chain mines what it holds, and
\* time passes.
FairSpec ==
  /\ Spec
  /\ \A w \in Worker : WF_vars(passStep(w))
  /\ WF_vars(\E t \in pool : mine(t))
  /\ \A m \in Market : WF_vars(leaseLapses(m))

------------------------------------------------------------------------------
(* What must hold. *)

State == {"none", "planned", "building", "signed", "broadcast", "confirmed", "failed"}
Tx == [market : Market, action : Action, nonce : Nat]
Pc == {"idle", "drive", "claim", "nonce", "sign", "commit", "reread", "send", "stamp", "poll",
       "fail", "confirm", "apply"}

\* The columns keep to the states and the actions the schema admits, and a
\* lease has an owner.
TypeOK ==
  /\ \A m \in Market : res[m].leased => res[m].owner # NoWorker
  /\ market \in [Market -> {"closed", "yes", "no", "void"}]
  /\ res \in [Market -> [state : State, action : Action, nonce : Nat, raw : BOOLEAN, stamped : BOOLEAN,
                         owner : Worker \cup {NoWorker}, leased : BOOLEAN, made : Nat]]
  /\ contract \in [Market -> {"open", "yes", "no", "void"}]
  /\ pool \subseteq Tx /\ mined \subseteq [tx : Tx, ok : BOOLEAN] /\ refusals \subseteq Tx
  /\ job \in [Worker -> [pc : Pc, row : Market \cup {"none"}, queue : SUBSET Market,
                         nonce : Nat, building : BOOLEAN]]
  /\ holder \in Worker \cup {NoWorker}
  /\ attempts \in 0..MaxAttempts /\ faults \in 0..MaxFaults

wire == pool \cup minedTx

NoBytes == [market |-> "none", action |-> 0, nonce |-> 0]

Outbound == INSTANCE OutboundTx WITH
  Slot <- Market, NoBytes <- NoBytes,
  committed <- [m \in Market |-> IF res[m].raw THEN bytes(m) ELSE NoBytes]

\* driveResolution: a resolution is an outbound transaction that is committed
\* once and only then, if ever, sent.
CommitBeforeSend == Outbound!Spec

\* markResolutionSigned before broadcast, and the chain's claim on the oracle's
\* nonce: what is on the wire is what a row holds, so that no market is answered
\* twice; and a row that says its bytes were sent has them on the wire, not lost
\* behind another resolution of the same nonce - as long as the nodes took nothing
\* that one of them refused, and but for a row that was refused itself.
RowsAndWireAgree ==
  /\ \A t \in wire : res[t.market].raw /\ t = bytes(t.market)
  /\ refusals \cap wire = {} =>
       \A m \in Market :
         res[m].state \in {"broadcast", "confirmed"} => bytes(m) \in wire \cup refusals

\* What the registry says of a market is an answer that nobody backed.
unbacked(m) == \/ market[m] = "yes" /\ 0 \notin backed[m]
               \/ market[m] = "no" /\ 1 \notin backed[m]

\* applyConfirmedResolution after the receipt: what the registry says of a market its
\* contract has decided, and the same way, but that of an answer nobody backed, which
\* the contract took for a void, the registry says what was planned.  In particular
\* a market is void in the registry only if it is void on the chain.
ChainFirst ==
  \A m \in Market :
    market[m] # "closed" => contract[m] = IF unbacked(m) THEN "void" ELSE market[m]

\* resolutionPostHandler: a plan is carried to the registry.
PlanCarriedOut == \A m \in Market : res[m].state = "planned" ~> market[m] # "closed"

\* resolutionPostHandler and applyConfirmedResolution where nothing fails, with a
\* worker too many: a plan is carried to the registry, and what the chain decided
\* the registry learns.
CalmResolutionArrives ==
  [](faults = 0) =>
    \A m \in Market : res[m].state = "planned" \/ contract[m] # "open" ~> market[m] # "closed"
==============================================================================
