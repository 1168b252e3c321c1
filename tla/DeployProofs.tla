----------------------------- MODULE DeployProofs -----------------------------
(***************************************************************************)
(* That a market is deployed once, by any number of workers, through any   *)
(* number of crashes, lapses and lost answers, and however often custody   *)
(* signs: for all constants that satisfy DeployAssumption.                 *)
(*                                                                         *)
(* OneContract is not inductive.  It holds because nothing is on the wire  *)
(* before the row has bytes (WireCommitted) and the row's bytes are never  *)
(* replaced; and an open market's contract is mined because whoever is at  *)
(* "confirm" saw its receipt (Positions, Deployed).                        *)
(***************************************************************************)
EXTENDS Deploy, FiniteSetTheorems, TLAPS

Run == [pc : Pc, tx : Tx, claimed : BOOLEAN]
Mined == [tx |-> deploy.tx, ok |-> TRUE] \in mined

\* What a run knows of the row from the step it is at.
Position(run) ==
  /\ run.pc = "commit" => run.tx.sig # 0
  /\ run.pc \in {"send", "stamp", "poll"} => hasBytes
  /\ run.pc = "confirm" => Mined

Positions == \A w \in Worker : Position(job[w])

\* Nothing but the row's bytes, and nothing before it has any.
WireCommitted == wire \subseteq {deploy.tx} /\ (wire # {} => hasBytes)

\* A contract that is said to be there is mined.
Deployed == deploy.state = "deployed" \/ status = "open" => Mined

\* Who holds the job has a throw left; what counts nonces is finite.
Held == holder # NoWorker => attempts < MaxAttempts
Finite == IsFiniteSet(pool) /\ IsFiniteSet(mined)

IInv == TypeOK /\ Positions /\ WireCommitted /\ Deployed /\ Held /\ Finite

------------------------------------------------------------------------------
(* What follows from it.                                                   *)

\* The invariant is strong enough.
LEMMA HasContract ==
  ASSUME IInv
  PROVE  OneContract
PROOF
  BY DEF IInv, WireCommitted, Deployed, Mined, OneContract

\* A mined contract is the row's, so the row has bytes.
LEMMA MinedHasBytes ==
  ASSUME IInv, Mined
  PROVE  hasBytes
PROOF
<1>1. deploy.tx \in wire
  BY DEF Mined, wire, minedTx
<1> QED
  BY <1>1 DEF IInv, WireCommitted

\* What a run without bytes looks like.
LEMMA NoTxTyped == NoTx \in Tx /\ NoTx.sig = 0 /\ Idle \in Run /\ Idle.pc = "idle"
PROOF
<1>1. NoTx \in Tx /\ NoTx.sig = 0
  BY DeployAssumption DEF NoTx, Tx
<1>2. Idle.pc = "idle" /\ Idle.claimed = FALSE /\ Idle.tx = NoTx
  BY DEF Idle
<1>3. "idle" \in Pc
  BY DEF Pc
<1> QED
  BY <1>1, <1>3 DEF Idle, Run

\* There is nothing yet.
THEOREM Initially == Init => IInv
PROOF
<1> SUFFICES ASSUME Init
             PROVE  IInv
  OBVIOUS
<1>1. TypeOK
  <2>1. /\ deploy \in [state : {"pending", "building", "signed", "broadcast", "deployed", "failed"},
                        provisioned : BOOLEAN, tx : Tx, stamped : BOOLEAN]
        /\ deploy.state = "pending" /\ lease.live = FALSE
        /\ lease \in [owner : Worker \cup {NoWorker}, live : BOOLEAN]
    BY NoTxTyped DEF Init
  <2>2. job \in [Worker -> Run]
    BY NoTxTyped DEF Init
  <2>3. signatures \in 0..MaxSignatures /\ attempts \in 0..MaxAttempts /\ faults \in 0..MaxFaults
    BY DeployAssumption DEF Init
  <2> QED
    BY <2>1, <2>2, <2>3 DEF Init, TypeOK, Run
<1>2. Positions
  BY NoTxTyped DEF Init, Positions, Position
<1>3. WireCommitted /\ Deployed
  BY DEF Init, WireCommitted, Deployed, wire, minedTx
<1>4. Held /\ Finite
  BY FS_EmptySet DEF Init, Held, Finite
<1> QED
  BY <1>1, <1>2, <1>3, <1>4 DEF IInv

------------------------------------------------------------------------------
(* Steps that leave the wire and the bytes of the row alone.               *)

\* The row keeps its bytes and the chain what it has.
Quiet ==
  /\ UNCHANGED <<pool, mined>> /\ deploy'.tx = deploy.tx
  /\ deploy'.state = "deployed" => Mined
  /\ status' = "open" => Mined

\* One run goes on, to a step it is right to be at, or none does.
Onward(w) == \E run : job' = [job EXCEPT ![w] = run] /\ Position(run)'

\* A step that leaves the bytes and the wire alone, of a run that goes on knowing what it must.
LEMMA QuietKeeps ==
  ASSUME IInv, TypeOK', Held', Quiet,
         job' = job \/ \E w \in Worker : Onward(w)
  PROVE  IInv'
PROOF
<1> USE DEF IInv
<1>1. WireCommitted' /\ Deployed' /\ Finite'
  BY DEF Quiet, WireCommitted, Deployed, Finite, Mined, wire, minedTx, hasBytes
<1>2. \A run : Position(run) => Position(run)'
  BY DEF Quiet, Position, Mined, hasBytes
<1>3. Positions'
  <2>1. CASE job' = job
    BY <1>2, <2>1 DEF Positions
  <2>2. ASSUME NEW w \in Worker, Onward(w)
        PROVE  Positions'
    BY <1>2, <2>2 DEF Positions, Onward, TypeOK
  <2> QED
    BY <2>1, <2>2
<1> QED
  BY <1>1, <1>3

\* A run that ends, or goes on to a step that says nothing of the row.
LEMMA Ends ==
  ASSUME IInv, NEW w \in Worker, complete(w) \/ throw(w)
  PROVE  /\ Onward(w) /\ Held' /\ job' \in [Worker -> Run] /\ queued' \in BOOLEAN
         /\ holder' \in Worker \cup {NoWorker} /\ attempts' \in 0..MaxAttempts
PROOF
<1>1. job' = [job EXCEPT ![w] = Idle] /\ Position(Idle)'
  BY NoTxTyped DEF complete, throw, Position
<1>2. job' \in [Worker -> Run]
  BY <1>1, NoTxTyped DEF IInv, TypeOK, Run
<1>3. Onward(w)
  BY <1>1 DEF Onward
<1>4. /\ queued' \in BOOLEAN /\ holder' \in Worker \cup {NoWorker}
      /\ attempts' \in 0..MaxAttempts /\ Held'
  <2>1. CASE complete(w)
    <3>1. queued' \in BOOLEAN
      BY <2>1 DEF complete
    <3>2. holder' = NoWorker /\ attempts' = 0
      BY <2>1 DEF complete
    <3> QED
      BY <3>1, <3>2, DeployAssumption DEF Held
  <2>2. CASE throw(w) /\ holder = w
    <3>1. attempts < MaxAttempts /\ attempts \in 0..MaxAttempts /\ queued \in BOOLEAN
      <4>1. attempts \in 0..MaxAttempts /\ queued \in BOOLEAN
        BY DEF IInv, TypeOK
      <4>2. holder # NoWorker
        BY <2>2, DeployAssumption
      <4> QED
        BY <4>1, <4>2 DEF Held, IInv
    <3>2. attempts' = attempts + 1 /\ holder' = NoWorker /\ queued' = queued
      BY <2>2 DEF throw
    <3> QED
      BY <3>1, <3>2, DeployAssumption DEF Held
  <2>3. CASE throw(w) /\ holder # w
    BY <2>3 DEF throw, Held, IInv, TypeOK
  <2> QED
    BY <2>1, <2>2, <2>3
<1> QED
  BY <1>2, <1>3, <1>4

\* A run that goes on keeps its tx, its job and its lease.
LEMMA GoesOn ==
  ASSUME IInv, NEW w \in Worker, NEW pc \in Pc, goto(w, pc)
  PROVE  /\ job' = [job EXCEPT ![w] = [job[w] EXCEPT !.pc = pc]]
         /\ [job[w] EXCEPT !.pc = pc].pc = pc
         /\ job' \in [Worker -> Run] /\ UNCHANGED <<queued, holder, attempts>> /\ Held'
PROOF
<1>1. job \in [Worker -> Run]
  BY DEF IInv, TypeOK, Run
<1>2. job[w] \in Run
  BY <1>1
<1>3. \A run \in Run : [run EXCEPT !.pc = pc] \in Run /\ [run EXCEPT !.pc = pc].pc = pc
  BY DEF Run
<1> QED
  BY <1>1, <1>2, <1>3 DEF goto, IInv, Held

\* The parts of TypeOK.
RowTyped ==
  /\ deploy \in [state : {"pending", "building", "signed", "broadcast", "deployed", "failed"},
                 provisioned : BOOLEAN, tx : Tx, stamped : BOOLEAN]
  /\ deploy.state \in {"signed", "broadcast", "deployed"} => hasBytes
LeaseTyped ==
  /\ lease \in [owner : Worker \cup {NoWorker}, live : BOOLEAN]
  /\ lease.live => lease.owner # NoWorker
RunnerTyped ==
  /\ job \in [Worker -> Run] /\ queued \in BOOLEAN /\ holder \in Worker \cup {NoWorker}
  /\ attempts \in 0..MaxAttempts /\ Held
OthersTyped ==
  /\ status \in {"approved", "open", "void"} /\ voiding \in {"no", "read", "done"}
  /\ funded \in BOOLEAN /\ signatures \in 0..MaxSignatures
  /\ pool \subseteq Tx /\ mined \subseteq [tx : Tx, ok : BOOLEAN]
  /\ faults \in 0..MaxFaults

\* The type invariant by what it is about.
LEMMA Parts == TypeOK /\ Held <=> RowTyped /\ LeaseTyped /\ RunnerTyped /\ OthersTyped
PROOF
  BY DEF TypeOK, RowTyped, LeaseTyped, RunnerTyped, OthersTyped, Run

\* Faults stay within their bound.
LEMMA Faults ==
  ASSUME IInv, fault \/ faults' = faults
  PROVE  faults' \in 0..MaxFaults
PROOF
  BY DeployAssumption DEF IInv, TypeOK, fault

\* A run of w, its lease and its job, and of the row all but the bytes.
LEMMA RunKeeps ==
  ASSUME IInv, NEW w \in Worker, UNCHANGED <<status, voiding, funded, pool, mined>>,
         fault \/ faults' = faults, signatures' \in 0..MaxSignatures,
         RowTyped', deploy'.tx = deploy.tx, deploy'.state = "deployed" => Mined,
         LeaseTyped', RunnerTyped', Onward(w)
  PROVE  IInv'
PROOF
<1>1. OthersTyped'
  BY Faults, Parts DEF OthersTyped, IInv
<1>2. TypeOK' /\ Held'
  BY <1>1, Parts, PTL
<1>3. Quiet
  BY DEF Quiet, IInv, Deployed
<1> QED
  BY <1>2, <1>3, QuietKeeps

\* A run that is over knows nothing it should not.
LEMMA RunnerEnds ==
  ASSUME IInv, NEW w \in Worker, complete(w) \/ throw(w)
  PROVE  RunnerTyped' /\ Onward(w)
PROOF
  BY Ends DEF RunnerTyped

\* A run goes on to a step, and knows there what it has to.
LEMMA RunnerGoesOn ==
  ASSUME IInv, NEW w \in Worker, NEW pc \in Pc \ {"commit"}, goto(w, pc),
         pc \in {"send", "stamp", "poll"} => hasBytes', pc = "confirm" => Mined'
  PROVE  RunnerTyped' /\ Onward(w)
PROOF
<1>1. RunnerTyped'
  BY GoesOn, Parts DEF RunnerTyped, IInv
<1>2. PICK run : run = [job[w] EXCEPT !.pc = pc] /\ run.pc = pc
  BY GoesOn
<1>3. Position(run)'
  BY <1>2 DEF Position
<1> QED
  BY <1>1, <1>2, <1>3, GoesOn DEF Onward

\* A lease nobody has is a lease.
LEMMA Cleared ==
  ASSUME lease' = [owner |-> NoWorker, live |-> FALSE]
  PROVE  LeaseTyped'
PROOF
  BY DEF LeaseTyped

\* What letting go of a lease leaves of it.
LEMMA Released ==
  ASSUME IInv, NEW w \in Worker, lease' = released(w) \/ lease' = lease
  PROVE  LeaseTyped'
PROOF
<1>1. CASE lease' = lease
  BY <1>1, Parts DEF LeaseTyped, IInv
<1>2. CASE lease' = [owner |-> NoWorker, live |-> FALSE]
  BY <1>2, Cleared
<1> QED
  BY <1>1, <1>2 DEF released

\* The ways in which a run stops or is stopped.
LEMMA Stops ==
  ASSUME IInv, NEW w \in Worker, unavailable(w) \/ refused(w)
  PROVE  LeaseTyped' /\ RunnerTyped' /\ Onward(w)
PROOF
<1>1. CASE unavailable(w)
  BY <1>1, RunnerEnds, Released DEF unavailable
<1>2. CASE refused(w)
  <2>1. LeaseTyped'
    BY <1>2, Released DEF refused
  <2>2. CASE goto(w, "fail")
    BY <2>1, <2>2, RunnerGoesOn DEF Pc
  <2>3. CASE throw(w)
    BY <2>1, <2>3, RunnerEnds
  <2> QED
    BY <1>2, <2>2, <2>3 DEF refused
<1> QED
  BY <1>1, <1>2

\* A heartbeat, on the way to a step that asks nothing of the row.
LEMMA Beats ==
  ASSUME IInv, NEW w \in Worker, NEW pc \in {"funds", "nonce"}, beat(w, pc)
  PROVE  LeaseTyped' /\ RunnerTyped' /\ Onward(w)
PROOF
<1>1. CASE lease.owner = w
  <2>1. LeaseTyped'
    BY <1>1, DeployAssumption, Parts DEF beat, LeaseTyped, IInv
  <2> QED
    BY <1>1, <2>1, RunnerGoesOn DEF beat, Pc
<1>2. CASE lease.owner # w
  BY <1>2, RunnerEnds, Released DEF beat
<1> QED
  BY <1>1, <1>2

------------------------------------------------------------------------------
(* The steps of a run.                                                     *)

\* The claim: the row is this run's, or has bytes to be sent or asked for again.
LEMMA ClaimKeeps ==
  ASSUME IInv, NEW w \in Worker, claimDeploy(w)
  PROVE  IInv'
PROOF
<1>1. /\ UNCHANGED <<status, voiding, funded, signatures, pool, mined, faults>>
      /\ signatures' \in 0..MaxSignatures
  BY DEF claimDeploy, node, IInv, TypeOK
<1>2. CASE /\ claimable
           /\ deploy' = [deploy EXCEPT !.state = "building"]
           /\ lease' = [owner |-> w, live |-> TRUE]
           /\ job' = [job EXCEPT ![w].pc = IF deploy.provisioned THEN "quote" ELSE "provision",
                                 ![w].claimed = TRUE]
           /\ UNCHANGED <<queued, holder, attempts>>
  <2>1. RowTyped' /\ deploy'.tx = deploy.tx /\ deploy'.state = "building"
    BY <1>2, Parts DEF IInv, RowTyped, hasBytes
  <2>2. LeaseTyped'
    BY <1>2, DeployAssumption DEF LeaseTyped
  <2>3. PICK run \in Run : run.pc \in {"quote", "provision"} /\ job' = [job EXCEPT ![w] = run]
    <3>1. job[w] \in Run
      BY Parts DEF IInv, RunnerTyped
    <3>2. \A run \in Run, pc \in {"quote", "provision"} :
            /\ [run EXCEPT !.pc = pc, !.claimed = TRUE] \in Run
            /\ [run EXCEPT !.pc = pc, !.claimed = TRUE].pc = pc
      BY DEF Run, Pc
    <3>3. job' = [job EXCEPT ![w] = [job[w] EXCEPT !.pc = IF deploy.provisioned THEN "quote" ELSE "provision",
                                                   !.claimed = TRUE]]
      BY <1>2, Parts DEF IInv, RunnerTyped
    <3> QED
      BY <3>1, <3>2, <3>3
  <2>4. RunnerTyped'
    BY <1>2, <2>3, Parts DEF RunnerTyped, IInv, Held
  <2>5. Onward(w)
    BY <2>3 DEF Onward, Position
  <2> QED
    BY <1>1, <2>1, <2>2, <2>4, <2>5, RunKeeps
<1>3. ASSUME UNCHANGED <<deploy, lease>>
      PROVE  /\ RowTyped' /\ deploy'.tx = deploy.tx /\ LeaseTyped'
             /\ deploy'.state = "deployed" => Mined
  BY <1>3, Parts, Released DEF IInv, RowTyped, Deployed, hasBytes
<1>4. CASE /\ hasBytes /\ UNCHANGED <<deploy, lease>>
           /\ goto(w, IF deploy.stamped THEN "poll" ELSE "send")
  <2>1. hasBytes'
    BY <1>4 DEF hasBytes
  <2>2. RunnerTyped' /\ Onward(w)
    BY <1>4, <2>1, RunnerGoesOn DEF Pc
  <2> QED
    BY <1>1, <1>3, <1>4, <2>2, RunKeeps
<1>5. CASE complete(w) /\ UNCHANGED <<deploy, lease>>
  BY <1>1, <1>3, <1>5, RunnerEnds, RunKeeps
<1> QED
  BY <1>2, <1>4, <1>5 DEF claimDeploy

\* markProvisioned writes no bytes.
LEMMA ProvisionKeeps ==
  ASSUME IInv, NEW w \in Worker, markProvisioned(w)
  PROVE  IInv'
PROOF
<1>1. /\ UNCHANGED <<status, voiding, funded, pool, mined>> /\ signatures' \in 0..MaxSignatures
      /\ fault \/ faults' = faults
  BY DEF markProvisioned, node, IInv, TypeOK
<1>2. /\ deploy' = deploy \/ deploy' = [deploy EXCEPT !.provisioned = TRUE]
      /\ LeaseTyped' /\ RunnerTyped' /\ Onward(w)
  BY Stops, Released, RunnerGoesOn, RunnerEnds DEF markProvisioned, Pc
<1>3. RowTyped' /\ deploy'.tx = deploy.tx /\ (deploy'.state = "deployed" => Mined)
  BY <1>2, Parts DEF IInv, RowTyped, Deployed, hasBytes
<1> QED
  BY <1>1, <1>2, <1>3, RunKeeps

\* Its row and what else does not concern it are as they were.
LEMMA SameRow ==
  ASSUME IInv, UNCHANGED <<deploy, signatures>>
  PROVE  /\ RowTyped' /\ deploy'.tx = deploy.tx /\ (deploy'.state = "deployed" => Mined)
         /\ signatures' \in 0..MaxSignatures
PROOF
  BY Parts DEF IInv, RowTyped, OthersTyped, Deployed, hasBytes

\* The quote and the balance are reads.
LEMMA QuoteKeeps ==
  ASSUME IInv, NEW w \in Worker, checkFunds(w)
  PROVE  IInv'
PROOF
<1>1. /\ UNCHANGED <<status, voiding, funded, signatures, pool, mined, deploy>>
      /\ fault \/ faults' = faults
  BY DEF checkFunds, node
<1>2. LeaseTyped' /\ RunnerTyped' /\ Onward(w)
  BY Beats, Stops DEF checkFunds
<1> QED
  BY <1>1, <1>2, SameRow, RunKeeps

\* Waiting for funds writes no bytes.
LEMMA FundsKeeps ==
  ASSUME IInv, NEW w \in Worker, awaitFunds(w)
  PROVE  IInv'
PROOF
<1>1. /\ UNCHANGED <<status, voiding, funded, pool, mined, faults>>
      /\ signatures' \in 0..MaxSignatures
  BY DEF awaitFunds, node, IInv, TypeOK
<1>2. LeaseTyped' /\ RunnerTyped' /\ Onward(w)
  BY Beats, RunnerEnds, Released DEF awaitFunds
<1>3. deploy' = deploy \/ deploy' = [deploy EXCEPT !.state = "pending"]
  BY DEF awaitFunds
<1>4. RowTyped' /\ deploy'.tx = deploy.tx /\ (deploy'.state = "deployed" => Mined)
  BY <1>3, Parts DEF IInv, RowTyped, Deployed, hasBytes
<1> QED
  BY <1>1, <1>2, <1>4, RunKeeps

\* The nonce is a read.
LEMMA NonceKeeps ==
  ASSUME IInv, NEW w \in Worker, readNonce(w)
  PROVE  IInv'
PROOF
<1>1. /\ UNCHANGED <<status, voiding, funded, signatures, pool, mined, deploy>>
      /\ fault \/ faults' = faults
  BY DEF readNonce, node
<1>2. CASE /\ job' = [job EXCEPT ![w].pc = "sign", ![w].tx.nonce = nextNonce + Cardinality(pool)]
           /\ UNCHANGED <<lease, queued, holder, attempts>>
  <2>1. nextNonce + Cardinality(pool) \in Nat
    BY FS_CardinalityType DEF IInv, Finite, nextNonce
  <2>2. PICK run \in Run : run.pc = "sign" /\ job' = [job EXCEPT ![w] = run]
    <3>1. job[w] \in Run /\ job \in [Worker -> Run]
      BY Parts DEF IInv, RunnerTyped
    <3>2. \A run \in Run, n \in Nat :
            /\ [run EXCEPT !.pc = "sign", !.tx.nonce = n] \in Run
            /\ [run EXCEPT !.pc = "sign", !.tx.nonce = n].pc = "sign"
      BY DEF Run, Pc, Tx
    <3>3. job' = [job EXCEPT ![w] = [job[w] EXCEPT !.pc = "sign",
                                                   !.tx.nonce = nextNonce + Cardinality(pool)]]
      BY <1>2, <3>1 DEF Run
    <3> QED
      BY <2>1, <3>1, <3>2, <3>3
  <2>3. RunnerTyped'
    BY <1>2, <2>2, Parts DEF RunnerTyped, IInv, Held
  <2>4. Onward(w)
    BY <2>2 DEF Onward, Position
  <2> QED
    BY <1>1, <1>2, <2>3, <2>4, SameRow, Released, RunKeeps
<1>3. CASE unavailable(w)
  BY <1>1, <1>3, Stops, SameRow, RunKeeps
<1> QED
  BY <1>2, <1>3 DEF readNonce

\* The signature of a run is its own.
LEMMA SignKeeps ==
  ASSUME IInv, NEW w \in Worker, sign(w)
  PROVE  IInv'
PROOF
<1>1. /\ UNCHANGED <<status, voiding, funded, pool, mined, deploy>>
      /\ fault \/ faults' = faults
  BY DEF sign
<1>2. CASE /\ signatures < MaxSignatures /\ signatures' = signatures + 1
           /\ job' = [job EXCEPT ![w].pc = "commit", ![w].tx.sig = signatures + 1]
           /\ UNCHANGED <<lease, queued, holder, attempts>>
  <2>1. signatures + 1 \in 0..MaxSignatures /\ signatures + 1 # 0
    BY <1>2, Parts, DeployAssumption DEF IInv, OthersTyped
  <2>2. PICK run \in Run : /\ run.pc = "commit" /\ run.tx.sig # 0
                           /\ job' = [job EXCEPT ![w] = run]
    <3>1. job[w] \in Run /\ job \in [Worker -> Run]
      BY Parts DEF IInv, RunnerTyped
    <3>2. \A run \in Run, n \in 0..MaxSignatures :
            /\ [run EXCEPT !.pc = "commit", !.tx.sig = n] \in Run
            /\ [run EXCEPT !.pc = "commit", !.tx.sig = n].pc = "commit"
            /\ [run EXCEPT !.pc = "commit", !.tx.sig = n].tx.sig = n
      BY DEF Run, Pc, Tx
    <3>3. job' = [job EXCEPT ![w] = [job[w] EXCEPT !.pc = "commit", !.tx.sig = signatures + 1]]
      BY <1>2, <3>1 DEF Run
    <3> QED
      BY <2>1, <3>1, <3>2, <3>3
  <2>3. RunnerTyped'
    BY <1>2, <2>2, Parts DEF RunnerTyped, IInv, Held
  <2>4. Onward(w)
    BY <2>2 DEF Onward, Position
  <2>5. /\ RowTyped' /\ deploy'.tx = deploy.tx /\ (deploy'.state = "deployed" => Mined)
    BY <1>1, Parts DEF IInv, RowTyped, Deployed, hasBytes
  <2> QED
    BY <1>1, <1>2, <2>1, <2>3, <2>4, <2>5, Released, RunKeeps
<1>3. CASE signatures' = signatures /\ (unavailable(w) \/ refused(w))
  BY <1>1, <1>3, Stops, SameRow, RunKeeps
<1> QED
  BY <1>2, <1>3 DEF sign

\* The commit.  It puts bytes on a row that has none, so nothing is on the wire yet
\* and nobody knows anything of the row that could cease to be so.
LEMMA CommitKeeps ==
  ASSUME IInv, NEW w \in Worker, markSigned(w)
  PROVE  IInv'
PROOF
<1>1. /\ UNCHANGED <<status, voiding, funded, signatures, pool, mined, faults, lease>>
      /\ at(w, "commit") /\ job[w] \in Run /\ signatures' \in 0..MaxSignatures
  BY Parts DEF markSigned, node, IInv, RunnerTyped, OthersTyped
<1>2. CASE /\ ~hasBytes /\ goto(w, "send")
           /\ deploy' = [deploy EXCEPT !.state = "signed", !.tx = job[w].tx]
  <2>1. job[w].tx \in Tx /\ job[w].tx # NoTx
    BY <1>1, NoTxTyped DEF IInv, Positions, Position, at, Run
  <2>2. RowTyped' /\ hasBytes' /\ deploy'.state = "signed"
    BY <1>2, <2>1, Parts DEF IInv, RowTyped, hasBytes
  <2>3. RunnerTyped' /\ Onward(w)
    BY <1>2, <2>2, RunnerGoesOn DEF Pc
  <2>4. TypeOK' /\ Held'
    <3>1. LeaseTyped' /\ OthersTyped'
      BY <1>1, Parts, Released DEF IInv, OthersTyped
    <3> QED
      BY <2>2, <2>3, <3>1, Parts, PTL
  <2>5. ~Mined /\ status # "open"
    BY <1>2, MinedHasBytes DEF IInv, Deployed
  <2>6. Deployed'
    BY <1>1, <2>2, <2>5 DEF Deployed
  <2>7. WireCommitted' /\ Finite'
    BY <1>1, <1>2, <2>2 DEF IInv, WireCommitted, Finite, wire, minedTx
  <2>8. Positions'
    <3>1. \A v \in Worker : Position(job[v])'  \/ v = w
      <4> SUFFICES ASSUME NEW v \in Worker, v # w
                   PROVE  Position(job[v])'
        OBVIOUS
      <4>1. job'[v] = job[v]
        BY <2>3, Parts DEF Onward, IInv, RunnerTyped
      <4>2. Position(job[v]) /\ job[v].pc # "confirm"
        BY <2>5 DEF IInv, Positions, Position
      <4> QED
        BY <2>2, <4>1, <4>2 DEF Position
    <3>2. Position(job[w])'
      BY <2>3, Parts DEF Onward, IInv, RunnerTyped
    <3> QED
      BY <3>1, <3>2 DEF Positions
  <2> QED
    BY <2>4, <2>6, <2>7, <2>8 DEF IInv
<1>3. CASE deploy' = deploy /\ complete(w)
  BY <1>1, <1>3, RunnerEnds, SameRow, Released, RunKeeps
<1> QED
  BY <1>2, <1>3 DEF markSigned

\* What is sent is the row's, which it does not change.
LEMMA SendKeeps ==
  ASSUME IInv, NEW w \in Worker, sendBytes(w)
  PROVE  IInv'
PROOF
<1>1. /\ UNCHANGED <<status, voiding, funded, signatures, mined, deploy>>
      /\ fault \/ faults' = faults
      /\ hasBytes /\ hasBytes' /\ deploy.tx \in Tx
  BY Parts DEF sendBytes, IInv, Positions, Position, at, RowTyped, hasBytes
<1>2. pool' \subseteq pool \cup {deploy.tx}
  BY DEF sendBytes
<1>3. LeaseTyped' /\ RunnerTyped' /\ Onward(w)
  <2>1. CASE goto(w, "stamp") /\ lease' = lease
    BY <1>1, <2>1, RunnerGoesOn, Released DEF Pc
  <2>2. CASE unavailable(w) \/ refused(w)
    BY <2>2, Stops
  <2> QED
    BY <2>1, <2>2 DEF sendBytes
<1>4. TypeOK' /\ Held'
  <2>1. RowTyped'
    BY <1>1, SameRow
  <2>2. OthersTyped'
    BY <1>1, <1>2, Parts, Faults DEF IInv, OthersTyped
  <2> QED
    BY <1>3, <2>1, <2>2, Parts, PTL
<1>5. Finite'
  BY <1>1, <1>2, FS_Subset, FS_AddElement DEF IInv, Finite
<1>6. WireCommitted' /\ Deployed' /\ (Mined => Mined')
  BY <1>1, <1>2 DEF IInv, WireCommitted, Deployed, Mined, wire, minedTx
<1>7. Positions'
  <2>1. \A run : Position(run) => Position(run)'
    BY <1>1, <1>6 DEF Position
  <2> QED
    BY <1>3, <2>1, Parts DEF Onward, IInv, Positions, RunnerTyped
<1> QED
  BY <1>4, <1>5, <1>6, <1>7 DEF IInv

\* markBroadcast looks for bytes and keeps them.
LEMMA StampKeeps ==
  ASSUME IInv, NEW w \in Worker, markBroadcast(w)
  PROVE  IInv'
PROOF
<1>1. /\ UNCHANGED <<status, voiding, funded, signatures, pool, mined, faults, lease>>
      /\ signatures' \in 0..MaxSignatures /\ goto(w, "poll")
      /\ deploy' = deploy \/ deploy' = [deploy EXCEPT !.state = "broadcast", !.stamped = TRUE]
  BY DEF markBroadcast, node, IInv, TypeOK
<1>2. hasBytes
  BY DEF markBroadcast, IInv, Positions, Position, at
<1>3. RowTyped' /\ deploy'.tx = deploy.tx /\ (deploy'.state = "deployed" => Mined)
  BY <1>1, <1>2, Parts DEF IInv, RowTyped, Deployed, hasBytes
<1>4. RunnerTyped' /\ Onward(w)
  BY <1>1, <1>2, <1>3, RunnerGoesOn DEF Pc, hasBytes
<1> QED
  BY <1>1, <1>3, <1>4, Released, RunKeeps

\* A run that goes on to "confirm" has the receipt of the row's bytes.
LEMMA PollKeeps ==
  ASSUME IInv, NEW w \in Worker, pollReceipt(w)
  PROVE  IInv'
PROOF
<1>1. /\ UNCHANGED <<status, voiding, funded, signatures, pool, mined, deploy>>
      /\ fault \/ faults' = faults
  BY DEF pollReceipt, node
<1>2. LeaseTyped' /\ RunnerTyped' /\ Onward(w)
  <2>1. CASE lease' = released(w) /\ complete(w)
    BY <2>1, Released, RunnerEnds
  <2>2. CASE unavailable(w)
    BY <2>2, Stops
  <2>3. ASSUME NEW r \in mined, r.tx = deploy.tx, goto(w, IF r.ok THEN "confirm" ELSE "fail"),
               lease' = lease
        PROVE  LeaseTyped' /\ RunnerTyped' /\ Onward(w)
    <3>1. r \in [tx : Tx, ok : BOOLEAN]
      BY Parts DEF IInv, OthersTyped
    <3>2. CASE r.ok
      <4>1. Mined /\ Mined'
        BY <1>1, <2>3, <3>1, <3>2 DEF Mined
      <4> QED
        BY <2>3, <3>2, <4>1, RunnerGoesOn, Released DEF Pc
    <3>3. CASE ~r.ok
      BY <2>3, <3>3, RunnerGoesOn, Released DEF Pc
    <3> QED
      BY <3>2, <3>3
  <2> QED
    BY <2>1, <2>2, <2>3 DEF pollReceipt
<1> QED
  BY <1>1, <1>2, SameRow, RunKeeps

\* markDeployed stands on the receipt the run saw.
LEMMA ConfirmKeeps ==
  ASSUME IInv, NEW w \in Worker, markDeployed(w)
  PROVE  IInv'
PROOF
<1>1. /\ UNCHANGED <<status, voiding, funded, signatures, pool, mined, faults>>
      /\ signatures' \in 0..MaxSignatures /\ complete(w)
  BY DEF markDeployed, node, IInv, TypeOK
<1>2. Mined
  BY DEF markDeployed, IInv, Positions, Position, at
<1>3. LeaseTyped'
  BY Released, Cleared DEF markDeployed
<1>4. deploy' = deploy \/ deploy' = [deploy EXCEPT !.state = "deployed"]
  BY DEF markDeployed
<1>5. RowTyped' /\ deploy'.tx = deploy.tx
  BY <1>2, <1>4, MinedHasBytes, Parts DEF IInv, RowTyped, hasBytes
<1> QED
  BY <1>1, <1>2, <1>3, <1>5, RunnerEnds, RunKeeps

\* markDeployFailed keeps the bytes.
LEMMA FailKeeps ==
  ASSUME IInv, NEW w \in Worker, markDeployFailed(w)
  PROVE  IInv'
PROOF
<1>1. /\ UNCHANGED <<status, voiding, funded, signatures, pool, mined, faults>>
      /\ signatures' \in 0..MaxSignatures /\ complete(w)
      /\ deploy' = [deploy EXCEPT !.state = "failed"]
  BY DEF markDeployFailed, node, IInv, TypeOK
<1>2. LeaseTyped'
  BY Cleared DEF markDeployFailed
<1>3. RowTyped' /\ deploy'.tx = deploy.tx /\ deploy'.state # "deployed"
  BY <1>1, Parts DEF IInv, RowTyped, hasBytes
<1> QED
  BY <1>1, <1>2, <1>3, RunnerEnds, RunKeeps

------------------------------------------------------------------------------
(* The steps of everybody else.                                            *)

\* What is mined was on the wire, so it is the row's.
LEMMA MineKeeps ==
  ASSUME IInv, NEW t \in pool, NEW ok \in BOOLEAN, mine(t, ok)
  PROVE  IInv' /\ wire' = wire
PROOF
<1>1. /\ UNCHANGED <<status, deploy, lease, voiding, funded, signatures, job, queued, holder, attempts, faults>>
      /\ pool' \subseteq pool /\ mined' = mined \cup {[tx |-> t, ok |-> ok]}
      /\ \A u \in pool : u.nonce = t.nonce \/ u \in pool'
  BY DEF mine, row, runner
<1>2. t = deploy.tx /\ pool = {t} /\ hasBytes /\ t \in Tx
  <2>1. t \in wire /\ pool \subseteq wire
    BY DEF wire
  <2>2. t \in Tx
    BY Parts DEF IInv, OthersTyped
  <2> QED
    BY <2>1, <2>2 DEF IInv, WireCommitted
<1>3. minedTx' = minedTx \cup {t}
  <2>1. PICK new : new = [tx |-> t, ok |-> ok]
    OBVIOUS
  <2>2. new.tx = t /\ mined' = mined \cup {new}
    BY <1>1, <2>1
  <2> QED
    BY <2>2 DEF minedTx
<1>4. wire' = wire
  BY <1>1, <1>2, <1>3 DEF wire
<1>5. TypeOK' /\ Held'
  <2>1. RowTyped' /\ LeaseTyped' /\ RunnerTyped' /\ OthersTyped'
    BY <1>1, <1>2, Parts DEF IInv, RowTyped, LeaseTyped, RunnerTyped, OthersTyped, hasBytes, Held
  <2> QED
    BY <2>1, Parts, PTL
<1>6. WireCommitted'
  BY <1>1, <1>4 DEF IInv, WireCommitted, hasBytes
<1>7. Finite'
  BY <1>1, FS_Subset, FS_AddElement DEF IInv, Finite
<1>8. Mined => Mined'
  BY <1>1 DEF Mined
<1>9. Deployed' /\ Positions'
  BY <1>1, <1>8 DEF IInv, Deployed, Positions, Position, hasBytes
<1> QED
  BY <1>4, <1>5, <1>6, <1>7, <1>9 DEF IInv

\* Of the row, the wire and the runs nothing changes.
LEMMA AsideKeeps ==
  ASSUME IInv, UNCHANGED <<deploy, pool, mined, job>>, TypeOK', Held',
         status' = "open" => Mined
  PROVE  IInv'
PROOF
  BY QuietKeeps DEF Quiet, IInv, Deployed

\* The routes, the funding and the end of a lease leave bytes and wire alone.
LEMMA OthersKeep ==
  ASSUME IInv, enqueue \/ openMarket \/ readForVoid \/ voidMarket \/ fund \/ leaseLapses
  PROVE  IInv'
PROOF
<1> USE DEF row, node, runner
<1>1. UNCHANGED <<deploy, pool, mined, job, holder, attempts, signatures>>
  BY DEF enqueue, openMarket, readForVoid, voidMarket, fund, leaseLapses
<1>2. RowTyped' /\ RunnerTyped'
  <2>1. queued' \in BOOLEAN
    BY Parts DEF enqueue, openMarket, readForVoid, voidMarket, fund, leaseLapses, IInv, RunnerTyped
  <2> QED
    BY <1>1, <2>1, SameRow, Parts DEF IInv, RunnerTyped, Held
<1>3. LeaseTyped'
  <2>1. lease' = lease \/ lease' = [lease EXCEPT !.live = FALSE]
    BY DEF enqueue, openMarket, readForVoid, voidMarket, fund, leaseLapses
  <2>2. CASE lease' = lease
    BY <2>2, Parts DEF LeaseTyped, IInv
  <2>3. CASE lease' = [lease EXCEPT !.live = FALSE]
    BY <2>3, Parts DEF LeaseTyped, IInv
  <2> QED
    BY <2>1, <2>2, <2>3
<1>4. OthersTyped' /\ (status' = "open" => Mined)
  <2>1. fault \/ faults' = faults
    BY DEF enqueue, openMarket, readForVoid, voidMarket, fund, leaseLapses
  <2>2. /\ status' \in {"approved", "open", "void"} /\ (status' = "open" => Mined)
        /\ voiding' \in {"no", "read", "done"}
    BY Parts DEF enqueue, openMarket, readForVoid, voidMarket, fund, leaseLapses, IInv,
                 OthersTyped, Deployed
  <2>3. funded' \in BOOLEAN
    BY Parts DEF enqueue, openMarket, readForVoid, voidMarket, fund, leaseLapses, IInv, OthersTyped
  <2> QED
    BY <1>1, <2>1, <2>2, <2>3, Faults, Parts DEF IInv, OthersTyped
<1>5. TypeOK' /\ Held'
  BY <1>2, <1>3, <1>4, Parts, PTL
<1> QED
  BY <1>1, <1>4, <1>5, AsideKeeps

\* A worker that goes down forgets what it knew; one whose job lapses does not.
LEMMA FaultsKeep ==
  ASSUME IInv, NEW w \in Worker, crashWorker(w) \/ jobLapses(w)
  PROVE  IInv'
PROOF
<1> USE DEF row, node
<1>1. UNCHANGED <<status, voiding, funded, signatures, pool, mined, deploy, lease, queued, attempts>>
  BY DEF crashWorker, jobLapses
<1>2. fault /\ (holder' = holder \/ holder' = NoWorker)
  BY DEF crashWorker, jobLapses
<1>3. PICK run \in Run : job' = [job EXCEPT ![w] = run] /\ (run = Idle \/ run = job[w])
  <2>1. CASE crashWorker(w)
    BY <2>1, NoTxTyped DEF crashWorker
  <2>2. CASE jobLapses(w)
    BY <2>2, Parts DEF jobLapses, IInv, RunnerTyped
  <2> QED
    BY <2>1, <2>2
<1>4. RunnerTyped'
  BY <1>1, <1>2, <1>3, Parts DEF RunnerTyped, IInv, Held
<1>5. Onward(w)
  <2>1. Position(Idle) /\ Position(job[w])
    BY NoTxTyped DEF Position, IInv, Positions
  <2>2. Position(run)'
    BY <1>1, <1>3, <2>1 DEF Position, Mined, hasBytes
  <2> QED
    BY <1>3, <2>2 DEF Onward
<1> QED
  BY <1>1, <1>2, <1>4, <1>5, SameRow, Released, RunKeeps

\* Only a job that has a throw left is started.
LEMMA StartKeeps ==
  ASSUME IInv, NEW w \in Worker, startRun(w)
  PROVE  IInv'
PROOF
<1> USE DEF row, node
<1>1. /\ UNCHANGED <<status, voiding, funded, signatures, pool, mined, deploy, lease, queued, attempts, faults>>
      /\ attempts < MaxAttempts /\ holder' = w
      /\ job' = [job EXCEPT ![w].pc = "claim"]
  BY DEF startRun
<1>2. PICK run \in Run : job' = [job EXCEPT ![w] = run] /\ run.pc = "claim"
  <2>1. job[w] \in Run /\ job \in [Worker -> Run]
    BY Parts DEF IInv, RunnerTyped
  <2>2. \A run \in Run : [run EXCEPT !.pc = "claim"] \in Run /\ [run EXCEPT !.pc = "claim"].pc = "claim"
    BY DEF Run, Pc
  <2>3. job' = [job EXCEPT ![w] = [job[w] EXCEPT !.pc = "claim"]]
    BY <1>1, <2>1
  <2> QED
    BY <2>1, <2>2, <2>3
<1>3. RunnerTyped'
  BY <1>1, <1>2, Parts DEF RunnerTyped, IInv, Held
<1>4. Onward(w)
  BY <1>2 DEF Onward, Position
<1> QED
  BY <1>1, <1>3, <1>4, SameRow, Released, RunKeeps

------------------------------------------------------------------------------
(* The theorems.                                                           *)

\* No step of a worker, an operator, the chain or a fault breaks the invariant.
THEOREM StepKeeps == IInv /\ [Next]_vars => IInv'
PROOF
<1> SUFFICES ASSUME IInv, [Next]_vars
             PROVE  IInv'
  OBVIOUS
<1>1. CASE enqueue \/ openMarket \/ readForVoid \/ voidMarket \/ fund \/ leaseLapses
  BY <1>1, OthersKeep
<1>2. ASSUME NEW t \in pool, NEW ok \in BOOLEAN, mine(t, ok)
      PROVE  IInv'
  BY <1>2, MineKeeps
<1>3. ASSUME NEW w \in Worker, runStep(w)
      PROVE  IInv'
  BY <1>3, StartKeeps, ClaimKeeps, ProvisionKeeps, QuoteKeeps, FundsKeeps, NonceKeeps,
     SignKeeps, CommitKeeps, SendKeeps, StampKeeps, PollKeeps, ConfirmKeeps, FailKeeps
     DEF runStep
<1>4. ASSUME NEW w \in Worker, crashWorker(w) \/ jobLapses(w)
      PROVE  IInv'
  BY <1>4, FaultsKeep
<1>5. CASE UNCHANGED vars
  <2>1. UNCHANGED <<status, deploy, lease, voiding, funded, signatures, pool, mined, queued,
                    job, holder, attempts, faults>>
    BY <1>5 DEF vars, row, node, runner
  <2>2. RowTyped' /\ LeaseTyped' /\ RunnerTyped' /\ OthersTyped'
    BY <2>1, Parts DEF IInv, RowTyped, LeaseTyped, RunnerTyped, OthersTyped, hasBytes, Held
  <2>3. TypeOK' /\ Held'
    BY <2>2, Parts, PTL
  <2> QED
    BY <2>1, <2>3, AsideKeeps DEF IInv, Deployed
<1> QED
  BY <1>1, <1>2, <1>3, <1>4, <1>5 DEF Next

\* The invariant, which the theorems below take what they say from.
LEMMA Invariant == Spec => []IInv
PROOF
  BY Initially, StepKeeps, PTL DEF Spec

\* The columns keep to the schema, and no bound is passed.
THEOREM TypeCorrect == Spec => []TypeOK
PROOF
<1>1. IInv => TypeOK
  BY DEF IInv
<1> QED
  BY <1>1, Invariant, PTL

\* One market has one contract, the one its row names, and an open market's is mined.
THEOREM OneContractEver == Spec => []OneContract
PROOF
<1>1. IInv => OneContract
  BY HasContract
<1> QED
  BY <1>1, Invariant, PTL

\* A step of a deploy commits the row's bytes, once, or sends those that were
\* committed, or is none of the outside's business.
LEMMA StepIsOutbound ==
  ASSUME IInv, IInv', [Next]_vars
  PROVE  [Outbound!Next]_<<[s \in {"deploy"} |-> deploy.tx], wire>>
PROOF
<1> DEFINE committed == [s \in {"deploy"} |-> deploy.tx]
<1>1. ASSUME deploy'.tx = deploy.tx, wire' = wire
      PROVE  UNCHANGED <<committed, wire>>
  BY <1>1
<1>2. ASSUME NEW w \in Worker, markSigned(w)
      PROVE  Outbound!Commit("deploy") \/ UNCHANGED <<committed, wire>>
  <2>1. wire' = wire
    BY <1>2 DEF markSigned, node, wire, minedTx
  <2>2. CASE ~hasBytes
    <3>1. committed["deploy"] = NoTx /\ committed' = [committed EXCEPT !["deploy"] = committed'["deploy"]]
      BY <2>2 DEF hasBytes
    <3> QED
      BY <2>1, <3>1 DEF Outbound!Commit
  <2>3. CASE hasBytes
    BY <1>1, <1>2, <2>1, <2>3 DEF markSigned
  <2> QED
    BY <2>2, <2>3
<1>3. ASSUME NEW w \in Worker, sendBytes(w)
      PROVE  Outbound!Send("deploy") \/ UNCHANGED <<committed, wire>>
  <2>1. deploy' = deploy /\ hasBytes /\ minedTx' = minedTx
    BY <1>3 DEF sendBytes, at, IInv, Positions, Position, minedTx
  <2>2. wire' = wire \/ wire' = wire \cup {deploy.tx}
    BY <1>3, <2>1 DEF sendBytes, wire
  <2>3. committed["deploy"] = deploy.tx /\ committed["deploy"] # NoTx
    BY <2>1 DEF hasBytes
  <2> QED
    BY <2>1, <2>2, <2>3 DEF Outbound!Send
<1>4. ASSUME NEW t \in pool, NEW ok \in BOOLEAN, mine(t, ok)
      PROVE  UNCHANGED <<committed, wire>>
  <2>1. deploy' = deploy
    BY <1>4 DEF mine, row
  <2> QED
    BY <1>1, <1>4, <2>1, MineKeeps
<1>5. CASE enqueue \/ openMarket \/ readForVoid \/ voidMarket \/ fund \/ leaseLapses
  <2>1. UNCHANGED <<deploy, pool, mined>>
    BY <1>5 DEF enqueue, openMarket, readForVoid, voidMarket, fund, leaseLapses, row, node
  <2> QED
    BY <1>1, <2>1 DEF wire, minedTx
<1>6. ASSUME NEW w \in Worker, crashWorker(w) \/ jobLapses(w)
      PROVE  UNCHANGED <<committed, wire>>
  <2>1. UNCHANGED <<deploy, pool, mined>>
    BY <1>6 DEF crashWorker, jobLapses, row, node
  <2> QED
    BY <1>1, <2>1 DEF wire, minedTx
<1>7. ASSUME NEW w \in Worker,
             \/ startRun(w) \/ claimDeploy(w) \/ markProvisioned(w) \/ checkFunds(w) \/ awaitFunds(w)
             \/ readNonce(w) \/ sign(w) \/ markBroadcast(w) \/ pollReceipt(w)
             \/ markDeployed(w) \/ markDeployFailed(w)
      PROVE  UNCHANGED <<committed, wire>>
  <2>1. UNCHANGED <<pool, mined>>
    BY <1>7 DEF startRun, claimDeploy, markProvisioned, checkFunds, awaitFunds, readNonce, sign,
                markBroadcast, pollReceipt, markDeployed, markDeployFailed, row, node
  <2>2. \/ deploy' = deploy
        \/ \E state : deploy' = [deploy EXCEPT !.state = state]
        \/ deploy' = [deploy EXCEPT !.provisioned = TRUE]
        \/ deploy' = [deploy EXCEPT !.state = "broadcast", !.stamped = TRUE]
    BY <1>7 DEF startRun, claimDeploy, markProvisioned, checkFunds, awaitFunds, readNonce, sign,
                markBroadcast, pollReceipt, markDeployed, markDeployFailed, row
  <2>3. deploy'.tx = deploy.tx
    BY <2>2, Parts DEF IInv, RowTyped
  <2> QED
    BY <1>1, <2>1, <2>3 DEF wire, minedTx
<1>8. CASE UNCHANGED vars
  BY <1>1, <1>8 DEF vars, row, node, wire, minedTx
<1> QED
  BY <1>2, <1>3, <1>4, <1>5, <1>6, <1>7, <1>8 DEF Next, runStep, Outbound!Next

\* A deploy is an outbound transaction: OutboundTx is implemented.
THEOREM CommitsBeforeItSends == Spec => CommitBeforeSend
PROOF
<1>1. Init => Outbound!Init
  BY DEF Init, Outbound!Init, wire, minedTx
<1>2. IInv /\ IInv' /\ [Next]_vars => [Outbound!Next]_<<[s \in {"deploy"} |-> deploy.tx], wire>>
  BY StepIsOutbound
<1> QED
  BY <1>1, <1>2, Invariant, PTL DEF Spec, CommitBeforeSend, Outbound!Spec
==============================================================================
