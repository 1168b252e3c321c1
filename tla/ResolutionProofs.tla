--------------------------- MODULE ResolutionProofs ---------------------------
(***************************************************************************)
(* That the oracle's queue and the chain agree, for any number of markets  *)
(* and workers and through any number of crashes, lapses, refusals and     *)
(* lost answers: for all constants that satisfy ResolutionAssumption.      *)
(*                                                                         *)
(* Neither RowsAndWireAgree nor ChainFirst is inductive.  What is on the   *)
(* wire was on a row first, and bytes on a row stay (WireCommitted); a row *)
(* is built by the one pass that claimed it, one row of the chain at a time*)
(* (Alone, OneMade), so that the nonce a pass reads is nobody else's       *)
(* (Told, Distinct); and whoever writes an answer down has seen the        *)
(* receipt that decided the contract (Positions, Receipts).                *)
(***************************************************************************)
EXTENDS Resolution, FiniteSetTheorems, TLAPS

Run == [pc : Pc, row : Market \cup {"none"}, queue : SUBSET Market, nonce : Nat, building : BOOLEAN]

\* The states before a row has bytes, and those that say it has; "failed" says neither.
Committed ==
  \A m \in Market : /\ res[m].state \in {"none", "planned", "building"} => ~res[m].raw
                    /\ res[m].state \in {"signed", "broadcast", "confirmed"} => res[m].raw

\* What a pass knows of the row in hand from the step it is at.
Making == {"nonce", "sign", "commit"}
Holding == {"reread", "send", "stamp", "poll", "confirm", "apply"}
Accepted(m) == [tx |-> bytes(m), ok |-> TRUE] \in mined

Position(run) ==
  /\ run.pc # "idle" => run.row \in Market
  /\ run.building => run.pc # "idle" /\ res[run.row].state \notin {"none", "planned"}
  /\ run.pc \in Making \/ (run.pc = "fail" /\ ~res[run.row].raw) =>
       run.building /\ res[run.row].state = "building"
  /\ run.pc \in Holding => res[run.row].raw
  /\ run.pc \in {"confirm", "apply"} => Accepted(run.row)

Positions == \A w \in Worker : Position(job[w])

\* A row is built by one pass, and one row at a time.
Alone ==
  \A v, w \in Worker : job[v].building /\ job[w].building /\ job[v].row = job[w].row => v = w
OneMade ==
  \A m, n \in Market : m # n => ~({res[m].state, res[n].state} \subseteq {"building", "signed"})

WireCommitted == \A t \in wire : res[t.market].raw /\ t = bytes(t.market)

\* The account's nonces are spent in order, and a market is decided by its receipt.
Nonces ==
  /\ IsFiniteSet(pool) /\ IsFiniteSet(mined)
  /\ \A r \in mined : r.tx.nonce < nextNonce
  /\ \A k \in 0..(nextNonce - 1) : \E t \in minedTx : t.nonce = k
Receipts ==
  \A r \in mined : r.ok => contract[r.tx.market] = oracleAct(r.tx.market, r.tx.action)

\* Who holds the job has a throw left.
Held == holder # NoWorker => attempts < MaxAttempts

\* What follows as long as the nodes take nothing that one of them refused: bytes that
\* are not refused are sent or about to be, and their nonce is theirs alone.
Consistent == refusals \cap wire = {}
Alive(m) == res[m].raw /\ bytes(m) \notin refusals

Told(run) ==
  /\ run.pc = "stamp" => bytes(run.row) \in wire \cup refusals
  /\ run.pc = "fail" /\ res[run.row].raw => bytes(run.row) \in minedTx \cup refusals
  /\ run.pc \in {"sign", "commit"} => \A n \in Market : Alive(n) => res[n].nonce # run.nonce

Sent ==
  \A m \in Market :
    /\ res[m].state \in {"broadcast", "confirmed"} => bytes(m) \in wire \cup refusals
    /\ res[m].state = "failed" /\ res[m].raw => bytes(m) \in minedTx \cup refusals
Distinct == \A m, n \in Market : Alive(m) /\ Alive(n) /\ res[m].nonce = res[n].nonce => m = n

Agreed == Consistent => Sent /\ Distinct /\ \A w \in Worker : Told(job[w])

IInv ==
  /\ TypeOK /\ Committed /\ Positions /\ Alone /\ OneMade /\ WireCommitted /\ Nonces /\ Receipts
  /\ Held /\ ChainFirst /\ Agreed

Row == [state : State, action : Action, nonce : Nat, raw : BOOLEAN, stamped : BOOLEAN,
        owner : Worker \cup {NoWorker}, leased : BOOLEAN, made : Nat]
RowsTyped ==
  res \in [Market -> Row] /\ \A m \in Market : res[m].leased => res[m].owner # NoWorker
RunnerTyped ==
  holder \in Worker \cup {NoWorker} /\ attempts \in 0..MaxAttempts /\ Held
NodeTyped ==
  /\ contract \in [Market -> {"open", "yes", "no", "void"}]
  /\ pool \subseteq Tx /\ mined \subseteq [tx : Tx, ok : BOOLEAN] /\ refusals \subseteq Tx

------------------------------------------------------------------------------
(* What follows from it, and what it is made of.                           *)

\* The invariant is strong enough.
LEMMA Strong ==
  ASSUME IInv
  PROVE  RowsAndWireAgree
PROOF
  BY DEF IInv, WireCommitted, Agreed, Consistent, Sent, RowsAndWireAgree

\* Types, part by part.
LEMMA Typed ==
  ASSUME IInv
  PROVE  /\ RowsTyped /\ RunnerTyped /\ NodeTyped /\ job \in [Worker -> Run]
         /\ faults \in 0..MaxFaults /\ market \in [Market -> {"closed", "yes", "no", "void"}]
PROOF
  BY DEF IInv, TypeOK, RowsTyped, RunnerTyped, NodeTyped, Row, Run

\* The parts make the whole again.
LEMMA TypedAgain ==
  ASSUME RowsTyped', RunnerTyped', NodeTyped', job' \in [Worker -> Run],
         faults' \in 0..MaxFaults, market' \in [Market -> {"closed", "yes", "no", "void"}]
  PROVE  TypeOK' /\ Held'
PROOF
  BY DEF TypeOK, RowsTyped, RunnerTyped, NodeTyped, Row, Run

\* A fault is counted, up to the bound.
LEMMA FaultsTyped ==
  ASSUME IInv, fault \/ faults' = faults
  PROVE  faults' \in 0..MaxFaults
PROOF
  BY Typed, ResolutionAssumption DEF fault

\* The bytes of a row are a transaction.
LEMMA BytesTyped ==
  ASSUME IInv, NEW m \in Market
  PROVE  bytes(m) \in Tx
PROOF
  BY Typed DEF RowsTyped, Row, bytes, Tx

------------------------------------------------------------------------------
(* The nonce of the account.                                               *)

\* A set of numbers that is not empty has a least one.
LEMMA Least ==
  ASSUME NEW N \in SUBSET Nat, N # {}
  PROVE  \E n \in N : \A k \in N : n <= k
PROOF
<1>1. PICK n \in N : \A k \in N : ~(<<k, n>> \in OpToRel(<, Nat))
  BY NatLessThanWellFounded, WFMin
<1>2. \A k \in N : ~(k < n)
  BY <1>1 DEF OpToRel
<1> QED
  BY <1>2

\* eth_getTransactionCount answers with a nonce that is free and not spent.
LEMMA PendingIsFree ==
  ASSUME IInv
  PROVE  /\ nextNonce \in Nat /\ pendingNonce \in Nat /\ pendingNonce >= nextNonce
         /\ \A t \in pool : t.nonce # pendingNonce
PROOF
<1> DEFINE I == nextNonce..(nextNonce + Cardinality(pool))
           N == {n \in I : \A t \in pool : t.nonce # n}
<1>1. /\ nextNonce \in Nat /\ Cardinality(pool) \in Nat /\ IsFiniteSet(pool)
      /\ \A t \in pool : t.nonce \in Nat
  BY Typed, FS_CardinalityType DEF IInv, Nonces, nextNonce, NodeTyped, Tx
<1>2. N # {}
  <2>1. SUFFICES ASSUME \A n \in I : \E t \in pool : t.nonce = n
                 PROVE  FALSE
    OBVIOUS
  <2> DEFINE f == [n \in I |-> CHOOSE t \in pool : t.nonce = n]
  <2>2. f \in Injection(I, pool)
    <3>1. \A n \in I : f[n] \in pool /\ f[n].nonce = n
      BY <2>1
    <3>2. f \in [I -> pool] /\ \A n, k \in I : f[n] = f[k] => n = k
      BY <3>1
    <3> QED
      BY <3>2 DEF Injection, IsInjective
  <2>3. Cardinality(I) = Cardinality(pool) + 1
    BY <1>1, FS_Interval
  <2>4. Cardinality(I) <= Cardinality(pool)
    <3> HIDE DEF f, I
    <3> QED
      BY <1>1, <2>2, FS_Injection
  <2> QED
    BY <1>1, <2>3, <2>4
<1>3. PICK n \in N : \A k \in N : n <= k
  <2>1. N \in SUBSET Nat
    BY <1>1
  <2> HIDE DEF N
  <2> QED
    BY <1>2, <2>1, Least
<1>4. \A k \in nextNonce..(n - 1) : \E t \in pool : t.nonce = k
  BY <1>1, <1>3
<1>5. pendingNonce \in I /\ \A t \in pool : t.nonce # pendingNonce
  BY <1>3, <1>4 DEF pendingNonce
<1> QED
  BY <1>1, <1>5

\* Nor is it the nonce of any row whose bytes are still of use, while one is being built.
LEMMA PendingIsNew ==
  ASSUME IInv, Consistent, NEW m \in Market, res[m].state = "building",
         NEW n \in Market, Alive(n)
  PROVE  res[n].nonce # pendingNonce
PROOF
<1>1. bytes(n) \in wire
  <2>1. res[n].state \notin {"building", "signed"}
    BY Typed DEF IInv, OneMade, Committed, Alive
  <2>2. res[n].state \in {"broadcast", "confirmed", "failed"}
    BY <2>1, Typed DEF IInv, Committed, Alive, RowsTyped, Row, State
  <2> QED
    BY <2>2 DEF IInv, Agreed, Sent, Alive, wire
<1>2. bytes(n).nonce = res[n].nonce
  BY DEF bytes
<1>3. CASE bytes(n) \in pool
  BY <1>2, <1>3, PendingIsFree
<1>4. CASE bytes(n) \in minedTx
  <2>1. bytes(n).nonce < nextNonce
    BY <1>4 DEF IInv, Nonces, minedTx
  <2>2. res[n].nonce \in Nat
    BY Typed DEF RowsTyped, Row
  <2> QED
    BY <1>2, <2>1, <2>2, PendingIsFree
<1> QED
  BY <1>1, <1>3, <1>4 DEF wire

------------------------------------------------------------------------------
(* What a step does to the passes.                                         *)

\* The pass of w becomes run.
Moves(w, run) ==
  /\ run \in Run /\ job' = [job EXCEPT ![w] = run]
  /\ job' \in [Worker -> Run] /\ RunnerTyped'

\* A pass that has ended, or has taken up a row.
Rests(run) ==
  ~run.building /\ (run.pc = "idle" \/ (run.pc = "drive" /\ run.row \in Market))

\* A pass at rest knows nothing, so nothing can make it wrong.
LEMMA RestsIsRight ==
  ASSUME NEW run, Rests(run)
  PROVE  Position(run)' /\ Told(run)'
PROOF
  BY DEF Rests, Position, Told, Making, Holding

\* No pass at all.
LEMMA IdleRests == Idle \in Run /\ Rests(Idle)
PROOF
  BY DEF Idle, Run, Rests, Pc

\* The oldest of some rows is one of them.
LEMMA OldestIsOne ==
  ASSUME IInv, NEW rows \in SUBSET Market, rows # {}
  PROVE  oldest(rows) \in rows
PROOF
<1> DEFINE N == {res[m].made : m \in rows}
<1>1. N \in SUBSET Nat /\ N # {}
  BY Typed DEF RowsTyped, Row
<1>2. PICK k \in N : \A j \in N : k <= j
  <2> HIDE DEF N
  <2> QED
    BY <1>1, Least
<1>3. PICK m \in rows : \A n \in rows : res[m].made <= res[n].made
  BY <1>2
<1> QED
  BY <1>3 DEF oldest

\* A pass that takes up a row.
LEMMA TakesRests ==
  ASSUME IInv, NEW w \in Worker, NEW rows \in SUBSET Market, rows # {}, takes(w, rows),
         RunnerTyped'
  PROVE  \E run : Moves(w, run) /\ Rests(run)
PROOF
<1>1. oldest(rows) \in Market
  BY OldestIsOne
<1>2. PICK run : /\ run = [Idle EXCEPT !.pc = "drive", !.row = oldest(rows),
                                       !.queue = rows \ {oldest(rows)}]
                 /\ job' = [job EXCEPT ![w] = run]
  BY DEF takes
<1>3. run \in Run /\ Rests(run)
  BY <1>1, <1>2 DEF Idle, Run, Rests, Pc
<1> QED
  BY <1>2, <1>3, Typed DEF Moves

\* A pass that ends, gives up, or goes on to its next row.
LEMMA Ends ==
  ASSUME IInv, NEW w \in Worker, complete(w) \/ throw(w) \/ continue(w)
  PROVE  \E run : Moves(w, run) /\ Rests(run)
PROOF
<1>1. CASE complete(w)
  <2>1. RunnerTyped'
    BY <1>1, Typed, ResolutionAssumption DEF complete, RunnerTyped, Held
  <2> QED
    BY <1>1, <2>1, IdleRests, Typed DEF complete, Moves
<1>2. CASE throw(w)
  <2>1. RunnerTyped'
    BY <1>2, Typed, ResolutionAssumption DEF throw, RunnerTyped, Held
  <2> QED
    BY <1>2, <2>1, IdleRests, Typed DEF throw, Moves
<1>3. CASE takes(w, job[w].queue) /\ UNCHANGED <<holder, attempts>> /\ job[w].queue # {}
  <2>1. RunnerTyped' /\ job[w].queue \in SUBSET Market
    BY <1>3, Typed DEF RunnerTyped, Held, Run
  <2> QED
    BY <1>3, <2>1, TakesRests
<1> QED
  BY <1>1, <1>2, <1>3 DEF continue

\* A pass that goes on with the row in hand.
LEMMA GoesOn ==
  ASSUME IInv, NEW w \in Worker, NEW pc \in Pc, goto(w, pc)
  PROVE  \E run : /\ Moves(w, run) /\ run.pc = pc /\ run.row = job[w].row
                  /\ run.building = job[w].building /\ run.nonce = job[w].nonce
PROOF
<1>1. job[w] \in Run
  BY Typed
<1>2. PICK run : run = [job[w] EXCEPT !.pc = pc]
  OBVIOUS
<1>3. /\ run \in Run /\ run.pc = pc /\ run.row = job[w].row
      /\ run.building = job[w].building /\ run.nonce = job[w].nonce
  BY <1>1, <1>2 DEF Run
<1>4. job' = [job EXCEPT ![w] = run] /\ RunnerTyped'
  BY <1>2, Typed DEF goto, RunnerTyped, Held
<1> QED
  BY <1>3, <1>4, Typed DEF Moves

------------------------------------------------------------------------------
(* Steps that leave bytes and wire alone.                                  *)

\* A row that keeps what it says, but for its lease, its owner and its time stamp.
SameRow(m) ==
  /\ res'[m].state = res[m].state /\ res'[m].raw = res[m].raw
  /\ res'[m].action = res[m].action /\ res'[m].nonce = res[m].nonce
Quiet == (\A m \in Market : SameRow(m)) /\ UNCHANGED chain

\* A pass goes on, right about what it must know.
Onward(w, run) ==
  /\ Moves(w, run) /\ Position(run)' /\ (Consistent' => Told(run)')
  /\ run.building => job[w].building /\ run.row = job[w].row

\* The rows and the chain are as right as before, and so is every pass.
LEMMA QuietRows ==
  ASSUME IInv, Quiet
  PROVE  /\ Committed' /\ OneMade' /\ WireCommitted' /\ Nonces' /\ Receipts'
         /\ (Consistent' <=> Consistent) /\ (Consistent' => Sent' /\ Distinct')
         /\ \A run : Position(run) => Position(run)' /\ (Told(run) => Told(run)')
PROOF
<1>1. /\ UNCHANGED <<contract, pool, mined, refusals>>
      /\ \A m \in Market : SameRow(m) /\ bytes(m)' = bytes(m)
  BY DEF Quiet, SameRow, chain, bytes
<1>2. /\ wire' = wire /\ minedTx' = minedTx /\ nextNonce' = nextNonce
      /\ (Consistent' <=> Consistent) /\ \A m \in Market : Alive(m)' <=> Alive(m)
  BY <1>1 DEF wire, minedTx, nextNonce, Consistent, Alive, SameRow
<1>3. Committed' /\ OneMade'
  BY <1>1 DEF IInv, Committed, OneMade, SameRow
<1>4. WireCommitted'
  <2>1. \A t \in wire : t.market \in Market
    BY Typed DEF NodeTyped, Tx, wire, minedTx
  <2> QED
    BY <1>1, <1>2, <2>1 DEF IInv, WireCommitted, SameRow
<1>5. Nonces' /\ Receipts'
  BY <1>1, <1>2 DEF IInv, Nonces, Receipts
<1>6. Consistent' => Sent' /\ Distinct'
  BY <1>1, <1>2 DEF IInv, Agreed, Sent, Distinct, SameRow
<1>7. ASSUME NEW run, Position(run)
      PROVE  Position(run)' /\ (Told(run) => Told(run)')
  <2>1. run.pc # "idle" => SameRow(run.row) /\ bytes(run.row)' = bytes(run.row)
    BY <1>1, <1>7 DEF Position
  <2>2. Position(run)'
    BY <1>1, <1>7, <2>1 DEF Position, Making, Holding, Accepted, SameRow
  <2>3. Told(run) => Told(run)'
    BY <1>1, <1>2, <2>1 DEF Told, SameRow
  <2> QED
    BY <2>2, <2>3
<1> QED
  BY <1>2, <1>3, <1>4, <1>5, <1>6, <1>7

\* If the other passes stay right, and the one that moves is, all are.
LEMMA PassesKeep ==
  ASSUME IInv, NEW w \in Worker, NEW run, Moves(w, run),
         Position(run)', Consistent' => Told(run)',
         run.building => \A v \in Worker \ {w} : job[v].building => job[v].row # run.row,
         \A v \in Worker \ {w} : \A other : other = job[v] =>
           Position(other)' /\ (Consistent' => Told(other)')
  PROVE  /\ Positions' /\ Alone'
         /\ Consistent' => \A v \in Worker : Told(job[v])'
PROOF
<1>1. job'[w] = run /\ \A v \in Worker \ {w} : job'[v] = job[v]
  BY Typed DEF Moves
<1>2. Alone'
  BY <1>1 DEF IInv, Alone
<1>3. ASSUME NEW v \in Worker
      PROVE  Position(job[v])' /\ (Consistent' => Told(job[v])')
  <2>1. PICK other : other = job'[v]
    OBVIOUS
  <2>2. Position(other)' /\ (Consistent' => Told(other)')
    BY <1>1, <2>1
  <2> QED
    BY <2>1, <2>2 DEF Position, Told
<1> QED
  BY <1>2, <1>3 DEF Positions

\* A step that leaves bytes and wire alone, of one pass or of none.
LEMMA QuietKeeps ==
  ASSUME IInv, Quiet, RowsTyped', ChainFirst', faults' \in 0..MaxFaults,
         market' \in [Market -> {"closed", "yes", "no", "void"}],
         \/ job' = job /\ RunnerTyped'
         \/ \E w \in Worker : \E run : Onward(w, run)
  PROVE  IInv'
PROOF
<1>1. /\ Committed' /\ OneMade' /\ WireCommitted' /\ Nonces' /\ Receipts'
      /\ (Consistent' <=> Consistent) /\ (Consistent' => Sent' /\ Distinct')
      /\ \A run : Position(run) => Position(run)' /\ (Told(run) => Told(run)')
  BY QuietRows
<1>2. /\ job' \in [Worker -> Run] /\ RunnerTyped' /\ Positions' /\ Alone'
      /\ Consistent' => \A v \in Worker : Told(job[v])'
  <2>1. CASE job' = job /\ RunnerTyped'
    <3>1. Positions' /\ Alone'
      BY <1>1, <2>1 DEF IInv, Positions, Alone, Position, Making, Holding, Accepted
    <3>2. ASSUME Consistent', NEW v \in Worker
          PROVE  Told(job[v])'
      <4>1. PICK run : run = job[v]
        OBVIOUS
      <4>2. Told(run)'
        BY <1>1, <3>2, <4>1 DEF IInv, Agreed, Positions
      <4> QED
        BY <2>1, <4>1, <4>2 DEF Told
    <3> QED
      BY <2>1, <3>1, <3>2, Typed
  <2>2. ASSUME NEW w \in Worker, NEW run, Onward(w, run)
        PROVE  /\ job' \in [Worker -> Run] /\ RunnerTyped' /\ Positions' /\ Alone'
               /\ Consistent' => \A v \in Worker : Told(job[v])'
    <3>1. \A v \in Worker \ {w} : \A other : other = job[v] =>
            Position(other)' /\ (Consistent' => Told(other)')
      BY <1>1 DEF IInv, Positions, Agreed
    <3>2. run.building => \A v \in Worker \ {w} : job[v].building => job[v].row # run.row
      BY <2>2 DEF Onward, IInv, Alone
    <3> QED
      BY <2>2, <3>1, <3>2, PassesKeep DEF Onward, Moves
  <2> QED
    BY <2>1, <2>2
<1>3. NodeTyped'
  BY Typed DEF Quiet, chain, NodeTyped
<1>4. TypeOK' /\ Held'
  BY <1>2, <1>3, TypedAgain
<1> QED
  BY <1>1, <1>2, <1>4 DEF IInv, Agreed

\* A pass that comes to rest is right, whatever it did before.
LEMMA RestsOnward ==
  ASSUME NEW w, NEW run, Moves(w, run), Rests(run)
  PROVE  Onward(w, run)
PROOF
  BY RestsIsRight DEF Onward, Rests

\* Nothing but a lease given back, or nothing at all.
LEMMA Released ==
  ASSUME IInv, NEW w \in Worker, NEW m \in Market, res' = release(m, w) \/ res' = res
  PROVE  RowsTyped' /\ \A n \in Market : SameRow(n)
PROOF
<1>1. CASE res' = res
  BY <1>1, Typed DEF RowsTyped, SameRow
<1>2. CASE res' = [res EXCEPT ![m].owner = NoWorker, ![m].leased = FALSE]
  <2>1. PICK row : row = [res[m] EXCEPT !.owner = NoWorker, !.leased = FALSE]
    OBVIOUS
  <2>2. /\ row \in Row /\ ~row.leased /\ row.state = res[m].state /\ row.raw = res[m].raw
        /\ row.action = res[m].action /\ row.nonce = res[m].nonce
    BY <2>1, Typed DEF RowsTyped, Row
  <2>3. res' = [res EXCEPT ![m] = row]
    BY <1>2, <2>1
  <2> QED
    BY <2>2, <2>3, Typed DEF RowsTyped, SameRow
<1> QED
  BY <1>1, <1>2 DEF release

\* What a step leaves alone keeps its type, and the registry its agreement with the chain.
LEMMA SameMarkets ==
  ASSUME IInv, UNCHANGED <<market, contract>>
  PROVE  ChainFirst' /\ market' \in [Market -> {"closed", "yes", "no", "void"}]
PROOF
  BY Typed DEF IInv, ChainFirst, unbacked

\* A step of a pass that only gives a lease back and comes to rest.
LEMMA StopsKeep ==
  ASSUME IInv, NEW w \in Worker, NEW m \in Market, res' = release(m, w) \/ res' = res,
         complete(w) \/ throw(w) \/ continue(w),
         fault \/ faults' = faults, UNCHANGED <<market, chain>>
  PROVE  IInv'
PROOF
<1>1. RowsTyped' /\ \A n \in Market : SameRow(n)
  BY Released
<1>2. PICK run : Moves(w, run) /\ Rests(run)
  BY Ends
<1>3. ChainFirst' /\ market' \in [Market -> {"closed", "yes", "no", "void"}]
  BY SameMarkets DEF chain
<1> QED
  BY <1>1, <1>2, <1>3, RestsOnward, FaultsTyped, QuietKeeps DEF Quiet

\* A step of a pass that leaves everything else alone and goes on with its row.
LEMMA GoesKeep ==
  ASSUME IInv, NEW w \in Worker, NEW run, Moves(w, run),
         Position(run), Consistent => Told(run),
         run.building => job[w].building /\ run.row = job[w].row,
         fault \/ faults' = faults, UNCHANGED <<market, res, chain>>
  PROVE  IInv'
PROOF
<1>1. Quiet /\ RowsTyped'
  BY Typed DEF Quiet, SameRow, RowsTyped
<1>2. ChainFirst' /\ market' \in [Market -> {"closed", "yes", "no", "void"}]
  BY SameMarkets DEF chain
<1>3. Onward(w, run)
  BY <1>1, QuietRows DEF Onward
<1> QED
  BY <1>1, <1>2, <1>3, FaultsTyped, QuietKeeps

------------------------------------------------------------------------------
(* Steps of one pass that leave bytes and wire alone.                      *)

\* A pass that cannot reach an upstream lets the row go, or gives up.
LEMMA UnavailableKeeps ==
  ASSUME IInv, NEW w \in Worker, ~at(w, "idle"), unavailable(w),
         fault \/ faults' = faults, UNCHANGED <<market, chain>>
  PROVE  IInv'
PROOF
<1>1. current(w) \in Market
  BY DEF IInv, Positions, Position, at, current
<1> QED
  BY <1>1, StopsKeep DEF unavailable

\* A pass that is refused before there are bytes fails the row.
LEMMA RefusedKeeps ==
  ASSUME IInv, NEW w \in Worker, at(w, "sign"), refused(w),
         fault \/ faults' = faults, UNCHANGED <<market, chain>>
  PROVE  IInv'
PROOF
<1>1. job[w].pc = "sign" /\ Position(job[w]) /\ (Consistent => Told(job[w]))
  BY DEF IInv, Positions, Agreed, at
<1>2. job[w].building /\ job[w].row \in Market /\ ~res[job[w].row].raw
  BY <1>1 DEF IInv, Position, Making, Committed
<1>3. goto(w, "fail") /\ res' = res
  BY <1>2 DEF refused
<1>4. PICK run : /\ Moves(w, run) /\ run.pc = "fail" /\ run.row = job[w].row
                 /\ run.building = job[w].building /\ run.nonce = job[w].nonce
  BY <1>3, GoesOn DEF Pc
<1>5. Position(run) /\ Told(run)
  BY <1>1, <1>2, <1>4 DEF Position, Told, Making, Holding
<1> QED
  BY <1>3, <1>4, <1>5, GoesKeep

\* The passes and their leases start, lapse and crash.
LEMMA RunnerKeeps ==
  ASSUME IInv, NEW w \in Worker, startPass(w) \/ crashWorker(w) \/ jobLapses(w)
  PROVE  IInv'
PROOF
<1>1. /\ UNCHANGED <<market, res, chain>> /\ (fault \/ faults' = faults)
  BY DEF startPass, crashWorker, jobLapses
<1>2. Quiet /\ RowsTyped' /\ ChainFirst' /\ market' \in [Market -> {"closed", "yes", "no", "void"}]
  BY <1>1, Typed, SameMarkets DEF Quiet, SameRow, RowsTyped, chain
<1>3. CASE startPass(w)
  <2>1. RunnerTyped'
    BY <1>3, Typed DEF startPass, RunnerTyped, Held
  <2>2. PICK run : Moves(w, run) /\ Rests(run)
    BY <1>3, <2>1, TakesRests DEF startPass, listOutstandingResolutions
  <2> QED
    BY <1>1, <1>2, <2>2, RestsOnward, FaultsTyped, QuietKeeps
<1>4. CASE crashWorker(w)
  <2>1. RunnerTyped'
    BY <1>4, Typed DEF crashWorker, RunnerTyped, Held
  <2>2. Moves(w, Idle)
    BY <1>4, <2>1, IdleRests, Typed DEF crashWorker, Moves
  <2>3. PICK run : Moves(w, run) /\ Rests(run)
    BY <2>2, IdleRests
  <2> QED
    BY <1>1, <1>2, <2>3, RestsOnward, FaultsTyped, QuietKeeps
<1>5. CASE jobLapses(w)
  <2>1. job' = job /\ RunnerTyped'
    BY <1>5, Typed DEF jobLapses, RunnerTyped, Held
  <2> QED
    BY <1>1, <1>2, <2>1, FaultsTyped, QuietKeeps
<1> QED
  BY <1>3, <1>4, <1>5

\* The lease of a row runs out.
LEMMA LeaseKeeps ==
  ASSUME IInv, NEW m \in Market, leaseLapses(m)
  PROVE  IInv'
PROOF
<1>1. PICK row : row = [res[m] EXCEPT !.leased = FALSE]
  OBVIOUS
<1>2. /\ row \in Row /\ ~row.leased /\ row.state = res[m].state /\ row.raw = res[m].raw
      /\ row.action = res[m].action /\ row.nonce = res[m].nonce
  BY <1>1, Typed DEF RowsTyped, Row
<1>3. res' = [res EXCEPT ![m] = row]
  BY <1>1 DEF leaseLapses
<1>4. RowsTyped' /\ \A n \in Market : SameRow(n)
  BY <1>2, <1>3, Typed DEF RowsTyped, SameRow
<1>5. UNCHANGED <<market, chain, runner, faults>>
  BY DEF leaseLapses
<1>6. ChainFirst' /\ market' \in [Market -> {"closed", "yes", "no", "void"}]
  BY <1>5, SameMarkets DEF chain
<1>7. RunnerTyped' /\ job' = job
  BY <1>5, Typed DEF runner, RunnerTyped, Held
<1> QED
  BY <1>4, <1>5, <1>6, <1>7, FaultsTyped, QuietKeeps DEF Quiet

\* What a pass reads of its row tells it where to go on.
LEMMA DriveKeeps ==
  ASSUME IInv, NEW w \in Worker, driveResolution(w) \/ rereadSigned(w)
  PROVE  IInv'
PROOF
<1>1. /\ UNCHANGED <<market, res, chain, faults>>
      /\ Position(job[w]) /\ job[w].row \in Market
  BY DEF driveResolution, rereadSigned, at, IInv, Positions, Position
<1>2. ASSUME continue(w)
      PROVE  IInv'
  BY <1>1, <1>2, StopsKeep
<1>3. ASSUME NEW pc \in {"claim", "send", "poll"}, goto(w, pc), pc # "claim" => res[job[w].row].raw
      PROVE  IInv'
  <2>1. PICK run : /\ Moves(w, run) /\ run.pc = pc /\ run.row = job[w].row
                   /\ run.building = job[w].building /\ run.nonce = job[w].nonce
    BY <1>3, GoesOn DEF Pc
  <2>2. Position(run) /\ Told(run)
    BY <1>1, <1>3, <2>1 DEF Position, Told, Making, Holding
  <2> QED
    BY <1>1, <2>1, <2>2, GoesKeep
<1>4. CASE driveResolution(w)
  BY <1>2, <1>3, <1>4 DEF driveResolution, current
<1>5. CASE rereadSigned(w)
  <2>1. res[job[w].row].raw
    BY <1>1, <1>5 DEF rereadSigned, at, Position, Holding
  <2> QED
    BY <1>3, <1>5, <2>1 DEF rereadSigned, current
<1> QED
  BY <1>4, <1>5

\* A pass reads the nonce and has its bytes signed.
LEMMA SignKeeps ==
  ASSUME IInv, NEW w \in Worker, readNonce(w) \/ sign(w)
  PROVE  IInv'
PROOF
<1>1. UNCHANGED <<market, chain>> /\ ~at(w, "idle") /\ job[w].pc \in {"nonce", "sign"}
  BY DEF readNonce, sign, at
<1>2. /\ Position(job[w]) /\ (Consistent => Told(job[w]))
      /\ job[w].row \in Market /\ res[job[w].row].state = "building" /\ job[w].building
  BY <1>1 DEF IInv, Positions, Agreed, Position, Making
<1>3. ASSUME fault, unavailable(w)
      PROVE  IInv'
  BY <1>1, <1>3, UnavailableKeeps
<1>4. CASE /\ at(w, "nonce")
           /\ job' = [job EXCEPT ![w].pc = "sign", ![w].nonce = pendingNonce]
           /\ UNCHANGED <<res, holder, attempts, faults>>
  <2>1. PICK run : run = [job[w] EXCEPT !.pc = "sign", !.nonce = pendingNonce]
    OBVIOUS
  <2>2. /\ run \in Run /\ run.pc = "sign" /\ run.row = job[w].row /\ run.nonce = pendingNonce
        /\ run.building = job[w].building
    BY <2>1, PendingIsFree, Typed DEF Run, Pc
  <2>3. job' = [job EXCEPT ![w] = run]
    BY <1>4, <2>1
  <2>4. Moves(w, run)
    BY <1>4, <2>2, <2>3, Typed DEF Moves, RunnerTyped, Held
  <2>5. Position(run)
    BY <1>2, <2>2 DEF Position, Making, Holding
  <2>6. Consistent => Told(run)
    BY <1>2, <2>2, PendingIsNew DEF Told
  <2> QED
    BY <1>1, <1>4, <2>2, <2>4, <2>5, <2>6, GoesKeep
<1>5. CASE at(w, "sign") /\ goto(w, "commit") /\ UNCHANGED <<res, faults>>
  <2>1. PICK run : /\ Moves(w, run) /\ run.pc = "commit" /\ run.row = job[w].row
                   /\ run.building = job[w].building /\ run.nonce = job[w].nonce
    BY <1>5, GoesOn DEF Pc
  <2>2. Position(run) /\ (Consistent => Told(run))
    BY <1>2, <1>5, <2>1 DEF Position, Told, Making, Holding, at
  <2> QED
    BY <1>1, <1>5, <2>1, <2>2, GoesKeep
<1>6. CASE at(w, "sign") /\ fault /\ refused(w)
  BY <1>1, <1>6, RefusedKeeps
<1> QED
  BY <1>3, <1>4, <1>5, <1>6 DEF readNonce, sign

\* The receipt of the bytes on the row says whether they were accepted.
LEMMA PollKeeps ==
  ASSUME IInv, NEW w \in Worker, pollReceipt(w)
  PROVE  IInv'
PROOF
<1>1. UNCHANGED <<market, chain>> /\ ~at(w, "idle") /\ job[w].pc = "poll"
  BY DEF pollReceipt, at
<1>2. Position(job[w]) /\ job[w].row \in Market /\ res[job[w].row].raw
  BY <1>1 DEF IInv, Positions, Position, Holding
<1>3. CASE res' = release(current(w), w) /\ complete(w) /\ UNCHANGED faults
  BY <1>1, <1>2, <1>3, StopsKeep DEF current
<1>4. CASE fault /\ unavailable(w)
  BY <1>1, <1>4, UnavailableKeeps
<1>5. ASSUME NEW r \in mined, r.tx = bytes(current(w)),
             goto(w, IF r.ok THEN "confirm" ELSE "fail"), UNCHANGED <<res, faults>>
      PROVE  IInv'
  <2>1. PICK run : /\ Moves(w, run) /\ run.pc = (IF r.ok THEN "confirm" ELSE "fail")
                   /\ run.row = job[w].row
                   /\ run.building = job[w].building /\ run.nonce = job[w].nonce
    BY <1>5, GoesOn DEF Pc
  <2>2. bytes(run.row) \in minedTx /\ (r.ok => Accepted(run.row))
    <3>1. r = [tx |-> r.tx, ok |-> r.ok] /\ r.ok \in BOOLEAN
      BY Typed DEF NodeTyped
    <3> QED
      BY <1>5, <2>1, <3>1 DEF minedTx, Accepted, current
  <2>3. Position(run) /\ Told(run)
    BY <1>2, <2>1, <2>2, <1>1 DEF Position, Told, Making, Holding
  <2> QED
    BY <1>1, <1>5, <2>1, <2>3, GoesKeep
<1> QED
  BY <1>3, <1>4, <1>5 DEF pollReceipt

\* The registry follows the receipt, or is found to have moved on.
LEMMA ApplyKeeps ==
  ASSUME IInv, NEW w \in Worker, applyConfirmedResolution(w)
  PROVE  IInv'
PROOF
<1>1. UNCHANGED <<res, chain, faults>> /\ job[w].pc = "apply"
  BY DEF applyConfirmedResolution, at
<1>2. job[w].row \in Market /\ Accepted(job[w].row)
  BY <1>1 DEF IInv, Positions, Position
<1>3. CASE market' = market /\ throw(w)
  BY <1>1, <1>2, <1>3, StopsKeep
<1>4. CASE /\ market' = [market EXCEPT ![current(w)] = <<"yes", "no", "void">>[res[current(w)].action + 1]]
           /\ continue(w)
  <2> DEFINE m == job[w].row
  <2>1. /\ res[m].action \in {0, 1, 2}
        /\ market' \in [Market -> {"closed", "yes", "no", "void"}]
        /\ market'[m] = <<"yes", "no", "void">>[res[m].action + 1]
        /\ \A n \in Market \ {m} : market'[n] = market[n]
    BY <1>2, <1>4, Typed DEF RowsTyped, Row, Action, current
  <2>2. contract[m] = oracleAct(m, res[m].action)
    BY <1>2 DEF IInv, Receipts, Accepted, bytes
  <2>3. ChainFirst'
    BY <1>1, <2>1, <2>2 DEF IInv, ChainFirst, unbacked, oracleAct, ACTION_VOID, chain
  <2>4. Quiet /\ RowsTyped'
    BY <1>1, Typed DEF Quiet, SameRow, RowsTyped
  <2>5. PICK run : Moves(w, run) /\ Rests(run)
    BY <1>4, Ends
  <2> HIDE DEF m
  <2> QED
    BY <1>1, <2>1, <2>3, <2>4, <2>5, RestsOnward, FaultsTyped, QuietKeeps
<1> QED
  BY <1>3, <1>4 DEF applyConfirmedResolution, current

------------------------------------------------------------------------------
(* Steps that rewrite one row.                                             *)

\* The row of m becomes row: bytes it had it keeps, bytes it is given have a nonce
\* of their own, and it is in nobody's way on its chain.
Advance(m, row) ==
  /\ row \in Row /\ res' = [res EXCEPT ![m] = row] /\ UNCHANGED chain
  /\ row.leased => row.owner # NoWorker
  /\ res[m].raw => row.raw /\ row.action = res[m].action /\ row.nonce = res[m].nonce
  /\ row.raw /\ ~res[m].raw => res[m].state = "building"
  /\ row.state \in {"none", "planned", "building"} => ~row.raw
  /\ row.state \in {"signed", "broadcast", "confirmed"} => row.raw
  /\ row.state \in {"none", "planned"} => res[m].state \in {"none", "planned"}
  /\ row.state \in {"building", "signed"} =>
       \A n \in Market \ {m} : res[n].state \notin {"building", "signed"}
  /\ Consistent =>
       /\ row.raw /\ ~res[m].raw => \A n \in Market : Alive(n) => res[n].nonce # row.nonce
       /\ row.state \in {"broadcast", "confirmed"} => res[m].raw /\ bytes(m) \in wire \cup refusals
       /\ row.state = "failed" /\ row.raw => res[m].raw /\ bytes(m) \in minedTx \cup refusals

\* What such a step leaves of the old rows.
LEMMA Advanced ==
  ASSUME IInv, NEW m \in Market, NEW row, Advance(m, row)
  PROVE  /\ UNCHANGED <<contract, pool, mined, refusals, wire, minedTx, nextNonce>>
         /\ Consistent' => Consistent
         /\ res'[m] = row
         /\ \A n \in Market : n # m => res'[n] = res[n]
         /\ \A n \in Market : n # m \/ res[m].raw => bytes(n)' = bytes(n)
PROOF
<1>1. /\ UNCHANGED <<contract, pool, mined, refusals>> /\ res'[m] = row
      /\ \A n \in Market : n # m => res'[n] = res[n]
  BY Typed DEF Advance, chain, RowsTyped
<1>2. UNCHANGED <<wire, minedTx, nextNonce>> /\ (Consistent' => Consistent)
  BY <1>1 DEF wire, minedTx, nextNonce, Consistent
<1>3. \A n \in Market : n # m \/ res[m].raw => bytes(n)' = bytes(n)
  BY <1>1 DEF Advance, bytes
<1> QED
  BY <1>1, <1>2, <1>3

\* Bytes that were of no use are of no use now.
LEMMA AdvancedAlive ==
  ASSUME IInv, NEW m \in Market, NEW row, Advance(m, row),
         NEW n \in Market, n # m \/ res[m].raw, Alive(n)'
  PROVE  Alive(n) /\ res'[n].nonce = res[n].nonce
PROOF
<1>1. CASE n # m
  BY <1>1, Advanced DEF Alive
<1>2. CASE n = m /\ res[m].raw
  <2>1. res'[m] = row /\ row.nonce = res[m].nonce
    BY <1>2, Advanced DEF Advance
  <2>2. bytes(m)' = bytes(m) /\ refusals' = refusals
    BY <1>2, Advanced
  <2>3. bytes(m)' \notin refusals'
    BY <1>2 DEF Alive
  <2> QED
    BY <1>2, <2>1, <2>2, <2>3 DEF Alive
<1> QED
  BY <1>1, <1>2

\* The rows are as right as before.
LEMMA AdvanceRows ==
  ASSUME IInv, NEW m \in Market, NEW row, Advance(m, row)
  PROVE  /\ RowsTyped' /\ Committed' /\ OneMade' /\ WireCommitted' /\ Nonces' /\ Receipts'
         /\ Consistent' => Sent' /\ Distinct'
PROOF
<1>1. RowsTyped'
  BY Typed DEF Advance, RowsTyped
<1>2. Committed' /\ OneMade'
  BY Advanced DEF Advance, IInv, Committed, OneMade
<1>3. WireCommitted'
  <2>1. ASSUME NEW t \in wire
        PROVE  res'[t.market].raw /\ t = bytes(t.market)'
    <3>1. t.market \in Market /\ res[t.market].raw /\ t = bytes(t.market)
      BY Typed DEF IInv, WireCommitted, NodeTyped, Tx, wire, minedTx
    <3>2. bytes(t.market)' = bytes(t.market)
      BY <3>1, Advanced
    <3>3. res'[t.market].raw
      BY <3>1, Advanced DEF Advance
    <3> QED
      BY <3>1, <3>2, <3>3
  <2> QED
    BY <2>1, Advanced DEF WireCommitted
<1>4. Nonces' /\ Receipts'
  BY Advanced DEF IInv, Nonces, Receipts, oracleAct
<1>5. ASSUME Consistent'
      PROVE  Sent' /\ Distinct'
  <2>1. Consistent /\ Sent /\ Distinct
    BY <1>5, Advanced DEF IInv, Agreed
  <2>2. \A n \in Market \ {m} :
          /\ res'[n].state \in {"broadcast", "confirmed"} => bytes(n)' \in wire' \cup refusals'
          /\ res'[n].state = "failed" /\ res'[n].raw => bytes(n)' \in minedTx' \cup refusals'
    BY <2>1, Advanced DEF Sent
  <2>3. /\ res'[m].state \in {"broadcast", "confirmed"} => bytes(m)' \in wire' \cup refusals'
        /\ res'[m].state = "failed" /\ res'[m].raw => bytes(m)' \in minedTx' \cup refusals'
    BY <2>1, Advanced DEF Advance
  <2>4. Sent'
    BY <2>2, <2>3 DEF Sent
  <2>5. ASSUME NEW k \in Market, NEW n \in Market, Alive(k)', Alive(n)',
               res'[k].nonce = res'[n].nonce
        PROVE  k = n
    <3>1. CASE (k # m /\ n # m) \/ res[m].raw
      <4>1. /\ Alive(k) /\ res'[k].nonce = res[k].nonce
            /\ Alive(n) /\ res'[n].nonce = res[n].nonce
        BY <2>5, <3>1, AdvancedAlive
      <4> QED
        BY <2>1, <2>5, <4>1 DEF Distinct
    <3>2. CASE ~res[m].raw /\ k = m /\ n # m
      <4>1. Alive(n) /\ res'[n].nonce = res[n].nonce
        BY <2>5, <3>2, AdvancedAlive
      <4>2. row.raw /\ res'[m] = row
        BY <2>5, <3>2, Advanced DEF Alive
      <4> QED
        BY <2>1, <2>5, <3>2, <4>1, <4>2 DEF Advance
    <3>3. CASE ~res[m].raw /\ n = m /\ k # m
      <4>1. Alive(k) /\ res'[k].nonce = res[k].nonce
        BY <2>5, <3>3, AdvancedAlive
      <4>2. row.raw /\ res'[m] = row
        BY <2>5, <3>3, Advanced DEF Alive
      <4> QED
        BY <2>1, <2>5, <3>3, <4>1, <4>2 DEF Advance
    <3> QED
      BY <3>1, <3>2, <3>3
  <2>6. Distinct'
    BY <2>5 DEF Distinct
  <2> QED
    BY <2>4, <2>6
<1> QED
  BY <1>1, <1>2, <1>3, <1>4, <1>5

\* A pass that is not building the row stays right about it.
LEMMA AdvancePasses ==
  ASSUME IInv, NEW m \in Market, NEW row, Advance(m, row), NEW run,
         Position(run), Consistent => Told(run),
         run.row = m /\ run.building => res[m].state # "building"
  PROVE  Position(run)' /\ (Consistent' => Told(run)')
PROOF
<1>1. CASE run.pc = "idle"
  BY <1>1 DEF Position, Told, Making, Holding
<1>2. CASE run.pc # "idle" /\ run.row # m
  <2>1. /\ run.row \in Market /\ res'[run.row] = res[run.row]
        /\ bytes(run.row)' = bytes(run.row) /\ mined' = mined
    BY <1>2, Advanced DEF Position
  <2>2. Position(run)'
    BY <2>1 DEF Position, Accepted
  <2>3. ASSUME Consistent'
        PROVE  Told(run)'
    <3>1. /\ run.pc = "stamp" => bytes(run.row)' \in wire' \cup refusals'
          /\ run.pc = "fail" /\ res'[run.row].raw => bytes(run.row)' \in minedTx' \cup refusals'
      BY <2>1, <2>3, Advanced DEF Told
    <3>2. ASSUME run.pc \in {"sign", "commit"}, NEW n \in Market, Alive(n)'
          PROVE  res'[n].nonce # run.nonce
      <4>1. res[run.row].state = "building" /\ run.row \in Market
        BY <3>2 DEF Position, Making
      <4>2. res[m].state # "building"
        BY <1>2, <4>1 DEF IInv, OneMade
      <4>3. n # m \/ res[m].raw
        BY <3>2, <4>2, Advanced DEF Alive, Advance
      <4>4. Alive(n) /\ res'[n].nonce = res[n].nonce
        BY <3>2, <4>3, AdvancedAlive
      <4> QED
        BY <2>3, <3>2, <4>4, Advanced DEF Told
    <3> QED
      BY <3>1, <3>2 DEF Told
  <2> QED
    BY <2>2, <2>3
<1>3. CASE run.pc # "idle" /\ run.row = m
  <2>1. run.pc \notin Making /\ (run.pc = "fail" => res[m].raw)
    BY <1>3 DEF Position
  <2>2. res'[m] = row /\ mined' = mined /\ (res[m].raw => bytes(m)' = bytes(m) /\ row.raw)
    BY Advanced DEF Advance
  <2>3. row.state \in {"none", "planned"} => res[m].state \in {"none", "planned"}
    BY DEF Advance
  <2>4. Position(run)'
    BY <1>3, <2>1, <2>2, <2>3 DEF Position, Holding, Accepted
  <2>5. Consistent' => Told(run)'
    BY <1>3, <2>1, <2>2, Advanced DEF Told, Position, Making, Holding
  <2> QED
    BY <2>4, <2>5
<1> QED
  BY <1>1, <1>2, <1>3

\* What a pass does with the row in hand.
LEMMA AdvanceKeeps ==
  ASSUME IInv, NEW m \in Market, NEW row, Advance(m, row), UNCHANGED <<market, faults>>,
         NEW w \in Worker, NEW run, Moves(w, run), Position(run)', Consistent' => Told(run)',
         run.building => \A v \in Worker \ {w} : job[v].building => job[v].row # run.row,
         \A v \in Worker \ {w} : job[v].row = m /\ job[v].building => res[m].state # "building"
  PROVE  IInv'
PROOF
<1>1. \A v \in Worker \ {w} : \A other : other = job[v] =>
        Position(other)' /\ (Consistent' => Told(other)')
  BY AdvancePasses DEF IInv, Positions, Agreed
<1>2. Positions' /\ Alone' /\ (Consistent' => \A v \in Worker : Told(job[v])')
  BY <1>1, PassesKeep
<1>3. /\ RowsTyped' /\ Committed' /\ OneMade' /\ WireCommitted' /\ Nonces' /\ Receipts'
      /\ Consistent' => Sent' /\ Distinct'
  BY AdvanceRows
<1>4. NodeTyped' /\ faults' \in 0..MaxFaults
  BY Typed, Advanced DEF NodeTyped
<1>5. ChainFirst' /\ market' \in [Market -> {"closed", "yes", "no", "void"}]
  BY SameMarkets, Advanced
<1>6. TypeOK' /\ Held'
  BY <1>3, <1>4, <1>5, TypedAgain DEF Moves
<1> QED
  BY <1>2, <1>3, <1>5, <1>6 DEF IInv, Agreed

\* A closed market is planned.
LEMMA PlanKeeps ==
  ASSUME IInv, NEW m \in Market, NEW reachable \in BOOLEAN, planResolution(m, reachable)
  PROVE  IInv'
PROOF
<1>1. PICK k : k = Cardinality({n \in Market : res[n].state # "none"})
  OBVIOUS
<1>2. k \in Nat
  <2>1. IsFiniteSet({n \in Market : res[n].state # "none"})
    BY ResolutionAssumption, FS_Subset
  <2> QED
    BY <1>1, <2>1, FS_CardinalityType
<1>3. PICK row : row = [NoResolution EXCEPT !.state = "planned",
                          !.action = plannedAction(m, reachable), !.made = k]
  OBVIOUS
<1>4. row \in Row /\ row.state = "planned" /\ ~row.raw /\ ~row.leased
  <2>1. plannedAction(m, reachable) \in Action
    BY ResolutionAssumption DEF plannedAction, Action, ACTION_VOID
  <2> QED
    BY <1>2, <1>3, <2>1 DEF NoResolution, Row, State
<1>5. /\ res' = [res EXCEPT ![m] = row] /\ res[m].state = "none" /\ ~res[m].raw
      /\ UNCHANGED <<market, chain, runner, faults>>
  BY <1>1, <1>3 DEF planResolution, IInv, Committed
<1>6. Advance(m, row)
  BY <1>4, <1>5 DEF Advance
<1>7. /\ RowsTyped' /\ Committed' /\ OneMade' /\ WireCommitted' /\ Nonces' /\ Receipts'
      /\ Consistent' => Sent' /\ Distinct'
  BY <1>6, AdvanceRows
<1>8. ASSUME NEW v \in Worker
      PROVE  Position(job[v])' /\ (Consistent' => Told(job[v])')
  <2>1. PICK run : run = job[v]
    OBVIOUS
  <2>2. Position(run)' /\ (Consistent' => Told(run)')
    BY <1>5, <1>6, <2>1, AdvancePasses DEF IInv, Positions, Agreed
  <2> QED
    BY <1>5, <2>1, <2>2 DEF runner, Position, Told
<1>9. Positions' /\ Alone'
  BY <1>5, <1>8 DEF IInv, Positions, Alone, runner
<1>10. NodeTyped' /\ RunnerTyped' /\ job' \in [Worker -> Run] /\ faults' \in 0..MaxFaults
  BY <1>5, Typed DEF NodeTyped, RunnerTyped, Held, runner, chain
<1>11. ChainFirst' /\ market' \in [Market -> {"closed", "yes", "no", "void"}]
  BY <1>5, SameMarkets DEF chain
<1>12. TypeOK' /\ Held'
  BY <1>7, <1>10, <1>11, TypedAgain
<1> QED
  BY <1>7, <1>8, <1>9, <1>11, <1>12 DEF IInv, Agreed

\* A planned row is claimed by one pass, while nothing else of the chain is in flight.
LEMMA ClaimKeeps ==
  ASSUME IInv, NEW w \in Worker, claimForBuilding(w)
  PROVE  IInv'
PROOF
<1> DEFINE m == job[w].row
<1>1. /\ UNCHANGED <<market, chain, faults>> /\ m \in Market
  BY DEF claimForBuilding, at, IInv, Positions, Position
<1>2. CASE continue(w) /\ UNCHANGED res
  BY <1>1, <1>2, StopsKeep
<1>3. CASE /\ claimable(m)
           /\ res' = [res EXCEPT ![m].state = "building", ![m].owner = w, ![m].leased = TRUE]
           /\ job' = [job EXCEPT ![w].pc = "nonce", ![w].building = TRUE]
           /\ UNCHANGED <<holder, attempts>>
  <2>1. PICK row : row = [res[m] EXCEPT !.state = "building", !.owner = w, !.leased = TRUE]
    OBVIOUS
  <2>2. /\ row \in Row /\ row.state = "building" /\ row.owner = w /\ row.raw = res[m].raw
    BY <1>1, <2>1, Typed, ZenonT(40) DEF RowsTyped, Row, State
  <2>3. res' = [res EXCEPT ![m] = row]
    BY <1>3, <2>1
  <2>4. PICK run : run = [job[w] EXCEPT !.pc = "nonce", !.building = TRUE]
    OBVIOUS
  <2>5. run \in Run /\ run.pc = "nonce" /\ run.row = m /\ run.building
    BY <2>4, Typed DEF Run, Pc
  <2>6. job' = [job EXCEPT ![w] = run]
    BY <1>3, <2>4
  <2>7. Moves(w, run)
    BY <1>3, <2>5, <2>6, Typed DEF Moves, RunnerTyped, Held
  <2>8. res[m].state = "planned" /\ ~res[m].raw
    BY <1>3 DEF claimable
  <2>9. \A n \in Market \ {m} : res[n].state \notin {"building", "signed"}
    BY <1>3 DEF claimable, admits, inFlight
  <2>10. Advance(m, row)
    BY <1>1, <2>2, <2>3, <2>8, <2>9, ResolutionAssumption DEF Advance
  <2>11. Position(run)' /\ Told(run)'
    BY <1>1, <2>2, <2>5, <2>10, Advanced DEF Position, Told, Making, Holding
  <2>12. \A v \in Worker \ {w} : job[v].building => job[v].row # m
    BY <1>1, <2>8 DEF IInv, Positions, Position
  <2> HIDE DEF m
  <2> QED
    BY <1>1, <2>5, <2>7, <2>8, <2>10, <2>11, <2>12, AdvanceKeeps
<1> QED
  BY <1>2, <1>3 DEF claimForBuilding, current

\* The bytes are committed, with a nonce that is nobody else's.
LEMMA CommitKeeps ==
  ASSUME IInv, NEW w \in Worker, markResolutionSigned(w)
  PROVE  IInv'
PROOF
<1> DEFINE m == job[w].row
<1>1. /\ UNCHANGED <<market, chain, faults>> /\ m \in Market
      /\ job[w].building /\ res[m].state = "building" /\ ~res[m].raw
      /\ Consistent => \A n \in Market : Alive(n) => res[n].nonce # job[w].nonce
  BY DEF markResolutionSigned, at, IInv, Positions, Position, Making, Agreed, Told, Committed
<1>2. CASE continue(w) /\ UNCHANGED res
  BY <1>1, <1>2, StopsKeep
<1>3. CASE /\ res[m].owner = w
           /\ res' = [res EXCEPT ![m].state = "signed", ![m].raw = TRUE, ![m].nonce = job[w].nonce]
           /\ goto(w, "reread")
  <2>1. PICK row : row = [res[m] EXCEPT !.state = "signed", !.raw = TRUE, !.nonce = job[w].nonce]
    OBVIOUS
  <2>2. /\ row \in Row /\ row.state = "signed" /\ row.raw /\ row.nonce = job[w].nonce
        /\ row.owner = w
    BY <1>1, <1>3, <2>1, Typed DEF RowsTyped, Row, State, Run
  <2>3. res' = [res EXCEPT ![m] = row]
    BY <1>3, <2>1
  <2>4. \A n \in Market \ {m} : res[n].state \notin {"building", "signed"}
    BY <1>1 DEF IInv, OneMade
  <2>5. Advance(m, row)
    BY <1>1, <2>2, <2>3, <2>4, ResolutionAssumption DEF Advance
  <2>6. PICK run : /\ Moves(w, run) /\ run.pc = "reread" /\ run.row = m
                   /\ run.building = job[w].building /\ run.nonce = job[w].nonce
    BY <1>3, GoesOn DEF Pc
  <2>7. Position(run)' /\ Told(run)'
    BY <1>1, <2>2, <2>5, <2>6, Advanced DEF Position, Told, Making, Holding
  <2>8. \A v \in Worker \ {w} : job[v].building => job[v].row # m
    BY <1>1 DEF IInv, Alone
  <2> HIDE DEF m
  <2> QED
    BY <1>1, <2>5, <2>6, <2>7, <2>8, AdvanceKeeps
<1> QED
  BY <1>2, <1>3 DEF markResolutionSigned, current

\* A row whose bytes were sent is stamped, unless the index keeps it out.
LEMMA StampKeeps ==
  ASSUME IInv, NEW w \in Worker, markResolutionBroadcast(w)
  PROVE  IInv'
PROOF
<1> DEFINE m == job[w].row
<1>1. /\ UNCHANGED <<market, chain, faults>> /\ m \in Market /\ res[m].raw
      /\ Consistent => bytes(m) \in wire \cup refusals
  BY DEF markResolutionBroadcast, at, IInv, Positions, Position, Holding, Agreed, Told
<1>2. CASE (res' = release(m, w) \/ res' = res) /\ throw(w)
  BY <1>1, <1>2, StopsKeep
<1>3. CASE goto(w, "poll")
  <2>1. PICK run : /\ Moves(w, run) /\ run.pc = "poll" /\ run.row = m
                   /\ run.building = job[w].building /\ run.nonce = job[w].nonce
    BY <1>3, GoesOn DEF Pc
  <2>2. CASE res' = res
    <3>1. Position(run) /\ Told(run)
      BY <1>1, <2>1 DEF Position, Told, Making, Holding, IInv, Positions, Committed
    <3> QED
      BY <1>1, <2>1, <2>2, <3>1, GoesKeep
  <2>3. CASE res' = [res EXCEPT ![m].state = "broadcast", ![m].stamped = TRUE]
    <3>1. PICK row : row = [res[m] EXCEPT !.state = "broadcast", !.stamped = TRUE]
      OBVIOUS
    <3>2. /\ row \in Row /\ row.state = "broadcast" /\ row.raw /\ row.nonce = res[m].nonce
          /\ row.action = res[m].action /\ row.leased = res[m].leased /\ row.owner = res[m].owner
      BY <1>1, <3>1, Typed DEF RowsTyped, Row, State
    <3>3. res' = [res EXCEPT ![m] = row]
      BY <2>3, <3>1
    <3>4. Advance(m, row)
      BY <1>1, <3>2, <3>3, Typed DEF Advance, RowsTyped
    <3>5. Position(run)' /\ Told(run)'
      BY <1>1, <2>1, <3>2, <3>4, Advanced DEF Position, Told, Making, Holding
    <3>6. /\ run.building => \A v \in Worker \ {w} : job[v].building => job[v].row # run.row
          /\ res[m].state # "building"
      BY <1>1, <2>1 DEF IInv, Alone, Committed
    <3> HIDE DEF m
    <3> QED
      BY <1>1, <2>1, <3>4, <3>5, <3>6, AdvanceKeeps
  <2> QED
    BY <1>3, <2>2, <2>3, <1>2 DEF markResolutionBroadcast, current
<1> QED
  BY <1>2, <1>3 DEF markResolutionBroadcast, current

\* A row is given up, with the bytes it has: they were refused, or their receipt is a revert.
LEMMA FailKeeps ==
  ASSUME IInv, NEW w \in Worker, markResolutionFailed(w)
  PROVE  IInv'
PROOF
<1> DEFINE m == job[w].row
<1>1. /\ UNCHANGED <<market, chain, faults>> /\ m \in Market /\ continue(w)
      /\ ~res[m].raw => job[w].building
      /\ Consistent /\ res[m].raw => bytes(m) \in minedTx \cup refusals
  BY DEF markResolutionFailed, at, IInv, Positions, Position, Agreed, Told
<1>2. PICK row : row = [res[m] EXCEPT !.state = "failed", !.leased = FALSE, !.owner = NoWorker]
  OBVIOUS
<1>3. /\ row \in Row /\ row.state = "failed" /\ row.raw = res[m].raw /\ row.nonce = res[m].nonce
      /\ row.action = res[m].action /\ ~row.leased
  BY <1>1, <1>2, Typed, ZenonT(40) DEF RowsTyped, Row, State
<1>4. res' = [res EXCEPT ![m] = row]
  BY <1>2 DEF markResolutionFailed, current
<1>5. Advance(m, row)
  BY <1>1, <1>3, <1>4 DEF Advance
<1>6. PICK run : Moves(w, run) /\ Rests(run)
  BY <1>1, Ends
<1>7. \A v \in Worker \ {w} : job[v].row = m /\ job[v].building => res[m].state # "building"
  BY <1>1 DEF IInv, Alone, Committed
<1> HIDE DEF m
<1> QED
  BY <1>1, <1>5, <1>6, <1>7, RestsIsRight, AdvanceKeeps DEF Rests

\* A row whose receipt was read is confirmed, if it still says it was broadcast.
LEMMA ConfirmKeeps ==
  ASSUME IInv, NEW w \in Worker, markResolutionConfirmed(w)
  PROVE  IInv'
PROOF
<1>0. PICK m \in Market : m = job[w].row
  BY DEF markResolutionConfirmed, at, IInv, Positions, Position
<1>1. UNCHANGED <<market, chain, faults>> /\ res[m].raw /\ Accepted(m)
  BY <1>0 DEF markResolutionConfirmed, at, IInv, Positions, Position, Holding
<1>2. PICK run : /\ Moves(w, run) /\ run.pc = "apply" /\ run.row = m
                 /\ run.building = job[w].building /\ run.nonce = job[w].nonce
  BY <1>0, GoesOn DEF markResolutionConfirmed, Pc
<1>3. CASE res' = res
  <2>1. Position(run) /\ Told(run)
    BY <1>0, <1>1, <1>2 DEF Position, Told, Making, Holding, IInv, Positions
  <2> QED
    BY <1>0, <1>1, <1>2, <1>3, <2>1, GoesKeep
<1>4. CASE /\ res[m].state = "broadcast"
           /\ res' = [res EXCEPT ![m].state = "confirmed", ![m].leased = FALSE, ![m].owner = NoWorker]
  <2>1. PICK row : row = [res[m] EXCEPT !.state = "confirmed", !.leased = FALSE, !.owner = NoWorker]
    OBVIOUS
  <2>2. /\ row \in Row /\ row.state = "confirmed" /\ row.raw = res[m].raw /\ row.nonce = res[m].nonce
        /\ row.action = res[m].action /\ ~row.leased
    BY <2>1, Typed DEF RowsTyped, Row, State
  <2>3. res' = [res EXCEPT ![m] = row]
    BY <1>4, <2>1
  <2>4. Consistent => bytes(m) \in wire \cup refusals
    BY <1>4, <1>1 DEF IInv, Agreed, Sent
  <2>5. Advance(m, row)
    BY <1>1, <2>2, <2>3, <2>4 DEF Advance
  <2>6. res'[m] = row /\ bytes(m)' = bytes(m) /\ mined' = mined
    BY <1>1, <2>5, Advanced
  <2>7. Position(run)' /\ Told(run)'
    BY <1>0, <1>1, <1>2, <2>2, <2>6 DEF Position, Told, Making, Holding, Accepted
  <2>8. run.building => \A v \in Worker \ {w} : job[v].building => job[v].row # run.row
    BY <1>0, <1>1, <1>2 DEF IInv, Alone
  <2> QED
    BY <1>0, <1>1, <1>2, <1>4, <2>5, <2>7, <2>8, AdvanceKeeps
<1> QED
  BY <1>0, <1>3, <1>4 DEF markResolutionConfirmed, current

------------------------------------------------------------------------------
(* Steps of the node.                                                      *)

\* What broadcast can do: the node has the bytes or it does not, or they are refused.
LEMMA Broadcasts ==
  ASSUME IInv, NEW m \in Market, res[m].raw, NEW answer, broadcast(bytes(m), answer)
  PROVE  /\ fault \/ faults' = faults
         /\ pool' = pool \/ pool' = pool \cup {bytes(m)}
         /\ refusals' = refusals \/ refusals' = refusals \cup {bytes(m)}
         /\ answer = "refused" => bytes(m) \in refusals'
         /\ answer = "ok" /\ Consistent => bytes(m) \in pool' \cup minedTx \cup refusals
PROOF
<1> DEFINE t == bytes(m)
<1>1. ASSUME Consistent, t.nonce < nextNonce, t \notin refusals
      PROVE  t \in minedTx
  <2>1. t.nonce \in 0..(nextNonce - 1)
    BY <1>1, BytesTyped, PendingIsFree DEF Tx
  <2>2. PICK u \in minedTx : u.nonce = t.nonce
    BY <2>1 DEF IInv, Nonces
  <2>3. /\ u.market \in Market /\ res[u.market].raw /\ u = bytes(u.market)
        /\ u \notin refusals
    BY <1>1, <2>2, Typed DEF IInv, WireCommitted, wire, minedTx, Consistent, NodeTyped, Tx
  <2>4. /\ Alive(u.market) /\ Alive(m) /\ res[u.market].nonce = u.nonce
        /\ res[m].nonce = t.nonce
    BY <1>1, <2>3 DEF Alive, bytes
  <2>5. u.market = m
    BY <1>1, <2>2, <2>3, <2>4 DEF IInv, Agreed, Distinct
  <2> QED
    BY <2>2, <2>3, <2>5
<1>2. CASE taken(t) /\ answer = "ok" /\ UNCHANGED <<pool, refusals, faults>>
  BY <1>1, <1>2 DEF taken
<1>3. CASE answer = "ok" /\ pool' = pool \cup {t} /\ UNCHANGED <<refusals, faults>>
  BY <1>3
<1>4. CASE answer = "unavailable" /\ UNCHANGED <<pool, refusals, faults>>
  BY <1>4
<1>5. CASE answer = "refused" /\ fault /\ refusals' = refusals \cup {t} /\ UNCHANGED pool
  BY <1>5
<1>6. CASE answer = "unavailable" /\ fault /\ UNCHANGED refusals
           /\ (pool' = pool \/ pool' = pool \cup {t})
  BY <1>6
<1> QED
  BY <1>2, <1>3, <1>4, <1>5, <1>6 DEF broadcast

\* The bytes of m may be on the wire now, or refused.
Grows(m) ==
  /\ pool' = pool \/ pool' = pool \cup {bytes(m)}
  /\ refusals' = refusals \/ refusals' = refusals \cup {bytes(m)}
  /\ UNCHANGED <<contract, mined>>
  /\ \A n \in Market : SameRow(n)

\* More is on the wire, or refused; what was there still is.
LEMMA Grown ==
  ASSUME IInv, NEW m \in Market, Grows(m)
  PROVE  /\ UNCHANGED <<minedTx, nextNonce>>
         /\ wire \subseteq wire' /\ wire' \subseteq wire \cup {bytes(m)}
         /\ refusals \subseteq refusals'
         /\ Consistent' => Consistent
         /\ \A n \in Market : bytes(n)' = bytes(n)
         /\ \A n \in Market : Alive(n)' => Alive(n)
PROOF
<1>1. \A n \in Market : bytes(n)' = bytes(n)
  BY DEF Grows, SameRow, bytes
<1>2. UNCHANGED <<minedTx, nextNonce>> /\ refusals \subseteq refusals'
  BY DEF Grows, minedTx, nextNonce
<1>3. wire \subseteq wire' /\ wire' \subseteq wire \cup {bytes(m)}
  BY <1>2 DEF Grows, wire
<1>4. Consistent' => Consistent
  BY <1>2, <1>3 DEF Consistent
<1>5. ASSUME NEW n \in Market, Alive(n)'
      PROVE  Alive(n)
  BY <1>1, <1>2, <1>5 DEF Alive, Grows, SameRow
<1> QED
  BY <1>1, <1>2, <1>3, <1>4, <1>5

\* The rows and every pass stay right.
LEMMA GrownRows ==
  ASSUME IInv, NEW m \in Market, res[m].raw, Grows(m)
  PROVE  /\ Committed' /\ OneMade' /\ WireCommitted' /\ Nonces' /\ Receipts'
         /\ Consistent' => Sent' /\ Distinct'
PROOF
<1>1. Committed' /\ OneMade'
  BY DEF IInv, Committed, OneMade, Grows, SameRow
<1>2. WireCommitted'
  <2>1. ASSUME NEW t \in wire'
        PROVE  res'[t.market].raw /\ t = bytes(t.market)'
    <3>1. t.market \in Market /\ res[t.market].raw /\ t = bytes(t.market)
      <4>1. CASE t \in wire
        BY <4>1, Typed DEF IInv, WireCommitted, NodeTyped, Tx, wire, minedTx
      <4>2. CASE t = bytes(m)
        BY <4>2 DEF bytes
      <4> QED
        BY <4>1, <4>2, Grown
    <3> QED
      BY <3>1, Grown DEF Grows, SameRow
  <2> QED
    BY <2>1 DEF WireCommitted
<1>3. Nonces' /\ Receipts'
  <2>1. IsFiniteSet(pool')
    BY FS_AddElement DEF IInv, Nonces, Grows
  <2> QED
    BY <2>1, Grown DEF IInv, Nonces, Receipts, oracleAct, Grows
<1>4. Consistent' => Sent'
  <2>1. ASSUME Consistent', NEW n \in Market
        PROVE  /\ res'[n].state \in {"broadcast", "confirmed"} => bytes(n)' \in wire' \cup refusals'
               /\ res'[n].state = "failed" /\ res'[n].raw => bytes(n)' \in minedTx' \cup refusals'
    <3>1. /\ res[n].state \in {"broadcast", "confirmed"} => bytes(n) \in wire \cup refusals
          /\ res[n].state = "failed" /\ res[n].raw => bytes(n) \in minedTx \cup refusals
      BY <2>1, Grown DEF IInv, Agreed, Sent
    <3> QED
      BY <3>1, Grown DEF Grows, SameRow
  <2> QED
    BY <2>1 DEF Sent
<1>5. Consistent' => Distinct'
  <2>1. ASSUME Consistent', NEW k \in Market, NEW n \in Market, Alive(k)', Alive(n)',
               res'[k].nonce = res'[n].nonce
        PROVE  k = n
    <3>1. Alive(k) /\ Alive(n) /\ Consistent
      BY <2>1, Grown
    <3>2. res[k].nonce = res[n].nonce
      BY <2>1 DEF Grows, SameRow
    <3> QED
      BY <3>1, <3>2 DEF IInv, Agreed, Distinct
  <2> QED
    BY <2>1 DEF Distinct
<1> QED
  BY <1>1, <1>2, <1>3, <1>4, <1>5

\* So does every pass.
LEMMA GrownPasses ==
  ASSUME IInv, NEW m \in Market, Grows(m), NEW run, Position(run), Consistent => Told(run)
  PROVE  Position(run)' /\ (Consistent' => Told(run)')
PROOF
<1>1. /\ mined' = mined
      /\ run.pc # "idle" => /\ run.row \in Market /\ SameRow(run.row)
                            /\ bytes(run.row)' = bytes(run.row)
  BY Grown DEF Grows, Position
<1>2. Position(run)'
  BY <1>1 DEF Position, Making, Holding, Accepted, SameRow
<1>3. ASSUME Consistent'
      PROVE  Told(run)'
  <2>1. Told(run)
    BY <1>3, Grown
  <2>2. /\ run.pc = "stamp" => bytes(run.row)' \in wire' \cup refusals'
        /\ run.pc = "fail" /\ res'[run.row].raw => bytes(run.row)' \in minedTx' \cup refusals'
    BY <1>1, <2>1, Grown DEF Told, SameRow
  <2>3. run.pc \in {"sign", "commit"} => \A n \in Market : Alive(n)' => res'[n].nonce # run.nonce
    BY <2>1, Grown DEF Told, Grows, SameRow
  <2> QED
    BY <2>2, <2>3 DEF Told
<1> QED
  BY <1>2, <1>3

\* A step of one pass that hands the bytes of its row to the node.
LEMMA GrowsKeep ==
  ASSUME IInv, NEW m \in Market, res[m].raw, Grows(m), RowsTyped', UNCHANGED market,
         fault \/ faults' = faults,
         NEW w \in Worker, NEW run, Moves(w, run), Position(run)', Consistent' => Told(run)',
         run.building => job[w].building /\ run.row = job[w].row
  PROVE  IInv'
PROOF
<1>1. \A v \in Worker \ {w} : \A other : other = job[v] =>
        Position(other)' /\ (Consistent' => Told(other)')
  BY GrownPasses DEF IInv, Positions, Agreed
<1>2. run.building => \A v \in Worker \ {w} : job[v].building => job[v].row # run.row
  BY DEF IInv, Alone
<1>3. Positions' /\ Alone' /\ (Consistent' => \A v \in Worker : Told(job[v])')
  BY <1>1, <1>2, PassesKeep
<1>4. /\ Committed' /\ OneMade' /\ WireCommitted' /\ Nonces' /\ Receipts'
      /\ Consistent' => Sent' /\ Distinct'
  BY GrownRows
<1>5. NodeTyped'
  BY Typed, BytesTyped DEF NodeTyped, Grows
<1>6. ChainFirst' /\ market' \in [Market -> {"closed", "yes", "no", "void"}]
  BY SameMarkets DEF Grows
<1>7. TypeOK' /\ Held'
  BY <1>5, <1>6, FaultsTyped, TypedAgain DEF Moves
<1> QED
  BY <1>3, <1>4, <1>6, <1>7 DEF IInv, Agreed

\* The bytes of a row are sent, and come back with one of three answers.
LEMMA SendKeeps ==
  ASSUME IInv, NEW w \in Worker, send(w)
  PROVE  IInv'
PROOF
<1>0. PICK m \in Market : m = job[w].row
  BY DEF send, at, IInv, Positions, Position
<1>1. /\ UNCHANGED <<market, contract, mined>> /\ res[m].raw
      /\ job[w].building => res[m].state \notin {"none", "planned"}
  BY <1>0 DEF send, at, IInv, Positions, Position, Holding
<1>2. PICK answer : /\ broadcast(bytes(m), answer)
                    /\ \/ answer = "ok" /\ goto(w, "stamp") /\ UNCHANGED res
                       \/ answer = "refused" /\ refused(w)
                       \/ answer = "unavailable" /\ unavailable(w)
  BY <1>0 DEF send, current
<1>3. res' = release(m, w) \/ res' = res
  BY <1>0, <1>2 DEF refused, unavailable, current
<1>4. RowsTyped' /\ \A n \in Market : SameRow(n)
  BY <1>1, <1>3, Released
<1>5. /\ fault \/ faults' = faults
      /\ answer = "refused" => bytes(m) \in refusals'
      /\ answer = "ok" /\ Consistent => bytes(m) \in pool' \cup minedTx \cup refusals
      /\ Grows(m)
  BY <1>1, <1>2, <1>4, Broadcasts DEF Grows
<1>6. ASSUME NEW run, Moves(w, run), Position(run)', Consistent' => Told(run)',
             run.building => job[w].building /\ run.row = job[w].row
      PROVE  IInv'
  BY <1>1, <1>4, <1>5, <1>6, GrowsKeep
<1>7. CASE complete(w) \/ throw(w)
  <2>1. PICK run : Moves(w, run) /\ Rests(run)
    BY <1>7, Ends
  <2> QED
    BY <1>6, <2>1, RestsIsRight DEF Rests
<1>8. CASE answer = "ok" /\ goto(w, "stamp")
  <2>1. PICK run : /\ Moves(w, run) /\ run.pc = "stamp" /\ run.row = m
                   /\ run.building = job[w].building /\ run.nonce = job[w].nonce
    BY <1>0, <1>8, GoesOn DEF Pc
  <2>2. Position(run)'
    BY <1>1, <1>4, <2>1 DEF Position, Making, Holding, SameRow
  <2>3. Consistent' => Told(run)'
    <3>1. Consistent' => bytes(m)' \in wire' \cup refusals'
      BY <1>1, <1>5, <1>8, Grown DEF wire
    <3> QED
      BY <2>1, <3>1 DEF Told
  <2> QED
    BY <1>0, <1>6, <2>1, <2>2, <2>3
<1>9. CASE answer = "refused" /\ goto(w, "fail")
  <2>1. PICK run : /\ Moves(w, run) /\ run.pc = "fail" /\ run.row = m
                   /\ run.building = job[w].building /\ run.nonce = job[w].nonce
    BY <1>0, <1>9, GoesOn DEF Pc
  <2>2. Position(run)'
    BY <1>1, <1>4, <2>1 DEF Position, Making, Holding, SameRow
  <2>3. Told(run)'
    <3>1. bytes(m)' \in refusals'
      BY <1>1, <1>5, <1>9, Grown
    <3> QED
      BY <2>1, <3>1 DEF Told
  <2> QED
    BY <1>0, <1>6, <2>1, <2>2, <2>3
<1> QED
  BY <1>2, <1>7, <1>8, <1>9 DEF refused, unavailable

\* The account's next transaction is mined, and decides its market if it is the first.
LEMMA MineKeeps ==
  ASSUME IInv, NEW t \in pool, mine(t)
  PROVE  IInv' /\ wire' = wire
PROOF
<1> DEFINE m == t.market
           r == [tx |-> t, ok |-> contract[m] = "open"]
<1>1. /\ t.nonce = nextNonce /\ pool' = pool \ {t} /\ mined' = mined \cup {r}
      /\ UNCHANGED <<market, res, refusals, job, holder, attempts, faults>>
      /\ t \in Tx /\ m \in Market /\ r \notin mined
  BY Typed DEF mine, runner, NodeTyped, Tx, IInv, Nonces, nextNonce
<1>2. /\ contract' \in [Market -> {"open", "yes", "no", "void"}]
      /\ \A n \in Market : contract[n] # "open" => contract'[n] = contract[n]
      /\ contract[m] = "open" => contract'[m] = oracleAct(m, t.action)
  BY <1>1, Typed DEF mine, NodeTyped, oracleAct
<1>3. NodeTyped'
  <2>1. r \in [tx : Tx, ok : BOOLEAN]
    BY <1>1
  <2> HIDE DEF r
  <2> QED
    BY <1>1, <1>2, <2>1, Typed DEF NodeTyped
<1>4. minedTx' = minedTx \cup {t} /\ wire' = wire
  <2>1. minedTx' = minedTx \cup {t}
    <3>1. r.tx = t
      OBVIOUS
    <3> HIDE DEF r
    <3> QED
      BY <1>1, <3>1 DEF minedTx
  <2> QED
    BY <1>1, <2>1 DEF wire
<1>5. nextNonce \in Nat /\ nextNonce' = nextNonce + 1
  BY <1>1, PendingIsFree, FS_AddElement DEF IInv, Nonces, nextNonce
<1>6. Nonces'
  <2>1. IsFiniteSet(pool') /\ IsFiniteSet(mined')
    BY <1>1, FS_RemoveElement, FS_AddElement DEF IInv, Nonces
  <2>2. \A s \in mined' : s.tx.nonce < nextNonce'
    <3>1. \A s \in mined : s.tx.nonce \in Nat
      BY Typed DEF NodeTyped, Tx
    <3> QED
      BY <1>1, <1>5, <3>1 DEF IInv, Nonces
  <2>3. ASSUME NEW k \in 0..(nextNonce' - 1)
        PROVE  \E u \in minedTx' : u.nonce = k
    <3>1. CASE k = nextNonce
      BY <1>1, <1>4, <3>1
    <3>2. CASE k \in 0..(nextNonce - 1)
      BY <1>4, <3>2 DEF IInv, Nonces
    <3> QED
      BY <1>5, <3>1, <3>2
  <2> QED
    BY <2>1, <2>2, <2>3 DEF Nonces
<1>7. Receipts'
  <2>1. ASSUME NEW s \in mined', s.ok
        PROVE  contract'[s.tx.market] = oracleAct(s.tx.market, s.tx.action)
    <3>1. CASE s \in mined
      <4>1. s.tx.market \in Market /\ contract[s.tx.market] = oracleAct(s.tx.market, s.tx.action)
        BY <2>1, <3>1, Typed DEF IInv, Receipts, NodeTyped, Tx
      <4>2. contract[s.tx.market] # "open"
        BY <4>1 DEF oracleAct
      <4> QED
        BY <1>2, <4>1, <4>2
    <3>2. CASE s = r
      BY <1>2, <2>1, <3>2
    <3> QED
      BY <1>1, <2>1, <3>1, <3>2
  <2> QED
    BY <2>1 DEF Receipts, oracleAct
<1>8. ChainFirst' /\ market' \in [Market -> {"closed", "yes", "no", "void"}]
  BY <1>1, <1>2, Typed DEF IInv, ChainFirst, unbacked
<1>9. Committed' /\ OneMade' /\ Alone' /\ WireCommitted'
  BY <1>1, <1>4 DEF IInv, Committed, OneMade, Alone, WireCommitted, bytes
<1>10. /\ \A n \in Market : bytes(n)' = bytes(n) /\ (Alive(n)' => Alive(n))
       /\ Consistent' => Consistent
  BY <1>1, <1>4 DEF bytes, Alive, Consistent
<1>11. Positions'
  <2>1. ASSUME NEW v \in Worker
        PROVE  Position(job[v])'
    <3>1. Position(job[v])
      BY DEF IInv, Positions
    <3>2. job[v].row \in Market => (Accepted(job[v].row) => Accepted(job[v].row)')
      BY <1>1 DEF Accepted, bytes
    <3> QED
      BY <1>1, <3>1, <3>2 DEF Position
  <2> QED
    BY <2>1 DEF Positions
<1>12. Consistent' => Sent' /\ Distinct'
  BY <1>1, <1>4, <1>10 DEF IInv, Agreed, Sent, Distinct
<1>13. ASSUME Consistent', NEW v \in Worker
       PROVE  Told(job[v])'
  <2>1. Told(job[v]) /\ (job[v].pc # "idle" => job[v].row \in Market)
    BY <1>10, <1>13 DEF IInv, Agreed, Positions, Position
  <2> QED
    BY <1>1, <1>4, <1>10, <2>1 DEF Told
<1>14. RunnerTyped' /\ RowsTyped' /\ job' \in [Worker -> Run] /\ faults' \in 0..MaxFaults
  BY <1>1, Typed DEF RunnerTyped, RowsTyped, Held
<1>15. TypeOK' /\ Held'
  BY <1>3, <1>8, <1>14, TypedAgain
<1> QED
  BY <1>4, <1>6, <1>7, <1>8, <1>9, <1>11, <1>12, <1>13, <1>15 DEF IInv, Agreed

------------------------------------------------------------------------------
(* The theorems.                                                           *)

\* The states the program starts in.
LEMMA Starts == Init => IInv
PROOF
<1> SUFFICES ASSUME Init
             PROVE  IInv
  OBVIOUS
<1>1. minedTx = {} /\ nextNonce = 0 /\ wire = {}
  BY FS_EmptySet DEF Init, minedTx, nextNonce, wire
<1>2. NoResolution \in Row /\ Idle \in Run
  BY ResolutionAssumption, IdleRests DEF NoResolution, Row, State, Action
<1>3. TypeOK /\ Held
  BY <1>2, ResolutionAssumption DEF Init, TypeOK, Row, Run, NoResolution, Held
<1>4. Committed /\ OneMade
  BY DEF Init, Committed, OneMade, NoResolution
<1>5. Positions /\ Alone
  BY DEF Init, Positions, Position, Alone, Idle, Making, Holding
<1>6. WireCommitted /\ Nonces /\ Receipts
  BY <1>1, FS_EmptySet DEF Init, WireCommitted, Nonces, Receipts
<1>7. ChainFirst
  BY DEF Init, ChainFirst, unbacked
<1>8. Agreed
  BY DEF Init, Agreed, Sent, Distinct, Alive, Told, NoResolution, Idle
<1> QED
  BY <1>3, <1>4, <1>5, <1>6, <1>7, <1>8 DEF IInv

\* Every step keeps it.
LEMMA StepKeeps == IInv /\ [Next]_vars => IInv'
PROOF
<1> SUFFICES ASSUME IInv, [Next]_vars
             PROVE  IInv'
  OBVIOUS
<1>1. ASSUME NEW w \in Worker, passStep(w)
      PROVE  IInv'
  BY <1>1, RunnerKeeps, DriveKeeps, ClaimKeeps, SignKeeps, CommitKeeps, SendKeeps, StampKeeps,
     PollKeeps, FailKeeps, ConfirmKeeps, ApplyKeeps DEF passStep
<1>2. ASSUME NEW m \in Market, leaseLapses(m) \/ \E reachable \in BOOLEAN : planResolution(m, reachable)
      PROVE  IInv'
  BY <1>2, LeaseKeeps, PlanKeeps
<1>3. CASE UNCHANGED vars
  <2>1. Quiet /\ RowsTyped' /\ RunnerTyped' /\ job' = job
    BY <1>3, Typed DEF vars, runner, Quiet, SameRow, RowsTyped, RunnerTyped, Held
  <2>2. ChainFirst' /\ market' \in [Market -> {"closed", "yes", "no", "void"}]
    BY <1>3, SameMarkets DEF vars, chain
  <2> QED
    BY <1>3, <2>1, <2>2, FaultsTyped, QuietKeeps DEF vars
<1> QED
  BY <1>1, <1>2, <1>3, MineKeeps, RunnerKeeps DEF Next

\* So it always holds.
LEMMA Invariant == Spec => []IInv
PROOF
  BY Starts, StepKeeps, PTL DEF Spec

\* The rows, the node and the runner are what the schema and the code say they are.
THEOREM TypeCorrect == Spec => []TypeOK
PROOF
<1>1. IInv => TypeOK
  BY DEF IInv
<1> QED
  BY <1>1, Invariant, PTL

\* What is on the wire is what a row holds, and what a row says was sent is on the wire.
THEOREM RowsAndWire == Spec => []RowsAndWireAgree
PROOF
<1>1. IInv => RowsAndWireAgree
  BY Strong
<1> QED
  BY <1>1, Invariant, PTL

\* What the registry says of a market the contract decided before it, and in the same
\* way, an answer that nobody backed apart: over that the contract is void, while the
\* registry says the outcome that was planned (applyConfirmedResolution).
THEOREM ChainIsFirst == Spec => []ChainFirst
PROOF
<1>1. IInv => ChainFirst
  BY DEF IInv
<1> QED
  BY <1>1, Invariant, PTL

------------------------------------------------------------------------------
(* OutboundTx is implemented.                                              *)

signedBytes == [m \in Market |-> IF res[m].raw THEN bytes(m) ELSE NoBytes]

\* A row's bytes are not nothing.
LEMMA SomeBytes ==
  ASSUME NEW m \in Market
  PROVE  bytes(m) # NoBytes
PROOF
<1>1. bytes(m).market = m /\ NoBytes.market = "none" /\ m # "none"
  BY ResolutionAssumption DEF bytes, NoBytes
<1> QED
  BY <1>1

\* Rows that keep their bytes, and a wire that does, are none of OutboundTx's business.
LEMMA KeepsBytes ==
  ASSUME \A m \in Market : res'[m].raw = res[m].raw /\ (res[m].raw => bytes(m)' = bytes(m))
  PROVE  UNCHANGED signedBytes
PROOF
  BY DEF signedBytes

\* Steps of a pass that neither commit bytes nor send them.
LEMMA OtherStepsKeepBytes ==
  ASSUME IInv, NEW w \in Worker,
         \/ startPass(w) \/ driveResolution(w) \/ claimForBuilding(w) \/ readNonce(w) \/ sign(w)
         \/ rereadSigned(w) \/ markResolutionBroadcast(w) \/ pollReceipt(w)
         \/ markResolutionFailed(w) \/ markResolutionConfirmed(w) \/ applyConfirmedResolution(w)
         \/ crashWorker(w) \/ jobLapses(w)
  PROVE  UNCHANGED <<signedBytes, wire>>
PROOF
<1>1. UNCHANGED chain
  BY DEF startPass, driveResolution, claimForBuilding, readNonce, sign, rereadSigned,
         markResolutionBroadcast, pollReceipt, markResolutionFailed, markResolutionConfirmed,
         applyConfirmedResolution, crashWorker, jobLapses
<1>2. PICK m : m = current(w)
  OBVIOUS
<1>3. \/ res' = res
      \/ res' = [res EXCEPT ![m].owner = NoWorker, ![m].leased = FALSE]
      \/ res' = [res EXCEPT ![m].state = "building", ![m].owner = w, ![m].leased = TRUE]
      \/ res' = [res EXCEPT ![m].state = "broadcast", ![m].stamped = TRUE]
      \/ res' = [res EXCEPT ![m].state = "failed", ![m].leased = FALSE, ![m].owner = NoWorker]
      \/ res' = [res EXCEPT ![m].state = "confirmed", ![m].leased = FALSE, ![m].owner = NoWorker]
  BY <1>2 DEF startPass, driveResolution, claimForBuilding, readNonce, sign, rereadSigned,
              markResolutionBroadcast, pollReceipt, markResolutionFailed, markResolutionConfirmed,
              applyConfirmedResolution, crashWorker, jobLapses,
              unavailable, refused, release
<1>4. \A n \in Market : /\ res'[n].raw = res[n].raw /\ res'[n].action = res[n].action
                         /\ res'[n].nonce = res[n].nonce
  <2>1. res \in [Market -> Row]
    BY Typed DEF RowsTyped
  <2> QED
    BY <1>3, <2>1 DEF Row
<1>5. \A n \in Market : bytes(n)' = bytes(n)
  BY <1>4 DEF bytes
<1> QED
  BY <1>1, <1>4, <1>5, KeepsBytes DEF chain, wire, minedTx

\* A step commits a row's bytes, once, or sends those that were committed, or is
\* none of the outside's business.
LEMMA StepIsOutbound ==
  ASSUME IInv, IInv', [Next]_vars
  PROVE  [Outbound!Next]_<<signedBytes, wire>>
PROOF
<1>1. ASSUME NEW w \in Worker, markResolutionSigned(w)
      PROVE  Outbound!Next \/ UNCHANGED <<signedBytes, wire>>
  <2>1. PICK m \in Market : m = job[w].row
    BY <1>1 DEF markResolutionSigned, at, IInv, Positions, Position
  <2>2. wire' = wire
    BY <1>1 DEF markResolutionSigned, chain, wire, minedTx
  <2>3. CASE res' = res
    BY <2>2, <2>3, KeepsBytes DEF bytes
  <2>4. CASE /\ ~res[m].raw
             /\ res' = [res EXCEPT ![m].state = "signed", ![m].raw = TRUE, ![m].nonce = job[w].nonce]
    <3>1. \A n \in Market : n # m => res'[n] = res[n] /\ bytes(n)' = bytes(n)
      BY <2>4, Typed DEF RowsTyped, bytes
    <3>2. signedBytes[m] = NoBytes
      BY <2>4 DEF signedBytes
    <3>3. signedBytes' = [signedBytes EXCEPT ![m] = signedBytes'[m]]
      BY <3>1 DEF signedBytes
    <3> QED
      BY <2>2, <3>2, <3>3 DEF Outbound!Next, Outbound!Commit, signedBytes
  <2> QED
    BY <1>1, <2>1, <2>3, <2>4 DEF markResolutionSigned, current
<1>2. ASSUME NEW w \in Worker, send(w)
      PROVE  Outbound!Next \/ UNCHANGED <<signedBytes, wire>>
  <2>1. PICK m \in Market : m = job[w].row /\ res[m].raw
    BY <1>2 DEF send, at, IInv, Positions, Position, Holding
  <2>2. mined' = mined /\ (res' = release(m, w) \/ res' = res)
    BY <1>2, <2>1 DEF send, refused, unavailable, current
  <2>3. UNCHANGED signedBytes
    BY <2>2, Released, KeepsBytes DEF SameRow, bytes
  <2>4. pool' = pool \/ pool' = pool \cup {bytes(m)}
    BY <1>2, <2>1, Broadcasts DEF send, current
  <2>5. wire' = wire \/ wire' = wire \cup {signedBytes[m]}
    BY <2>1, <2>2, <2>4 DEF wire, minedTx, signedBytes
  <2>6. signedBytes[m] # NoBytes
    BY <2>1, SomeBytes DEF signedBytes
  <2> QED
    BY <2>3, <2>5, <2>6 DEF Outbound!Next, Outbound!Send, signedBytes
<1>3. ASSUME NEW m \in Market, NEW reachable \in BOOLEAN, planResolution(m, reachable)
      PROVE  UNCHANGED <<signedBytes, wire>>
  <2>1. wire' = wire
    BY <1>3 DEF planResolution, chain, wire, minedTx
  <2>2. ~res[m].raw /\ ~res'[m].raw
    BY <1>3, Typed DEF planResolution, IInv, Committed, NoResolution, RowsTyped
  <2>3. \A n \in Market : n # m => res'[n] = res[n] /\ bytes(n)' = bytes(n)
    BY <1>3, Typed DEF planResolution, RowsTyped, bytes
  <2>4. UNCHANGED signedBytes
    BY <2>2, <2>3 DEF signedBytes
  <2> QED
    BY <2>1, <2>4
<1>4. ASSUME NEW t \in pool, mine(t)
      PROVE  UNCHANGED <<signedBytes, wire>>
  <2>1. wire' = wire /\ res' = res
    BY <1>4, MineKeeps DEF mine
  <2> QED
    BY <2>1, KeepsBytes DEF bytes
<1>5. ASSUME NEW m \in Market, leaseLapses(m)
      PROVE  UNCHANGED <<signedBytes, wire>>
  <2>1. UNCHANGED wire
    BY <1>5 DEF leaseLapses, chain, wire, minedTx
  <2>2. \A n \in Market : SameRow(n)
    BY <1>5, Typed DEF leaseLapses, RowsTyped, Row, SameRow
  <2> QED
    BY <2>1, <2>2, KeepsBytes DEF SameRow, bytes
<1>6. CASE UNCHANGED vars
  <2>1. UNCHANGED <<res, wire>>
    BY <1>6 DEF vars, chain, wire, minedTx
  <2> QED
    BY <2>1, KeepsBytes DEF bytes
<1>7. ASSUME NEW w \in Worker, passStep(w) \/ crashWorker(w) \/ jobLapses(w)
      PROVE  Outbound!Next \/ UNCHANGED <<signedBytes, wire>>
  BY <1>1, <1>2, <1>7, OtherStepsKeepBytes DEF passStep
<1> QED
  BY <1>3, <1>4, <1>5, <1>6, <1>7 DEF Next

\* A resolution is an outbound transaction: its bytes are committed once, and only then sent.
THEOREM CommitsBeforeItSends == Spec => CommitBeforeSend
PROOF
<1>1. Init => Outbound!Init
  BY DEF Init, Outbound!Init, wire, minedTx, NoResolution
<1>2. IInv /\ IInv' /\ [Next]_vars => [Outbound!Next]_<<signedBytes, wire>>
  BY StepIsOutbound
<1>3. signedBytes = [m \in Market |-> IF res[m].raw THEN bytes(m) ELSE NoBytes]
  BY DEF signedBytes
<1> QED
  BY <1>1, <1>2, Invariant, PTL DEF Spec, CommitBeforeSend, Outbound!Spec, signedBytes
==============================================================================
