------------------------ MODULE CustodialStakesProofs ------------------------
(***************************************************************************)
(* The custodial book, for any stakes, markets, users, assets, quotes,     *)
(* funds and workers: first what holds whatever fails, then what holds     *)
(* until something fails.                                                  *)
(***************************************************************************)
EXTENDS CustodialStakes, SplitPayoutsProofs

------------------------------------------------------------------------------
(* What the variables hold.                                                *)

Status == {"open", "closed", "resolved", "void"}
RequestState == {"none", "posting", "recording", "done", "failed"}

Row == [market : Market, subject : Subject, outcome : 0..1, asset : Asset,
        stakeAmount : Nat, poolAmount : Nat, state : RowState \ {"none"}, escrowed : BOOLEAN]

Payouts == UNION {[S -> Nat] : S \in SUBSET Stake}

Pass == [pc : {"idle", "pick", "post", "mark"}, due : SUBSET Market, todo : SUBSET Stake,
         refundAll : BOOLEAN, payouts : Payouts]

Types ==
  /\ market \in [Market -> [status : Status, outcome : 0..1]]
  /\ row \in [Stake -> Row \cup {NoRow}]
  /\ request \in [Stake -> RequestState]
  /\ entries \in [Phase -> SUBSET Stake]
  /\ credited \in [Stake -> Nat]
  /\ bal \in [Account -> Int]
  /\ job \in [Worker -> Pass]
  /\ holder \in Worker \cup {NoWorker}
  /\ attempts \in 0..MaxAttempts
  /\ faults \in 0..MaxFaults

\* Stakes and markets are numbered, and those of a market are finitely many.
LEMMA Numbered ==
  /\ Stake \in SUBSET Nat /\ Stake \in SUBSET Int /\ IsFiniteSet(Stake)
  /\ Market \in SUBSET Int /\ IsFiniteSet(Market)
  /\ \A S \in SUBSET Stake : S \in SUBSET Int /\ IsFiniteSet(S)
PROOF
<1>1. /\ \A k \in Stake : k \in Nat
      /\ \A m \in Market : m \in Nat
      /\ IsFiniteSet(Stake) /\ IsFiniteSet(Market)
  BY StakesAssumption DEF StakesAssumption
<1>2. \A S \in SUBSET Stake : S \in SUBSET Int /\ IsFiniteSet(S)
  BY <1>1, FS_Subset
<1> QED
  BY <1>1, <1>2

\* Of some numbers there is a least one.
LEMMA Least ==
  ASSUME NEW S \in SUBSET Int, IsFiniteSet(S), S # {}
  PROVE  leastOf(S) \in S /\ \A n \in S : leastOf(S) <= n
PROOF
<1> DEFINE C == {T \in SUBSET S : T # {} => \E m \in T : \A n \in T : m <= n}
<1>1. ASSUME NEW T \in SUBSET S, NEW x \in S \ T, T \in C
      PROVE  T \cup {x} \in C
  <2>1. CASE T = {}
    BY <2>1
  <2>2. CASE T # {}
    <3>1. PICK m \in T : \A n \in T : m <= n
      BY <1>1, <2>2
    <3>2. PICK least \in T \cup {x} : least <= m /\ least <= x
      OBVIOUS
    <3>3. \A n \in T \cup {x} : least <= n
      BY <3>1, <3>2
    <3> QED
      BY <3>3
  <2> QED
    BY <2>1, <2>2
<1>2. {} \in C
  OBVIOUS
<1> HIDE DEF C
<1>3. SUBSET S \subseteq C
  BY <1>1, <1>2, SetInduction
<1>4. \E m \in S : \A n \in S : m <= n
  BY <1>3 DEF C
<1> QED
  BY <1>4 DEF leastOf

\* Which row is a row.
LEMMA RowOrNone ==
  /\ NoRow \notin Row /\ NoRow.state = "none"
  /\ \A r \in Row : /\ r.market \in Market /\ r.subject \in Subject /\ r.outcome \in 0..1
                    /\ r.asset \in Asset /\ r.stakeAmount \in Nat /\ r.poolAmount \in Nat
                    /\ r.state \in RowState \ {"none"} /\ r.escrowed \in BOOLEAN
PROOF
<1>1. \A r \in Row : r.state \in RowState \ {"none"}
  BY DEF Row
<1>2. NoRow.state = "none"
  BY DEF NoRow
<1> QED
  BY <1>1, <1>2 DEF Row

\* No payouts are payouts.
LEMMA NoPayouts == [k \in {} |-> 0] \in Payouts
PROOF
  BY DEF Payouts

\* A worker without a pass has a pass of no fields that matter.
LEMMA IdlePass == Idle \in Pass /\ Idle.pc = "idle" /\ Idle.due = {} /\ Idle.todo = {}
PROOF
<1>1. << >> = [k \in {} |-> 0]
  OBVIOUS
<1> QED
  BY <1>1, NoPayouts DEF Idle, Pass

\* No stake has been asked for.
LEMMA InitTypes == Init => Types
PROOF
<1> SUFFICES ASSUME Init
             PROVE  Types
  OBVIOUS
<1>1. market \in [Market -> [status : Status, outcome : 0..1]]
  BY DEF Init, Status
<1>2. row \in [Stake -> Row \cup {NoRow}] /\ request \in [Stake -> RequestState]
  BY DEF Init, RequestState
<1>3. entries \in [Phase -> SUBSET Stake] /\ credited \in [Stake -> Nat]
  BY DEF Init
<1>4. bal \in [Account -> Int]
  BY StakesAssumption DEF Init, InitialBalance, StakesAssumption
<1>5. job \in [Worker -> Pass] /\ holder \in Worker \cup {NoWorker}
  BY IdlePass DEF Init
<1>6. attempts \in 0..MaxAttempts /\ faults \in 0..MaxFaults
  BY StakesAssumption DEF Init, StakesAssumption
<1> QED
  BY <1>1, <1>2, <1>3, <1>4, <1>5, <1>6 DEF Types

------------------------------------------------------------------------------
(* The invariant of whatever fails.                                        *)

\* No user's account is overdrawn.
Solvent == \A x \in UserAccount : bal[x] >= 0

\* A runner that holds the job may still throw.
Claimed == holder # NoWorker => attempts < MaxAttempts

\* What is true of a stake: a request that was asked has a row, the entry of a
\* stake is posted by its own request only, and an entry is of a row.
StakeSound(k) ==
  /\ request[k] = "none" => row[k] = NoRow
  /\ request[k] # "none" => row[k] \in Row
  /\ request[k] \in {"none", "posting"} => k \notin entries["escrow"]
  /\ request[k] = "recording" => k \in entries["escrow"]
  /\ \A phase \in Phase : k \in entries[phase] => row[k] \in Row

\* A payout entry is of a resolved market, and a winner's is worth the stake.
PaidSound(k) ==
  k \in entries["payout"] =>
    /\ market[row[k].market].status = "resolved"
    /\ IF row[k].outcome = market[row[k].market].outcome
         THEN credited[k] >= row[k].poolAmount ELSE credited[k] = 0

\* What a pass p takes to be so: its markets are over, the stakes in hand are of the
\* one it is at, whose pool it has divided, and the ledger has the entry it will mark.
PassSound(p) ==
  /\ \A m \in p.due : over(m)
  /\ p.pc \in {"post", "mark"} =>
       /\ p.due # {} /\ p.todo # {}
       /\ \A k \in p.todo : row[k] \in Row /\ row[k].market = leastOf(p.due)
       /\ ~ p.refundAll =>
            /\ market[leastOf(p.due)].status = "resolved"
            /\ \A k \in p.todo :
                 IF row[k].outcome = market[leastOf(p.due)].outcome
                   THEN k \in DOMAIN p.payouts /\ p.payouts[k] >= row[k].poolAmount
                   ELSE k \notin DOMAIN p.payouts
  /\ p.pc = "mark" => leastOf(p.todo) \in entries[IF p.refundAll THEN "refund" ELSE "payout"]

\* The ledger is the sum of its entries.
escrowed(x) == SumFunction([k \in entries["escrow"] |-> escrowPostings(row[k])[x]])
refunded(x) == SumFunction([k \in entries["refund"] |-> refundPostings(row[k])[x]])
paidOut(x) == SumFunction([k \in entries["payout"] |-> poolPayoutPostings(row[k], credited[k])[x]])
Booked == \A x \in Account : bal[x] = InitialBalance[x] + escrowed(x) + refunded(x) + paidOut(x)

Stakes == \A k \in Stake : StakeSound(k) /\ PaidSound(k)
Passes == \A w \in Worker : PassSound(job[w])

IInv ==
  /\ Types /\ Solvent /\ Claimed
  /\ Stakes /\ MarkedRowsHaveEntries /\ Passes
  /\ Booked

\* Nothing has happened, and the ledger has no entries.
LEMMA InitIInv == Init => IInv
PROOF
<1> SUFFICES ASSUME Init
             PROVE  IInv
  OBVIOUS
<1>1. Solvent /\ Claimed
  <2>1. /\ holder = NoWorker /\ bal = InitialBalance /\ Funds \in Nat
        /\ \A x \in UserAccount : x \in Account
    BY StakesAssumption DEF Init, StakesAssumption, Account
  <2>2. \A x \in UserAccount : bal[x] \in {0, Funds}
    BY <2>1 DEF InitialBalance
  <2> QED
    BY <2>1, <2>2 DEF Solvent, Claimed
<1>2. /\ \A phase \in Phase : entries[phase] = {}
      /\ \A k \in Stake : row[k] = NoRow /\ request[k] = "none"
  BY DEF Init
<1>3. Stakes
  BY <1>2 DEF Stakes, StakeSound, PaidSound, Phase
<1>4. MarkedRowsHaveEntries
  BY <1>2, RowOrNone DEF MarkedRowsHaveEntries
<1>5. Passes
  <2>1. \A w \in Worker : job[w] = Idle
    BY DEF Init
  <2> QED
    BY <2>1, IdlePass DEF Passes, PassSound
<1>6. Booked
  <2>1. entries["escrow"] = {} /\ entries["refund"] = {} /\ entries["payout"] = {}
    BY <1>2 DEF Phase
  <2>2. \A x : escrowed(x) = 0 /\ refunded(x) = 0 /\ paidOut(x) = 0
    BY <2>1, SumEmpty DEF escrowed, refunded, paidOut, SumFunction
  <2>3. bal = InitialBalance /\ \A x \in Account : InitialBalance[x] \in Int
    BY StakesAssumption DEF Init, InitialBalance, StakesAssumption
  <2> QED
    BY <2>2, <2>3 DEF Booked
<1> QED
  BY <1>1, <1>3, <1>4, <1>5, <1>6, InitTypes DEF IInv

------------------------------------------------------------------------------
(* What a step leaves as it was.                                           *)

SameTerms(r, s) ==
  /\ s.market = r.market /\ s.subject = r.subject /\ s.outcome = r.outcome /\ s.asset = r.asset
  /\ s.stakeAmount = r.stakeAmount /\ s.poolAmount = r.poolAmount

\* How a row may change: it comes into being accepted, and it leaves that state.
Moves(r, s) ==
  \/ s = r
  \/ r = NoRow /\ s \in Row /\ s.state = "accepted" /\ s.escrowed = FALSE
  \/ /\ r \in Row /\ s \in Row /\ SameTerms(r, s) /\ r.state = "accepted"
     /\ \/ s.state \in {"deleted", "refunded", "paid"} /\ s.escrowed = r.escrowed
        \/ s.state = "accepted" /\ s.escrowed = TRUE

\* What no step takes back.
Stable ==
  /\ \A m \in Market : over(m) => market'[m] = market[m]
  /\ \A k \in Stake : Moves(row[k], row'[k])
  /\ \A phase \in Phase : entries[phase] \subseteq entries'[phase]

\* A row keeps its terms.
LEMMA TermsStay ==
  ASSUME Types, Stable, NEW k \in Stake, row[k] \in Row
  PROVE  row'[k] \in Row /\ SameTerms(row[k], row'[k])
PROOF
<1>1. Moves(row[k], row'[k])
  BY DEF Stable
<1> QED
  BY <1>1, RowOrNone DEF Moves, SameTerms

\* What a pass took to be so is so after the step.
LEMMA PassStays ==
  ASSUME Types, Stable, NEW p \in Pass, PassSound(p)
  PROVE  PassSound(p)'
PROOF
<1>1. \A m \in p.due : m \in Market /\ over(m) /\ market'[m] = market[m]
  BY DEF PassSound, Pass, Stable
<1>2. \A m \in p.due : over(m)'
  BY <1>1 DEF over
<1>3. ASSUME p.pc \in {"post", "mark"}
      PROVE  /\ p.due # {} /\ p.todo # {}
             /\ \A k \in p.todo : row'[k] \in Row /\ row'[k].market = leastOf(p.due)
             /\ ~ p.refundAll =>
                  /\ market'[leastOf(p.due)].status = "resolved"
                  /\ \A k \in p.todo :
                       IF row'[k].outcome = market'[leastOf(p.due)].outcome
                         THEN k \in DOMAIN p.payouts /\ p.payouts[k] >= row'[k].poolAmount
                         ELSE k \notin DOMAIN p.payouts
  <2>1. p.due # {} /\ p.todo # {} /\ p.due \in SUBSET Market
    BY <1>3 DEF PassSound, Pass
  <2>2. leastOf(p.due) \in p.due
    BY <2>1, Numbered, FS_Subset, Least
  <2>3. market'[leastOf(p.due)] = market[leastOf(p.due)]
    BY <1>1, <2>2
  <2>4. \A k \in p.todo : k \in Stake /\ row[k] \in Row /\ row[k].market = leastOf(p.due)
    BY <1>3 DEF PassSound, Pass
  <2>5. \A k \in p.todo : row'[k] \in Row /\ SameTerms(row[k], row'[k])
    BY <2>4, TermsStay
  <2> QED
    BY <1>3, <2>1, <2>3, <2>4, <2>5 DEF PassSound, SameTerms
<1>4. ASSUME p.pc = "mark"
      PROVE  leastOf(p.todo) \in entries'[IF p.refundAll THEN "refund" ELSE "payout"]
  BY <1>4 DEF PassSound, Stable, Phase
<1> QED
  BY <1>2, <1>3, <1>4 DEF PassSound

\* So it is of all the passes but those that go on, which are sound for reasons of their own.
LEMMA PassesStay ==
  ASSUME Types, Stable, Passes, NEW w \in Worker, NEW p \in Pass, job' = [job EXCEPT ![w] = p],
         PassSound(p)'
  PROVE  job' \in [Worker -> Pass] /\ Passes'
PROOF
<1>1. job' \in [Worker -> Pass] /\ \A v \in Worker : job'[v] = IF v = w THEN p ELSE job[v]
  BY DEF Types
<1>2. ASSUME NEW v \in Worker
      PROVE  PassSound(job[v])'
  <2>1. CASE v = w
    BY <1>1, <2>1 DEF PassSound, over
  <2>2. CASE v # w
    <3>1. PICK q \in Pass : q = job[v] /\ q = job'[v]
      BY <1>1, <2>2 DEF Types
    <3>2. PassSound(q)
      BY <3>1 DEF Passes
    <3>3. PassSound(q)'
      BY <3>2, PassStays
    <3> QED
      BY <3>1, <3>3 DEF PassSound, over
  <2> QED
    BY <2>1, <2>2
<1> QED
  BY <1>1, <1>2 DEF Passes

\* And of all of them, when none goes on.
LEMMA PassesRest ==
  ASSUME Types, Stable, Passes, job' = job
  PROVE  job' \in [Worker -> Pass] /\ Passes'
PROOF
<1>1. ASSUME NEW v \in Worker
      PROVE  PassSound(job[v])'
  <2>1. PICK q \in Pass : q = job[v] /\ q = job'[v]
    BY DEF Types
  <2>2. PassSound(q)
    BY <2>1 DEF Passes
  <2>3. PassSound(q)'
    BY <2>2, PassStays
  <2> QED
    BY <2>1, <2>3 DEF PassSound, over
<1> QED
  BY <1>1 DEF Passes, Types

\* A pass without a market is sound.
LEMMA IdleSound == PassSound(Idle) /\ PassSound(Idle)'
PROOF
  BY IdlePass DEF PassSound

\* A row as it was but for its state, or for its entry's id.
LEMMA Rewritten ==
  ASSUME NEW r \in Row, NEW s \in RowState \ {"none"}
  PROVE  /\ [r EXCEPT !.state = s] \in Row /\ [r EXCEPT !.escrowed = TRUE] \in Row
         /\ SameTerms(r, [r EXCEPT !.state = s]) /\ SameTerms(r, [r EXCEPT !.escrowed = TRUE])
         /\ [r EXCEPT !.state = s].state = s /\ [r EXCEPT !.state = s].escrowed = r.escrowed
         /\ [r EXCEPT !.escrowed = TRUE].state = r.state /\ [r EXCEPT !.escrowed = TRUE].escrowed
PROOF
  BY DEF Row, SameTerms

\* One row changes, the way rows do.
LEMMA RowMoves ==
  ASSUME Types, NEW k \in Stake, NEW s \in Row, Moves(row[k], s), row' = [row EXCEPT ![k] = s]
  PROVE  /\ row' \in [Stake -> Row \cup {NoRow}]
         /\ \A j \in Stake : Moves(row[j], row'[j]) /\ (j # k => row'[j] = row[j])
         /\ row'[k] = s
PROOF
<1>1. row \in [Stake -> Row \cup {NoRow}]
  BY DEF Types
<1>2. \A j \in Stake : row'[j] = IF j = k THEN s ELSE row[j]
  BY <1>1
<1> QED
  BY <1>1, <1>2 DEF Moves

\* An accepted row that is marked with a state.
LEMMA Marked ==
  ASSUME Types, NEW k \in Stake, row[k].state = "accepted", NEW s \in {"deleted", "refunded", "paid"},
         row' = [row EXCEPT ![k].state = s]
  PROVE  /\ row' \in [Stake -> Row \cup {NoRow}]
         /\ \A j \in Stake : Moves(row[j], row'[j]) /\ (j # k => row'[j] = row[j])
         /\ row[k] \in Row /\ row'[k] \in Row /\ row'[k].state = s /\ row'[k].escrowed = row[k].escrowed
PROOF
<1>1. row[k] \in Row
  BY RowOrNone DEF Types
<1>2. PICK r : r = [row[k] EXCEPT !.state = s]
  OBVIOUS
<1>3. s \in RowState \ {"none"}
  BY DEF RowState
<1>4. /\ r \in Row /\ SameTerms(row[k], r)
      /\ r.state = s /\ r.escrowed = row[k].escrowed
  BY <1>1, <1>2, <1>3, Rewritten
<1>5. Moves(row[k], r)
  BY <1>1, <1>4 DEF Moves
<1>6. row' = [row EXCEPT ![k] = r]
  BY <1>2
<1> QED
  BY <1>1, <1>4, <1>5, <1>6, RowMoves

\* An accepted row that is given the id of its entry.
LEMMA Recorded ==
  ASSUME Types, NEW k \in Stake, row[k].state = "accepted", row' = [row EXCEPT ![k].escrowed = TRUE]
  PROVE  /\ row' \in [Stake -> Row \cup {NoRow}]
         /\ \A j \in Stake : Moves(row[j], row'[j]) /\ (j # k => row'[j] = row[j])
         /\ row[k] \in Row /\ row'[k] \in Row /\ row'[k].state = "accepted"
PROOF
<1>1. row[k] \in Row
  BY RowOrNone DEF Types
<1>2. PICK r : r = [row[k] EXCEPT !.escrowed = TRUE]
  OBVIOUS
<1>3. r \in Row /\ SameTerms(row[k], r) /\ r.state = "accepted" /\ r.escrowed = TRUE
  BY <1>1, <1>2, Rewritten DEF RowState
<1>4. Moves(row[k], r)
  BY <1>1, <1>3 DEF Moves
<1>5. row' = [row EXCEPT ![k] = r]
  BY <1>2
<1> QED
  BY <1>1, <1>3, <1>4, <1>5, RowMoves

------------------------------------------------------------------------------
(* Entries.                                                                *)

\* The accounts of a user, and the platform's, are accounts, and integers move.
LEMMA Integers ==
  ASSUME NEW r \in Row, NEW n \in Nat
  PROVE  /\ escrowPostings(r) \in [Account -> Int] /\ refundPostings(r) \in [Account -> Int]
         /\ poolPayoutPostings(r, n) \in [Account -> Int]
PROOF
<1>1. r.poolAmount \in Nat /\ r.stakeAmount \in Nat
  BY RowOrNone
<1>2. \A a, b : \A i \in Nat : transfer(a, b, i) \in [Account -> Int]
  BY DEF transfer
<1>3. \A f, g \in [Account -> Int] : both(f, g) \in [Account -> Int]
  BY DEF both
<1>4. escrowPostings(r) \in [Account -> Int]
  BY <1>1, <1>2, <1>3 DEF escrowPostings
<1>5. refundPostings(r) \in [Account -> Int]
  BY <1>4 DEF refundPostings
<1> QED
  BY <1>1, <1>2, <1>3, <1>4, <1>5 DEF poolPayoutPostings

\* What a call of postEntry does: nothing, or what its key had not done yet.
Entered(phase, k, postings) ==
  \/ UNCHANGED <<bal, entries>>
  \/ /\ k \notin entries[phase]
     /\ entries' = [entries EXCEPT ![phase] = @ \cup {k}]
     /\ bal' = [x \in Account |-> bal[x] + postings[x]]
     /\ \A x \in UserAccount : bal[x] + postings[x] >= 0

\* A call with a key that is used as it says, whatever the answer.
LEMMA Posted ==
  ASSUME Types, NEW phase \in Phase, NEW k \in Stake, NEW postings \in [Account -> Int],
         NEW used \in BOOLEAN, used <=> k \in entries[phase], NEW recorded \in BOOLEAN, NEW answer,
         postEntry(used, postings, recorded, answer),
         entries' = IF recorded THEN [entries EXCEPT ![phase] = @ \cup {k}] ELSE entries
  PROVE  /\ Entered(phase, k, postings)
         /\ answer = "ok" => k \in entries'[phase]
         /\ answer = "refused" => overdraws(postings) /\ UNCHANGED <<bal, entries>>
         /\ faults' \in 0..MaxFaults /\ faults' >= faults
         /\ answer = "unavailable" => faults' > faults
PROOF
<1>1. /\ entries \in [Phase -> SUBSET Stake] /\ faults \in 0..MaxFaults /\ bal \in [Account -> Int]
      /\ faults \in Nat /\ MaxFaults \in Nat
  BY StakesAssumption DEF Types, StakesAssumption
<1>2. \A x \in UserAccount : x \in Account
  BY DEF Account
<1>3. k \in entries[phase] => [entries EXCEPT ![phase] = @ \cup {k}] = entries
  BY <1>1
<1>4. CASE used /\ recorded /\ answer = "ok" /\ UNCHANGED <<bal, faults>>
  <2>1. entries' = entries /\ k \in entries[phase]
    BY <1>3, <1>4
  <2> QED
    BY <1>1, <1>4, <2>1 DEF Entered
<1>5. CASE ~used /\ ~overdraws(postings) /\ recorded /\ answer = "ok" /\ post(postings) /\ UNCHANGED faults
  <2>1. \A x \in UserAccount : bal[x] + postings[x] >= 0
    BY <1>1, <1>2, <1>5 DEF overdraws
  <2>2. k \notin entries[phase] /\ entries' = [entries EXCEPT ![phase] = @ \cup {k}]
    BY <1>5
  <2>3. k \in entries'[phase]
    BY <1>1, <2>2
  <2>4. Entered(phase, k, postings)
    BY <1>5, <2>1, <2>2 DEF Entered, post
  <2> QED
    BY <1>1, <1>5, <2>3, <2>4
<1>6. CASE ~used /\ overdraws(postings) /\ ~recorded /\ answer = "refused" /\ UNCHANGED <<bal, faults>>
  BY <1>1, <1>6 DEF Entered
<1>7. CASE answer = "unavailable" /\ recorded = used /\ fault /\ UNCHANGED bal
  <2>1. faults' \in 0..MaxFaults /\ faults' > faults
    BY <1>1, <1>7 DEF fault
  <2>2. entries' = entries
    BY <1>1, <1>3, <1>7
  <2> QED
    BY <1>1, <1>7, <2>1, <2>2 DEF Entered
<1>8. CASE answer = "unavailable" /\ ~used /\ ~overdraws(postings) /\ recorded /\ fault /\ post(postings)
  <2>1. \A x \in UserAccount : bal[x] + postings[x] >= 0
    BY <1>1, <1>2, <1>8 DEF overdraws
  <2>2. faults' \in 0..MaxFaults /\ faults' > faults
    BY <1>1, <1>8 DEF fault
  <2>3. k \notin entries[phase] /\ entries' = [entries EXCEPT ![phase] = @ \cup {k}]
    BY <1>8
  <2>4. Entered(phase, k, postings)
    BY <1>8, <2>1, <2>3 DEF Entered, post
  <2> QED
    BY <1>1, <1>8, <2>2, <2>4
<1> QED
  BY <1>4, <1>5, <1>6, <1>7, <1>8 DEF postEntry

------------------------------------------------------------------------------
(* The books.                                                              *)

\* The entries of a row are those of its terms.
LEMMA SameEntries ==
  ASSUME NEW r, NEW s, SameTerms(r, s)
  PROVE  /\ escrowPostings(s) = escrowPostings(r) /\ refundPostings(s) = refundPostings(r)
         /\ \A n : poolPayoutPostings(s, n) = poolPayoutPostings(r, n)
PROOF
<1>1. escrowPostings(s) = escrowPostings(r)
  BY DEF escrowPostings, SameTerms
<1>2. refundPostings(s) = refundPostings(r)
  BY <1>1 DEF refundPostings
<1> QED
  BY <1>1, <1>2 DEF poolPayoutPostings, SameTerms

\* A sum with one more in it.
LEMMA OneMore ==
  ASSUME NEW S, IsFiniteSet(S), NEW k, k \notin S, NEW f \in [S -> Int],
         NEW T, T = S \cup {k}, NEW g \in [T -> Int], \A j \in S : g[j] = f[j]
  PROVE  SumFunction(g) = SumFunction(f) + g[k]
PROOF
<1>1. \A j \in S \cup {k} : g[j] \in Int
  OBVIOUS
<1>2. SumFunctionOnSet(g, S \cup {k}) = g[k] + SumFunctionOnSet(g, S)
  BY <1>1, SumAdd
<1>3. SumFunctionOnSet(g, S) = SumFunctionOnSet(f, S)
  <2>1. \A j \in S : g[j] = f[j] /\ g[j] \in Int
    BY <1>1
  <2> QED
    BY <2>1, SumSame
<1>4. SumFunctionOnSet(f, S) \in Int
  BY SumInt
<1>5. g[k] \in Int
  BY <1>1
<1>6. SumFunction(g) = SumFunctionOnSet(g, S \cup {k}) /\ SumFunction(f) = SumFunctionOnSet(f, S)
  BY DEF SumFunction
<1> QED
  BY <1>2, <1>3, <1>4, <1>5, <1>6

\* What each entry moves, of the rows there are.
LEMMA Moved ==
  ASSUME Types, Stakes, NEW x \in Account
  PROVE  /\ [k \in entries["escrow"] |-> escrowPostings(row[k])[x]] \in [entries["escrow"] -> Int]
         /\ [k \in entries["refund"] |-> refundPostings(row[k])[x]] \in [entries["refund"] -> Int]
         /\ [k \in entries["payout"] |-> poolPayoutPostings(row[k], credited[k])[x]]
              \in [entries["payout"] -> Int]
PROOF
<1>1. \A phase \in Phase : \A k \in entries[phase] : k \in Stake /\ row[k] \in Row /\ credited[k] \in Nat
  BY DEF Types, Stakes, StakeSound
<1>2. {"escrow", "refund", "payout"} = Phase
  BY DEF Phase
<1>3. \A phase \in Phase : \A k \in entries[phase] :
        /\ escrowPostings(row[k])[x] \in Int /\ refundPostings(row[k])[x] \in Int
        /\ poolPayoutPostings(row[k], credited[k])[x] \in Int
  BY <1>1, Integers
<1> QED
  BY <1>2, <1>3

\* They are finitely many.
LEMMA FinitelyMany ==
  ASSUME Types
  PROVE  /\ IsFiniteSet(entries["escrow"]) /\ IsFiniteSet(entries["refund"])
         /\ IsFiniteSet(entries["payout"])
PROOF
<1>1. \A phase \in Phase : entries[phase] \in SUBSET Stake
  BY DEF Types
<1>2. \A phase \in Phase : IsFiniteSet(entries[phase])
  BY <1>1, Numbered
<1> QED
  BY <1>2 DEF Phase

\* And sums of them are integers.
LEMMA Totals ==
  ASSUME Types, Stakes, NEW x \in Account
  PROVE  escrowed(x) \in Int /\ refunded(x) \in Int /\ paidOut(x) \in Int /\ InitialBalance[x] \in Int
PROOF
<1>1. InitialBalance[x] \in Int
  BY StakesAssumption DEF InitialBalance, StakesAssumption
<1>2. \A S : \A f \in [S -> Int] : IsFiniteSet(S) => SumFunction(f) \in Int
  BY SumInt DEF SumFunction
<1> QED
  BY <1>1, <1>2, Moved, FinitelyMany DEF escrowed, refunded, paidOut

\* The rows keep the terms their entries are made of.
LEMMA MovedSame ==
  ASSUME Types, Stakes, Stable
  PROVE  \A phase \in Phase : \A k \in entries[phase] :
           /\ row'[k] \in Row /\ SameTerms(row[k], row'[k])
           /\ escrowPostings(row'[k]) = escrowPostings(row[k])
           /\ refundPostings(row'[k]) = refundPostings(row[k])
           /\ \A n : poolPayoutPostings(row'[k], n) = poolPayoutPostings(row[k], n)
PROOF
<1>1. \A phase \in Phase : \A k \in entries[phase] : k \in Stake /\ row[k] \in Row
  BY DEF Types, Stakes, StakeSound
<1>2. \A phase \in Phase : \A k \in entries[phase] : row'[k] \in Row /\ SameTerms(row[k], row'[k])
  BY <1>1, TermsStay
<1> QED
  BY <1>2, SameEntries

\* A step that enters nothing changes no sum.
LEMMA BookedStays ==
  ASSUME Types, Stakes, Booked, Stable, UNCHANGED <<bal, entries>>,
         \A k \in entries["payout"] : credited'[k] = credited[k]
  PROVE  Booked'
PROOF
<1>1. ASSUME NEW x \in Account
      PROVE  escrowed(x)' = escrowed(x) /\ refunded(x)' = refunded(x) /\ paidOut(x)' = paidOut(x)
  <2>1. /\ \A k \in entries["escrow"] : escrowPostings(row'[k])[x] = escrowPostings(row[k])[x]
        /\ \A k \in entries["refund"] : refundPostings(row'[k])[x] = refundPostings(row[k])[x]
        /\ \A k \in entries["payout"] : poolPayoutPostings(row'[k], credited'[k])[x]
                                          = poolPayoutPostings(row[k], credited[k])[x]
    BY MovedSame DEF Phase
  <2>2. /\ [k \in entries'["escrow"] |-> escrowPostings(row'[k])[x]]
             = [k \in entries["escrow"] |-> escrowPostings(row[k])[x]]
        /\ [k \in entries'["refund"] |-> refundPostings(row'[k])[x]]
             = [k \in entries["refund"] |-> refundPostings(row[k])[x]]
        /\ [k \in entries'["payout"] |-> poolPayoutPostings(row'[k], credited'[k])[x]]
             = [k \in entries["payout"] |-> poolPayoutPostings(row[k], credited[k])[x]]
    BY <2>1
  <2> QED
    BY <2>2 DEF escrowed, refunded, paidOut
<1> QED
  BY <1>1 DEF Booked

\* An entry that takes a stake in.
LEMMA BookedEscrow ==
  ASSUME Types, Stakes, Booked, Stable, NEW k \in Stake, row[k] \in Row, k \notin entries["escrow"],
         entries' = [entries EXCEPT !["escrow"] = @ \cup {k}], NEW postings,
         bal' = [x \in Account |-> bal[x] + postings[x]],
         postings = escrowPostings(row[k]), \A j \in entries["payout"] : credited'[j] = credited[j]
  PROVE  Booked'
PROOF
<1>1. /\ entries'["escrow"] = entries["escrow"] \cup {k}
      /\ entries'["refund"] = entries["refund"] /\ entries'["payout"] = entries["payout"]
  BY DEF Types, Phase
<1>2. row'[k] \in Row /\ SameTerms(row[k], row'[k])
  BY TermsStay
<1>3. ASSUME NEW x \in Account
      PROVE  bal'[x] = InitialBalance[x] + escrowed(x)' + refunded(x)' + paidOut(x)'
  <2>1. refunded(x)' = refunded(x)
    <3>1. \A j \in entries["refund"] : refundPostings(row'[j])[x] = refundPostings(row[j])[x]
      BY MovedSame DEF Phase
    <3>2. [j \in entries'["refund"] |-> refundPostings(row'[j])[x]]
            = [j \in entries["refund"] |-> refundPostings(row[j])[x]]
      BY <1>1, <3>1
    <3> QED
      BY <3>2 DEF refunded
  <2>2. paidOut(x)' = paidOut(x)
    <3>1. \A j \in entries["payout"] : poolPayoutPostings(row'[j], credited'[j])[x] = poolPayoutPostings(row[j], credited[j])[x]
      BY MovedSame DEF Phase
    <3>2. [j \in entries'["payout"] |-> poolPayoutPostings(row'[j], credited'[j])[x]]
            = [j \in entries["payout"] |-> poolPayoutPostings(row[j], credited[j])[x]]
      BY <1>1, <3>1
    <3> QED
      BY <3>2 DEF paidOut
  <2>3. escrowed(x)' = escrowed(x) + postings[x] /\ postings[x] \in Int
    <3>1. PICK S, T, f, g : /\ S = entries["escrow"] /\ T = entries'["escrow"]
                            /\ f = [j \in S |-> escrowPostings(row[j])[x]]
                            /\ g = [j \in T |-> escrowPostings(row'[j])[x]]
      OBVIOUS
    <3>2. IsFiniteSet(S) /\ k \notin S /\ T = S \cup {k} /\ f \in [S -> Int]
      BY <1>1, <3>1, FinitelyMany, Moved
    <3>3. g[k] = postings[x] /\ postings[x] \in Int
      <4>1. escrowPostings(row'[k])[x] = postings[x]
        BY <1>2, SameEntries
      <4>2. postings[x] \in Int
        BY Integers, StakesAssumption
      <4> QED
        BY <3>1, <3>2, <4>1, <4>2
    <3>4. \A j \in S : g[j] = f[j]
      <4>1. \A j \in S : escrowPostings(row'[j])[x] = escrowPostings(row[j])[x]
        BY <3>1, MovedSame DEF Phase
      <4> QED
        BY <3>1, <3>2, <4>1
    <3>5. g \in [T -> Int]
      BY <3>1, <3>2, <3>3, <3>4
    <3>6. SumFunction(g) = SumFunction(f) + g[k]
      BY <3>2, <3>4, <3>5, OneMore
    <3>7. SumFunction(f) = escrowed(x) /\ SumFunction(g) = escrowed(x)'
      BY <3>1 DEF escrowed
    <3> QED
      BY <3>3, <3>6, <3>7
  <2>4. bal'[x] = bal[x] + postings[x] /\ bal[x] = InitialBalance[x] + escrowed(x) + refunded(x) + paidOut(x)
    BY DEF Booked
  <2> QED
    BY <2>1, <2>2, <2>3, <2>4, Totals
<1> QED
  BY <1>3 DEF Booked

\* An entry that gives one back.
LEMMA BookedRefund ==
  ASSUME Types, Stakes, Booked, Stable, NEW k \in Stake, row[k] \in Row, k \notin entries["refund"],
         entries' = [entries EXCEPT !["refund"] = @ \cup {k}], NEW postings,
         bal' = [x \in Account |-> bal[x] + postings[x]],
         postings = refundPostings(row[k]), \A j \in entries["payout"] : credited'[j] = credited[j]
  PROVE  Booked'
PROOF
<1>1. /\ entries'["refund"] = entries["refund"] \cup {k}
      /\ entries'["escrow"] = entries["escrow"] /\ entries'["payout"] = entries["payout"]
  BY DEF Types, Phase
<1>2. row'[k] \in Row /\ SameTerms(row[k], row'[k])
  BY TermsStay
<1>3. ASSUME NEW x \in Account
      PROVE  bal'[x] = InitialBalance[x] + escrowed(x)' + refunded(x)' + paidOut(x)'
  <2>1. escrowed(x)' = escrowed(x)
    <3>1. \A j \in entries["escrow"] : escrowPostings(row'[j])[x] = escrowPostings(row[j])[x]
      BY MovedSame DEF Phase
    <3>2. [j \in entries'["escrow"] |-> escrowPostings(row'[j])[x]]
            = [j \in entries["escrow"] |-> escrowPostings(row[j])[x]]
      BY <1>1, <3>1
    <3> QED
      BY <3>2 DEF escrowed
  <2>2. paidOut(x)' = paidOut(x)
    <3>1. \A j \in entries["payout"] : poolPayoutPostings(row'[j], credited'[j])[x] = poolPayoutPostings(row[j], credited[j])[x]
      BY MovedSame DEF Phase
    <3>2. [j \in entries'["payout"] |-> poolPayoutPostings(row'[j], credited'[j])[x]]
            = [j \in entries["payout"] |-> poolPayoutPostings(row[j], credited[j])[x]]
      BY <1>1, <3>1
    <3> QED
      BY <3>2 DEF paidOut
  <2>3. refunded(x)' = refunded(x) + postings[x] /\ postings[x] \in Int
    <3>1. PICK S, T, f, g : /\ S = entries["refund"] /\ T = entries'["refund"]
                            /\ f = [j \in S |-> refundPostings(row[j])[x]]
                            /\ g = [j \in T |-> refundPostings(row'[j])[x]]
      OBVIOUS
    <3>2. IsFiniteSet(S) /\ k \notin S /\ T = S \cup {k} /\ f \in [S -> Int]
      BY <1>1, <3>1, FinitelyMany, Moved
    <3>3. g[k] = postings[x] /\ postings[x] \in Int
      <4>1. refundPostings(row'[k])[x] = postings[x]
        BY <1>2, SameEntries
      <4>2. postings[x] \in Int
        BY Integers, StakesAssumption
      <4> QED
        BY <3>1, <3>2, <4>1, <4>2
    <3>4. \A j \in S : g[j] = f[j]
      <4>1. \A j \in S : refundPostings(row'[j])[x] = refundPostings(row[j])[x]
        BY <3>1, MovedSame DEF Phase
      <4> QED
        BY <3>1, <3>2, <4>1
    <3>5. g \in [T -> Int]
      BY <3>1, <3>2, <3>3, <3>4
    <3>6. SumFunction(g) = SumFunction(f) + g[k]
      BY <3>2, <3>4, <3>5, OneMore
    <3>7. SumFunction(f) = refunded(x) /\ SumFunction(g) = refunded(x)'
      BY <3>1 DEF refunded
    <3> QED
      BY <3>3, <3>6, <3>7
  <2>4. bal'[x] = bal[x] + postings[x] /\ bal[x] = InitialBalance[x] + escrowed(x) + refunded(x) + paidOut(x)
    BY DEF Booked
  <2> QED
    BY <2>1, <2>2, <2>3, <2>4, Totals
<1> QED
  BY <1>3 DEF Booked

\* An entry that pays a winner, or takes a loser's stake.
LEMMA BookedPayout ==
  ASSUME Types, Stakes, Booked, Stable, NEW k \in Stake, row[k] \in Row, k \notin entries["payout"],
         entries' = [entries EXCEPT !["payout"] = @ \cup {k}], NEW postings,
         bal' = [x \in Account |-> bal[x] + postings[x]],
         credited'[k] \in Nat, postings = poolPayoutPostings(row[k], credited'[k]),
         \A j \in entries["payout"] : credited'[j] = credited[j]
  PROVE  Booked'
PROOF
<1>1. /\ entries'["payout"] = entries["payout"] \cup {k}
      /\ entries'["escrow"] = entries["escrow"] /\ entries'["refund"] = entries["refund"]
  BY DEF Types, Phase
<1>2. row'[k] \in Row /\ SameTerms(row[k], row'[k])
  BY TermsStay
<1>3. ASSUME NEW x \in Account
      PROVE  bal'[x] = InitialBalance[x] + escrowed(x)' + refunded(x)' + paidOut(x)'
  <2>1. escrowed(x)' = escrowed(x)
    <3>1. \A j \in entries["escrow"] : escrowPostings(row'[j])[x] = escrowPostings(row[j])[x]
      BY MovedSame DEF Phase
    <3>2. [j \in entries'["escrow"] |-> escrowPostings(row'[j])[x]]
            = [j \in entries["escrow"] |-> escrowPostings(row[j])[x]]
      BY <1>1, <3>1
    <3> QED
      BY <3>2 DEF escrowed
  <2>2. refunded(x)' = refunded(x)
    <3>1. \A j \in entries["refund"] : refundPostings(row'[j])[x] = refundPostings(row[j])[x]
      BY MovedSame DEF Phase
    <3>2. [j \in entries'["refund"] |-> refundPostings(row'[j])[x]]
            = [j \in entries["refund"] |-> refundPostings(row[j])[x]]
      BY <1>1, <3>1
    <3> QED
      BY <3>2 DEF refunded
  <2>3. paidOut(x)' = paidOut(x) + postings[x] /\ postings[x] \in Int
    <3>1. PICK S, T, f, g : /\ S = entries["payout"] /\ T = entries'["payout"]
                            /\ f = [j \in S |-> poolPayoutPostings(row[j], credited[j])[x]]
                            /\ g = [j \in T |-> poolPayoutPostings(row'[j], credited'[j])[x]]
      OBVIOUS
    <3>2. IsFiniteSet(S) /\ k \notin S /\ T = S \cup {k} /\ f \in [S -> Int]
      BY <1>1, <3>1, FinitelyMany, Moved
    <3>3. g[k] = postings[x] /\ postings[x] \in Int
      <4>1. poolPayoutPostings(row'[k], credited'[k]) = poolPayoutPostings(row[k], credited'[k])
        BY <1>2, SameEntries
      <4>2. postings[x] \in Int
        BY Integers, StakesAssumption
      <4> QED
        BY <3>1, <3>2, <4>1, <4>2
    <3>4. \A j \in S : g[j] = f[j]
      <4>1. \A j \in S : poolPayoutPostings(row'[j], credited'[j])[x] = poolPayoutPostings(row[j], credited[j])[x]
        <5>1. \A j \in S : /\ credited'[j] = credited[j]
                           /\ poolPayoutPostings(row'[j], credited[j]) = poolPayoutPostings(row[j], credited[j])
          BY <3>1, MovedSame DEF Phase
        <5> QED
          BY <5>1
      <4> QED
        BY <3>1, <3>2, <4>1
    <3>5. g \in [T -> Int]
      BY <3>1, <3>2, <3>3, <3>4
    <3>6. SumFunction(g) = SumFunction(f) + g[k]
      BY <3>2, <3>4, <3>5, OneMore
    <3>7. SumFunction(f) = paidOut(x) /\ SumFunction(g) = paidOut(x)'
      BY <3>1 DEF paidOut
    <3> QED
      BY <3>3, <3>6, <3>7
  <2>4. bal'[x] = bal[x] + postings[x] /\ bal[x] = InitialBalance[x] + escrowed(x) + refunded(x) + paidOut(x)
    BY DEF Booked
  <2> QED
    BY <2>1, <2>2, <2>3, <2>4, Totals
<1> QED
  BY <1>3 DEF Booked

------------------------------------------------------------------------------
(* What a step has to show.                                                *)

\* What a row says of the ledger is so.
MarkSound(k) ==
  /\ row[k].state = "refunded" => k \in entries["refund"]
  /\ row[k].state = "paid" => k \in entries["payout"]
  /\ row[k].state # "none" /\ row[k].escrowed => k \in entries["escrow"]

\* A step is not about k.
Spared(k) ==
  /\ request'[k] = request[k] /\ row'[k] = row[k]
  /\ \A phase \in Phase : k \in entries'[phase] => k \in entries[phase]

\* What was paid stays paid.
LEMMA PaidStays ==
  ASSUME Types, Stable, NEW k \in Stake, StakeSound(k), PaidSound(k),
         k \in entries'["payout"] => k \in entries["payout"] /\ credited'[k] = credited[k]
  PROVE  PaidSound(k)'
PROOF
<1>1. CASE k \notin entries'["payout"]
  BY <1>1 DEF PaidSound
<1>2. CASE k \in entries'["payout"]
  <2>1. row[k] \in Row /\ k \in entries["payout"] /\ credited'[k] = credited[k]
    BY <1>2 DEF StakeSound, Phase
  <2>2. row'[k] \in Row /\ SameTerms(row[k], row'[k])
    BY <2>1, TermsStay
  <2>3. row[k].market \in Market /\ market[row[k].market].status = "resolved"
    BY <2>1, RowOrNone DEF PaidSound
  <2>4. market'[row[k].market] = market[row[k].market]
    BY <2>3 DEF Stable, over
  <2> QED
    BY <2>1, <2>2, <2>3, <2>4 DEF PaidSound, SameTerms
<1> QED
  BY <1>1, <1>2

\* A stake the step is not about is as sound as it was.
LEMMA SparedSound ==
  ASSUME Types, Stable, NEW k \in Stake, StakeSound(k), MarkSound(k), Spared(k)
  PROVE  StakeSound(k)' /\ MarkSound(k)'
PROOF
<1>1. \A phase \in Phase : k \in entries'[phase] <=> k \in entries[phase]
  BY DEF Spared, Stable
<1> QED
  BY <1>1 DEF Spared, StakeSound, MarkSound, Phase

\* The invariant after a step, by the stakes it is about, the passes and the books.
LEMMA Assembled ==
  ASSUME IInv, Stable, Types', Solvent', Claimed', Passes', Booked',
         \A k \in Stake : k \in entries'["payout"] =>
           PaidSound(k)' \/ (k \in entries["payout"] /\ credited'[k] = credited[k]),
         \A k \in Stake : Spared(k) \/ (StakeSound(k)' /\ MarkSound(k)')
  PROVE  IInv'
PROOF
<1>1. \A k \in Stake : StakeSound(k) /\ PaidSound(k) /\ MarkSound(k)
  BY DEF IInv, Stakes, MarkedRowsHaveEntries, MarkSound
<1>2. Types
  BY DEF IInv
<1>3. ASSUME NEW k \in Stake
      PROVE  StakeSound(k)' /\ MarkSound(k)'
  BY <1>1, <1>2, SparedSound
<1>4. ASSUME NEW k \in Stake
      PROVE  PaidSound(k)'
  <2>1. CASE k \in entries'["payout"] => k \in entries["payout"] /\ credited'[k] = credited[k]
    BY <1>1, <1>2, <2>1, PaidStays
  <2> QED
    BY <2>1
<1>5. Stakes'
  BY <1>3, <1>4 DEF Stakes
<1>6. MarkedRowsHaveEntries'
  BY <1>3 DEF MarkedRowsHaveEntries, MarkSound
<1> QED
  BY <1>5, <1>6 DEF IInv

\* A step that enters nothing has shown the books and the payouts already.
LEMMA NothingEntered ==
  ASSUME IInv, Stable, Types', Claimed', Passes', UNCHANGED <<entries, credited, bal>>,
         \A k \in Stake : Spared(k) \/ (StakeSound(k)' /\ MarkSound(k)')
  PROVE  IInv'
PROOF
<1>1. Solvent'
  BY DEF IInv, Solvent
<1>2. Booked'
  BY BookedStays DEF IInv
<1> QED
  BY <1>1, <1>2, Assembled

\* And one that leaves rows and requests alone has only its pass to show.
LEMMA RowsRest ==
  ASSUME IInv, Types', Claimed', Passes', UNCHANGED <<entries, credited, bal, row, request, market>>
  PROVE  Stable /\ IInv'
PROOF
<1>1. Stable
  BY DEF Stable, Moves
<1>2. \A k \in Stake : Spared(k)
  BY DEF Spared
<1> QED
  BY <1>1, <1>2, NothingEntered

------------------------------------------------------------------------------
(* The steps of a market and of a request.                                 *)

\* A market that is over has no more steps, and the others nobody has taken up.
LEMMA MarketKeeps ==
  ASSUME IInv, marketStep
  PROVE  Stable /\ IInv'
PROOF
<1>1. UNCHANGED <<row, request, entries, credited, bal, job, holder, attempts, faults>>
  BY DEF marketStep, closeMarket, voidMarket, markResolved, ledger, runner
<1>2. PICK m \in Market : closeMarket(m) \/ voidMarket(m) \/ \E o \in 0..1 : markResolved(m, o)
  BY DEF marketStep
<1>3. market \in [Market -> [status : Status, outcome : 0..1]] /\ Types
  BY DEF IInv, Types
<1>4. PICK now \in [status : Status, outcome : 0..1] : market' = [market EXCEPT ![m] = now] /\ ~ over(m)
  <2>1. CASE closeMarket(m)
    BY <1>3, <2>1 DEF closeMarket, over, Status
  <2>2. CASE voidMarket(m)
    BY <1>3, <2>2 DEF voidMarket, over, Status
  <2>3. ASSUME NEW o \in 0..1, markResolved(m, o)
        PROVE  \E now \in [status : Status, outcome : 0..1] :
                 market' = [market EXCEPT ![m] = now] /\ ~ over(m)
    <3>1. [status |-> "resolved", outcome |-> o] \in [status : Status, outcome : 0..1]
      BY DEF Status
    <3> QED
      BY <2>3, <3>1 DEF markResolved, over
  <2> QED
    BY <1>2, <2>1, <2>2, <2>3
<1>5. market' \in [Market -> [status : Status, outcome : 0..1]]
      /\ \A n \in Market : over(n) => market'[n] = market[n]
  BY <1>3, <1>4
<1>6. Types'
  BY <1>1, <1>3, <1>5 DEF Types
<1>7. Stable
  BY <1>1, <1>5 DEF Stable, Moves
<1>8. Passes' /\ Claimed'
  BY <1>1, <1>3, <1>7, PassesRest DEF IInv, Claimed
<1>9. \A k \in Stake : Spared(k)
  BY <1>1 DEF Spared
<1> QED
  BY <1>1, <1>6, <1>7, <1>8, <1>9, NothingEntered

\* A stake is asked for once.
LEMMA AcceptKeeps ==
  ASSUME IInv, NEW k \in Stake, NEW t \in Term, acceptStake(k, t)
  PROVE  Stable /\ IInv'
PROOF
<1>1. /\ request[k] = "none" /\ request' = [request EXCEPT ![k] = "posting"]
      /\ UNCHANGED <<market, entries, credited, bal, job, holder, attempts, faults>>
  BY DEF acceptStake, ledger, runner
<1>2. PICK new \in Row : row' = [row EXCEPT ![k] = new] /\ new.state = "accepted" /\ new.escrowed = FALSE
  <2>1. PICK new : /\ row' = [row EXCEPT ![k] = new]
                   /\ new = [market |-> t.market, subject |-> t.subject, outcome |-> t.outcome,
                             asset |-> t.asset, stakeAmount |-> t.stakeAmount,
                             poolAmount |-> t.poolAmount, state |-> "accepted", escrowed |-> FALSE]
    BY DEF acceptStake
  <2>2. t.stakeAmount \in Nat /\ t.poolAmount \in Nat
    BY StakesAssumption DEF Term, StakesAssumption
  <2>3. new \in Row
    BY <2>1, <2>2 DEF Term, Row, RowState
  <2> QED
    BY <2>1, <2>3
<1>3. Types /\ StakeSound(k)
  BY DEF IInv, Stakes
<1>4. row[k] = NoRow /\ \A phase \in Phase : k \notin entries[phase]
  BY <1>1, <1>3, RowOrNone DEF StakeSound
<1>5. /\ row' \in [Stake -> Row \cup {NoRow}]
      /\ \A j \in Stake : Moves(row[j], row'[j]) /\ (j # k => row'[j] = row[j])
      /\ row'[k] = new
  BY <1>2, <1>3, <1>4, RowMoves DEF Moves
<1>6. request' \in [Stake -> RequestState] /\ request'[k] = "posting"
      /\ \A j \in Stake : j # k => request'[j] = request[j]
  BY <1>1, <1>3 DEF Types, RequestState
<1>7. Types'
  BY <1>1, <1>3, <1>5, <1>6 DEF Types
<1>8. Stable
  BY <1>1, <1>5 DEF Stable
<1>9. Passes' /\ Claimed'
  BY <1>1, <1>3, <1>8, PassesRest DEF IInv, Claimed
<1>10. StakeSound(k)' /\ MarkSound(k)'
  BY <1>1, <1>2, <1>4, <1>5, <1>6 DEF StakeSound, MarkSound, Phase
<1>11. \A j \in Stake : j # k => Spared(j)
  BY <1>1, <1>5, <1>6 DEF Spared
<1> QED
  BY <1>1, <1>7, <1>8, <1>9, <1>10, <1>11, NothingEntered

\* The id on the row is of an entry the request was told of.
LEMMA RecordKeeps ==
  ASSUME IInv, NEW k \in Stake, recordEscrowEntry(k)
  PROVE  Stable /\ IInv'
PROOF
<1>1. /\ request[k] = "recording"
      /\ UNCHANGED <<market, entries, credited, bal, job, holder, attempts, faults>>
  BY DEF recordEscrowEntry, ledger, runner
<1>2. PICK now \in {"done", "failed"} : request' = [request EXCEPT ![k] = now]
  BY DEF recordEscrowEntry
<1>3. Types /\ StakeSound(k) /\ MarkSound(k)
  BY DEF IInv, Stakes, MarkedRowsHaveEntries, MarkSound
<1>4. row[k] \in Row /\ k \in entries["escrow"]
  BY <1>1, <1>3 DEF StakeSound
<1>5. /\ row' \in [Stake -> Row \cup {NoRow}]
      /\ \A j \in Stake : Moves(row[j], row'[j]) /\ (j # k => row'[j] = row[j])
      /\ row'[k] \in Row
      /\ row'[k].state = row[k].state
  <2>1. CASE row' = row
    BY <1>3, <1>4, <2>1 DEF Types, Moves
  <2>2. CASE row[k].state = "accepted" /\ row' = [row EXCEPT ![k].escrowed = TRUE]
    BY <1>3, <2>2, Recorded
  <2> QED
    BY <2>1, <2>2 DEF recordEscrowEntry
<1>6. request' \in [Stake -> RequestState] /\ request'[k] = now
      /\ \A j \in Stake : j # k => request'[j] = request[j]
  BY <1>2, <1>3 DEF Types, RequestState
<1>7. Types'
  BY <1>1, <1>3, <1>5, <1>6 DEF Types
<1>8. Stable
  BY <1>1, <1>5 DEF Stable
<1>9. Passes' /\ Claimed'
  BY <1>1, <1>3, <1>8, PassesRest DEF IInv, Claimed
<1>10. StakeSound(k)' /\ MarkSound(k)'
  BY <1>1, <1>3, <1>4, <1>5, <1>6 DEF StakeSound, MarkSound, Phase
<1>11. \A j \in Stake : j # k => Spared(j)
  BY <1>1, <1>5, <1>6 DEF Spared
<1> QED
  BY <1>1, <1>7, <1>8, <1>9, <1>10, <1>11, NothingEntered

\* A request that dies remembers nothing.
LEMMA CrashedRequestKeeps ==
  ASSUME IInv, NEW k \in Stake, crashRequest(k)
  PROVE  Stable /\ IInv'
PROOF
<1>1. /\ request[k] \in {"posting", "recording"} /\ request' = [request EXCEPT ![k] = "failed"]
      /\ fault
      /\ UNCHANGED <<market, row, entries, credited, bal, job, holder, attempts>>
  BY DEF crashRequest, inFlight, ledger, runner
<1>2. Types /\ StakeSound(k) /\ MarkSound(k)
  BY DEF IInv, Stakes, MarkedRowsHaveEntries, MarkSound
<1>3. faults' \in 0..MaxFaults
  <2>1. faults \in 0..MaxFaults /\ MaxFaults \in Nat
    BY <1>2, StakesAssumption DEF Types, StakesAssumption
  <2> QED
    BY <1>1, <2>1 DEF fault
<1>4. request' \in [Stake -> RequestState] /\ request'[k] = "failed"
      /\ \A j \in Stake : j # k => request'[j] = request[j]
  BY <1>1, <1>2 DEF Types, RequestState
<1>5. Types'
  BY <1>1, <1>2, <1>3, <1>4 DEF Types
<1>6. Stable
  BY <1>1 DEF Stable, Moves
<1>7. Passes' /\ Claimed'
  BY <1>1, <1>2, <1>6, PassesRest DEF IInv, Claimed
<1>8. StakeSound(k)' /\ MarkSound(k)'
  BY <1>1, <1>2, <1>4 DEF StakeSound, MarkSound, Phase
<1>9. \A j \in Stake : j # k => Spared(j)
  BY <1>1, <1>4 DEF Spared
<1> QED
  BY <1>1, <1>5, <1>6, <1>7, <1>8, <1>9, NothingEntered

\* The entry is posted under the request's own key, once; a refused one leaves a row
\* that is deleted only if it is accepted still.
LEMMA PostKeeps ==
  ASSUME IInv, NEW k \in Stake, postEscrow(k)
  PROVE  Stable /\ IInv'
PROOF
<1>1. PICK recorded \in BOOLEAN, answer \in Answer :
        /\ postEntry(FALSE, escrowPostings(row[k]), recorded, answer)
        /\ entries' = [entries EXCEPT !.escrow = IF recorded THEN @ \cup {k} ELSE @]
        /\ request' = [request EXCEPT ![k] = IF answer = "ok" THEN "recording" ELSE "failed"]
        /\ row' = IF answer = "refused" THEN afterRefusal(k) ELSE row
  BY DEF postEscrow
<1>2. request[k] = "posting" /\ UNCHANGED <<market, credited, job, holder, attempts>>
  BY DEF postEscrow, runner
<1>3. Types /\ Stakes /\ StakeSound(k) /\ MarkSound(k) /\ Solvent /\ Booked
  BY DEF IInv, Stakes, MarkedRowsHaveEntries, MarkSound
<1>4. row[k] \in Row /\ k \notin entries["escrow"] /\ "escrow" \in Phase
  BY <1>2, <1>3 DEF StakeSound, Phase
<1>5. escrowPostings(row[k]) \in [Account -> Int]
  BY <1>4, Integers
<1>6. entries' = IF recorded THEN [entries EXCEPT !["escrow"] = @ \cup {k}] ELSE entries
  BY <1>1, <1>3 DEF Types
<1>7. /\ Entered("escrow", k, escrowPostings(row[k]))
      /\ answer = "ok" => k \in entries'["escrow"]
      /\ answer = "refused" => UNCHANGED <<bal, entries>>
      /\ faults' \in 0..MaxFaults
  <2>1. PICK used \in BOOLEAN : (used <=> k \in entries["escrow"]) /\ used = FALSE
    BY <1>4
  <2>2. postEntry(used, escrowPostings(row[k]), recorded, answer)
    BY <1>1, <2>1 DEF postEntry
  <2> QED
    BY <1>3, <1>4, <1>5, <1>6, <2>1, <2>2, Posted
<1>8. /\ row' \in [Stake -> Row \cup {NoRow}]
      /\ \A j \in Stake : Moves(row[j], row'[j]) /\ (j # k => row'[j] = row[j])
      /\ row'[k] \in Row /\ row'[k].escrowed = row[k].escrowed
      /\ row'[k].state \in {row[k].state, "deleted"}
  <2>1. CASE row' = row
    BY <1>3, <1>4, <2>1 DEF Types, Moves
  <2>2. CASE row[k].state = "accepted" /\ row' = [row EXCEPT ![k].state = "deleted"]
    BY <1>3, <2>2, Marked
  <2> QED
    BY <1>1, <2>1, <2>2 DEF afterRefusal
<1>9. /\ request' \in [Stake -> RequestState]
      /\ request'[k] = IF answer = "ok" THEN "recording" ELSE "failed"
      /\ \A j \in Stake : j # k => request'[j] = request[j]
  BY <1>1, <1>3 DEF Types, RequestState
<1>10. /\ entries' \in [Phase -> SUBSET Stake]
       /\ \A phase \in Phase : /\ entries[phase] \subseteq entries'[phase]
                               /\ \A j \in Stake : j # k => (j \in entries'[phase] => j \in entries[phase])
       /\ \A phase \in Phase : phase # "escrow" => entries'[phase] = entries[phase]
  BY <1>3, <1>6 DEF Types
<1>11. bal' \in [Account -> Int]
  BY <1>3, <1>5, <1>7 DEF Entered, Types
<1>12. Types'
  BY <1>2, <1>3, <1>7, <1>8, <1>9, <1>10, <1>11 DEF Types
<1>13. Stable
  BY <1>2, <1>8, <1>10 DEF Stable
<1>14. Passes' /\ Claimed'
  BY <1>2, <1>3, <1>13, PassesRest DEF IInv, Claimed
<1>15. Solvent'
  <2>1. \A x \in UserAccount : x \in Account
    BY DEF Account
  <2> QED
    BY <1>3, <1>7, <2>1 DEF Entered, Solvent
<1>16. Booked'
  <2>1. CASE UNCHANGED <<bal, entries>>
    BY <1>2, <1>3, <1>13, <2>1, BookedStays
  <2>2. CASE ~ UNCHANGED <<bal, entries>>
    BY <1>2, <1>3, <1>4, <1>7, <1>13, <2>2, BookedEscrow DEF Entered
  <2> QED
    BY <2>1, <2>2
<1>17. StakeSound(k)' /\ MarkSound(k)'
  <2>1. \A phase \in Phase : k \in entries[phase] => k \in entries'[phase]
    BY <1>10
  <2>2. StakeSound(k)'
    BY <1>4, <1>7, <1>8, <1>9 DEF StakeSound
  <2>3. MarkSound(k)'
    BY <1>3, <1>4, <1>8, <2>1, RowOrNone DEF MarkSound, Phase
  <2> QED
    BY <2>2, <2>3
<1>18. \A j \in Stake : j # k => Spared(j)
  BY <1>8, <1>9, <1>10 DEF Spared
<1>19. \A j \in Stake : j \in entries'["payout"] => j \in entries["payout"] /\ credited'[j] = credited[j]
  BY <1>2, <1>10 DEF Phase
<1> QED
  BY <1>12, <1>13, <1>14, <1>15, <1>16, <1>17, <1>18, <1>19, Assembled

------------------------------------------------------------------------------
(* The steps of a pass.                                                    *)

\* A row that is there is of a market; those of one market are numbered.
LEMMA RowsOfMarket ==
  ASSUME Types, NEW m
  PROVE  /\ unresolvedStakes(m) \in SUBSET rowsOf(m) /\ rowsOf(m) \in SUBSET Stake
         /\ IsFiniteSet(rowsOf(m)) /\ rowsOf(m) \in SUBSET Int
         /\ IsFiniteSet(unresolvedStakes(m)) /\ unresolvedStakes(m) \in SUBSET Int
         /\ \A k \in rowsOf(m) : /\ row[k] \in Row /\ row[k].market = m /\ row[k].state # "deleted"
                                 /\ row[k].poolAmount \in Nat
PROOF
<1>1. unresolvedStakes(m) \in SUBSET rowsOf(m) /\ rowsOf(m) \in SUBSET Stake
  BY DEF unresolvedStakes, rowsOf
<1>2. \A k \in rowsOf(m) : row[k] \in Row /\ row[k].market = m /\ row[k].state # "deleted"
  BY RowOrNone DEF Types, rowsOf
<1>3. unresolvedStakes(m) \in SUBSET Stake
  BY <1>1
<1> QED
  BY <1>1, <1>2, <1>3, Numbered, RowOrNone

\* A pool is divided among its winners, if there are any, and to the unit.
LEMMA Divided ==
  ASSUME Types, NEW m, NEW S, S = unresolvedStakes(m), NEW p, p = payoutsOf(m)
  PROVE  /\ p \in Payouts
         /\ \A k \in DOMAIN p : /\ k \in S /\ row[k].outcome = market[m].outcome
                                /\ p[k] \in Nat /\ p[k] >= row[k].poolAmount
         /\ DOMAIN p # {} => \A k \in S : row[k].outcome = market[m].outcome => k \in DOMAIN p
         /\ DOMAIN p # {} => SumFunction(p) = poolOf(S, [k \in S |-> row[k].poolAmount])
PROOF
<1> PICK amount, outcome, w : /\ amount = [k \in S |-> row[k].poolAmount]
                              /\ outcome = [k \in S |-> row[k].outcome]
                              /\ w = market[m].outcome
  OBVIOUS
<1>1. p = splitPayouts(S, amount, outcome, w)
  BY DEF payoutsOf
<1>2. /\ S \in SUBSET Int /\ IsFiniteSet(S) /\ S \in SUBSET Stake
      /\ \A s \in S : amount[s] \in Nat
  BY RowsOfMarket
<1>3. DOMAIN p \in SUBSET S /\ p \in [DOMAIN p -> Nat]
  BY <1>1, <1>2, PayoutsType
<1>4. p \in Payouts
  <2>1. DOMAIN p \in SUBSET Stake
    BY <1>2, <1>3
  <2> QED
    BY <1>3, <2>1 DEF Payouts
<1>5. ASSUME NEW k \in DOMAIN p
      PROVE  k \in S /\ outcome[k] = w /\ p[k] \in Nat /\ p[k] >= amount[k]
  BY <1>1, <1>2, WinnersArePaid
<1>6. ASSUME DOMAIN p # {}
      PROVE  /\ \A k \in S : outcome[k] = w => k \in DOMAIN p
             /\ SumFunction(p) = poolOf(S, amount)
  <2>1. DOMAIN p = winnersOf(S, outcome, w)
    BY <1>1, <1>2, <1>6, AllWinnersArePaid
  <2>2. ExactSplit(S, amount, outcome, w)
    BY <1>2, SplitIsExact
  <2> QED
    BY <1>1, <1>6, <2>1, <2>2 DEF ExactSplit, winnersOf
<1> QED
  BY <1>4, <1>5, <1>6

\* A pass with a field or two replaced.
LEMMA Refielded ==
  ASSUME NEW p \in Pass, NEW m
  PROVE  /\ [p EXCEPT !.due = @ \ {m}] \in Pass /\ [p EXCEPT !.due = @ \ {m}].pc = p.pc
         /\ [p EXCEPT !.due = @ \ {m}].due = p.due \ {m}
         /\ [p EXCEPT !.pc = "mark"] = [pc |-> "mark", due |-> p.due, todo |-> p.todo,
                                        refundAll |-> p.refundAll, payouts |-> p.payouts]
         /\ [p EXCEPT !.pc = "mark"] \in Pass
         /\ [p EXCEPT !.pc = "post", !.todo = @ \ {m}]
              = [pc |-> "post", due |-> p.due, todo |-> p.todo \ {m},
                 refundAll |-> p.refundAll, payouts |-> p.payouts]
         /\ [p EXCEPT !.pc = "post", !.todo = @ \ {m}] \in Pass
PROOF
<1>1. /\ p = [pc |-> p.pc, due |-> p.due, todo |-> p.todo, refundAll |-> p.refundAll,
              payouts |-> p.payouts]
      /\ p.pc \in {"idle", "pick", "post", "mark"} /\ p.due \in SUBSET Market /\ p.todo \in SUBSET Stake
      /\ p.refundAll \in BOOLEAN /\ p.payouts \in Payouts
  BY DEF Pass
<1>2. PICK r : r = [p EXCEPT !.due = @ \ {m}]
  OBVIOUS
<1>3. r = [pc |-> p.pc, due |-> p.due \ {m}, todo |-> p.todo, refundAll |-> p.refundAll,
           payouts |-> p.payouts]
  BY <1>1, <1>2
<1>4. r \in Pass /\ r.pc = p.pc /\ r.due = p.due \ {m}
  BY <1>1, <1>3 DEF Pass
<1>5. PICK s : s = [p EXCEPT !.pc = "mark"]
  OBVIOUS
<1>6. s = [pc |-> "mark", due |-> p.due, todo |-> p.todo, refundAll |-> p.refundAll,
           payouts |-> p.payouts]
  BY <1>1, <1>5
<1>7. s \in Pass
  BY <1>1, <1>6 DEF Pass
<1>8. PICK t : t = [p EXCEPT !.pc = "post", !.todo = @ \ {m}]
  OBVIOUS
<1>9. t = [pc |-> "post", due |-> p.due, todo |-> p.todo \ {m}, refundAll |-> p.refundAll,
           payouts |-> p.payouts]
  BY <1>1, <1>8
<1>10. t \in Pass
  BY <1>1, <1>9 DEF Pass
<1> QED
  BY <1>2, <1>4, <1>5, <1>6, <1>7, <1>8, <1>9, <1>10

\* A step of a pass that touches neither rows nor the ledger.
LEMMA PassGoes ==
  ASSUME IInv, NEW w \in Worker, NEW p \in Pass, PassSound(p), job' = [job EXCEPT ![w] = p],
         UNCHANGED <<market, row, request, entries, credited, bal>>,
         holder' \in Worker \cup {NoWorker}, attempts' \in 0..MaxAttempts, faults' \in 0..MaxFaults,
         Claimed'
  PROVE  Stable /\ IInv'
PROOF
<1>1. Types /\ Passes
  BY DEF IInv
<1>2. Stable
  BY DEF Stable, Moves
<1>3. PassSound(p)'
  BY <1>1, <1>2, PassStays
<1>4. job' \in [Worker -> Pass] /\ Passes'
  BY <1>1, <1>2, <1>3, PassesStay
<1>5. Types'
  BY <1>1, <1>4 DEF Types
<1> QED
  BY <1>4, <1>5, RowsRest

\* However a run ends, the runner is fit for another.
LEMMA EndTypes ==
  ASSUME Types, Claimed, NEW w \in Worker, complete(w) \/ throw(w)
  PROVE  /\ job' = [job EXCEPT ![w] = Idle]
         /\ holder' \in Worker \cup {NoWorker} /\ attempts' \in 0..MaxAttempts /\ Claimed'
PROOF
<1>1. /\ holder \in Worker \cup {NoWorker} /\ attempts \in 0..MaxAttempts /\ MaxAttempts \in Nat
      /\ attempts \in Nat /\ NoWorker \notin Worker
  BY StakesAssumption DEF Types, StakesAssumption
<1>2. CASE complete(w)
  BY <1>1, <1>2 DEF complete, Claimed
<1>3. CASE throw(w)
  <2>1. CASE holder = w
    <3>1. attempts < MaxAttempts
      BY <1>1, <2>1 DEF Claimed
    <3>2. holder' = NoWorker /\ attempts' = attempts + 1 /\ job' = [job EXCEPT ![w] = Idle]
      BY <1>3, <2>1 DEF throw
    <3> QED
      BY <1>1, <3>1, <3>2 DEF Claimed
  <2>2. CASE holder # w
    BY <1>1, <1>3, <2>2 DEF throw, Claimed
  <2> QED
    BY <2>1, <2>2
<1> QED
  BY <1>2, <1>3

\* A pass takes up the markets that are due.
LEMMA StartKeeps ==
  ASSUME IInv, NEW w \in Worker, startPass(w)
  PROVE  Stable /\ IInv'
PROOF
<1>1. /\ UNCHANGED <<market, row, request, entries, credited, bal, attempts, faults>>
      /\ holder' = w /\ attempts < MaxAttempts
  BY DEF startPass, ledger
<1>2. PICK p : /\ p = [Idle EXCEPT !.pc = "pick", !.due = marketsAwaitingCustodialSettlement]
               /\ job' = [job EXCEPT ![w] = p]
  BY DEF startPass
<1>3. p = [pc |-> "pick", due |-> marketsAwaitingCustodialSettlement, todo |-> {},
           refundAll |-> FALSE, payouts |-> << >>]
  BY <1>2 DEF Idle
<1>4. marketsAwaitingCustodialSettlement \in SUBSET Market
      /\ \A m \in marketsAwaitingCustodialSettlement : over(m)
  BY DEF marketsAwaitingCustodialSettlement
<1>5. << >> \in Payouts
  BY IdlePass DEF Pass, Idle
<1>6. p \in Pass
  BY <1>3, <1>4, <1>5 DEF Pass
<1>7. PassSound(p)
  BY <1>3, <1>4 DEF PassSound
<1>8. /\ holder' \in Worker \cup {NoWorker} /\ attempts' \in 0..MaxAttempts /\ faults' \in 0..MaxFaults
      /\ Claimed'
  BY <1>1 DEF IInv, Types, Claimed
<1> QED
  BY <1>1, <1>2, <1>6, <1>7, <1>8, PassGoes

\* A pass that takes up a market has divided its pool.
LEMMA PickSound ==
  ASSUME IInv, NEW w \in Worker, pickMarket(w), job[w].due # {}
  PROVE  \E p \in Pass : job' = [job EXCEPT ![w] = p] /\ PassSound(p)
PROOF
<1> DEFINE m == nextDue(w)
           S == unresolvedStakes(m)
           payouts == IF market[m].status = "void" THEN [k \in {} |-> 0] ELSE payoutsOf(m)
           refundAll == DOMAIN payouts = {}
<1>1. /\ job[w].pc = "pick"
      /\ job' = [job EXCEPT ![w] =
                   IF S = {} THEN [job[w] EXCEPT !.due = @ \ {m}]
                   ELSE [job[w] EXCEPT !.pc = "post", !.todo = S, !.refundAll = refundAll,
                                       !.payouts = payouts]]
  BY DEF pickMarket
<1>2. Types /\ job[w] \in Pass /\ PassSound(job[w])
  BY DEF IInv, Types, Passes
<1>3. m \in job[w].due /\ m \in Market /\ over(m)
  <2>1. job[w].due \in SUBSET Market
    BY <1>2 DEF Pass
  <2>2. IsFiniteSet(job[w].due) /\ job[w].due \in SUBSET Int
    BY <2>1, Numbered, FS_Subset
  <2>3. m \in job[w].due
    BY <2>2, Least DEF nextDue
  <2> QED
    BY <1>2, <2>1, <2>3 DEF PassSound
<1>4. S \in SUBSET Stake
  BY <1>2, RowsOfMarket
<1>5. /\ payouts \in Payouts
      /\ \A k \in DOMAIN payouts : /\ k \in S /\ row[k].outcome = market[m].outcome
                                   /\ payouts[k] >= row[k].poolAmount
      /\ DOMAIN payouts # {} =>
           /\ market[m].status = "resolved"
           /\ \A k \in S : row[k].outcome = market[m].outcome => k \in DOMAIN payouts
  <2>1. CASE market[m].status = "void"
    <3>1. payouts = [k \in {} |-> 0]
      BY <2>1
    <3>2. payouts \in Payouts
      BY <3>1, NoPayouts
    <3> HIDE DEF payouts
    <3> QED
      BY <3>1, <3>2
  <2>2. CASE market[m].status # "void"
    <3>1. payouts = payoutsOf(m) /\ market[m].status = "resolved"
      BY <1>3, <2>2 DEF over
    <3>2. S = unresolvedStakes(m)
      OBVIOUS
    <3> HIDE DEF payouts, S, m
    <3> QED
      BY <1>2, <3>1, <3>2, Divided
  <2> QED
    BY <2>1, <2>2
<1> HIDE DEF payouts
<1>6. CASE S = {}
  <2>1. PICK p : p = [job[w] EXCEPT !.due = @ \ {m}]
    OBVIOUS
  <2>2. p \in Pass /\ p.pc = "pick" /\ p.due = job[w].due \ {m}
    BY <1>1, <1>2, <1>5, <2>1, Refielded
  <2>3. PassSound(p)
    BY <1>2, <2>2 DEF PassSound
  <2> QED
    BY <1>1, <1>6, <2>1, <2>2, <2>3
<1>7. CASE S # {}
  <2>1. PICK p : p = [job[w] EXCEPT !.pc = "post", !.todo = S, !.refundAll = refundAll,
                                    !.payouts = payouts]
    OBVIOUS
  <2>2. refundAll \in BOOLEAN /\ (refundAll <=> DOMAIN payouts = {})
    OBVIOUS
  <2> HIDE DEF refundAll
  <2>3. /\ p \in Pass
        /\ p = [pc |-> "post", due |-> job[w].due, todo |-> S, refundAll |-> refundAll, payouts |-> payouts]
    <3>1. job[w] \in Pass /\ S \in SUBSET Stake /\ payouts \in Payouts /\ refundAll \in BOOLEAN
      BY <1>2, <1>4, <1>5, <2>2
    <3> HIDE DEF S
    <3>2. /\ job[w] = [pc |-> job[w].pc, due |-> job[w].due, todo |-> job[w].todo,
                       refundAll |-> job[w].refundAll, payouts |-> job[w].payouts]
          /\ job[w].due \in SUBSET Market
      BY <3>1 DEF Pass
    <3>3. p = [pc |-> "post", due |-> job[w].due, todo |-> S, refundAll |-> refundAll, payouts |-> payouts]
      BY <2>1, <3>2
    <3>4. p \in Pass
      BY <3>1, <3>2, <3>3 DEF Pass
    <3> QED
      BY <3>3, <3>4
  <2>4. \A k \in S : row[k] \in Row /\ row[k].market = m
    BY <1>2, RowsOfMarket
  <2>5. m = leastOf(p.due)
    BY <2>3 DEF nextDue
  <2> HIDE DEF S, m
  <2>6. PassSound(p)
    BY <1>2, <1>3, <1>5, <1>7, <2>2, <2>3, <2>4, <2>5 DEF PassSound
  <2> QED
    BY <1>1, <1>7, <2>1, <2>3, <2>6 DEF S, m, refundAll
<1> QED
  BY <1>6, <1>7

\* Taking up a market is no more than that.
LEMMA PickKeeps ==
  ASSUME IInv, NEW w \in Worker, pickMarket(w)
  PROVE  Stable /\ IInv'
PROOF
<1>1. UNCHANGED <<market, row, request, entries, credited, bal, faults>>
  BY DEF pickMarket, ledger
<1>2. Types /\ Claimed
  BY DEF IInv
<1>3. CASE job[w].due = {}
  <2>1. complete(w)
    BY <1>3 DEF pickMarket
  <2>2. faults' \in 0..MaxFaults
    BY <1>1, <1>2 DEF Types
  <2> QED
    BY <1>1, <1>2, <2>1, <2>2, EndTypes, IdlePass, IdleSound, PassGoes
<1>4. CASE job[w].due # {}
  <2>1. UNCHANGED <<holder, attempts>>
    BY <1>4 DEF pickMarket
  <2>2. PICK p \in Pass : job' = [job EXCEPT ![w] = p] /\ PassSound(p)
    BY <1>4, PickSound
  <2>3. /\ holder' \in Worker \cup {NoWorker} /\ attempts' \in 0..MaxAttempts /\ faults' \in 0..MaxFaults
        /\ Claimed'
    BY <1>1, <1>2, <2>1 DEF Types, Claimed
  <2> QED
    BY <1>1, <2>2, <2>3, PassGoes
<1> QED
  BY <1>3, <1>4

\* A worker that dies leaves the job to be claimed.
LEMMA CrashedWorkerKeeps ==
  ASSUME IInv, NEW w \in Worker, crashWorker(w) \/ leaseLapses(w)
  PROVE  Stable /\ IInv'
PROOF
<1>1. /\ UNCHANGED <<market, row, request, entries, credited, bal, attempts>>
      /\ fault /\ holder' \in {holder, NoWorker}
      /\ job' = [job EXCEPT ![w] = Idle] \/ job' = job
  BY DEF crashWorker, leaseLapses, ledger
<1>2. Types /\ Claimed /\ Passes
  BY DEF IInv
<1>3. faults' \in 0..MaxFaults
  <2>1. faults \in 0..MaxFaults /\ MaxFaults \in Nat
    BY <1>2, StakesAssumption DEF Types, StakesAssumption
  <2> QED
    BY <1>1, <2>1 DEF fault
<1>4. holder' \in Worker \cup {NoWorker} /\ attempts' \in 0..MaxAttempts /\ Claimed'
  BY <1>1, <1>2 DEF Types, Claimed
<1>5. CASE job' = [job EXCEPT ![w] = Idle]
  BY <1>1, <1>3, <1>4, <1>5, IdlePass, IdleSound, PassGoes
<1>6. CASE job' = job
  <2>1. job[w] \in Pass /\ PassSound(job[w]) /\ job' = [job EXCEPT ![w] = job[w]]
    BY <1>2, <1>6 DEF Types, Passes
  <2> QED
    BY <1>1, <1>3, <1>4, <2>1, PassGoes
<1> QED
  BY <1>1, <1>5, <1>6

\* The stake a pass has in hand, and what it is about to post for it.
LEMMA InHand ==
  ASSUME IInv, NEW w \in Worker, job[w].pc \in {"post", "mark"}, NEW k, k = nextStake(w)
  PROVE  /\ job[w] \in Pass /\ PassSound(job[w])
         /\ nextDue(w) \in job[w].due /\ nextDue(w) \in Market /\ over(nextDue(w))
         /\ k \in job[w].todo /\ k \in Stake /\ row[k] \in Row /\ row[k].market = nextDue(w)
         /\ exitPhase(w) \in {"refund", "payout"} /\ exitPhase(w) \in Phase
         /\ payoutFor(w, k) \in Nat /\ exitPostings(w, k) \in [Account -> Int]
PROOF
<1>1. Types /\ job[w] \in Pass /\ PassSound(job[w])
  BY DEF IInv, Types, Passes
<1>2. /\ job[w].due \in SUBSET Market /\ job[w].todo \in SUBSET Stake
      /\ job[w].due # {} /\ job[w].todo # {} /\ job[w].payouts \in Payouts
  BY <1>1 DEF Pass, PassSound
<1>3. nextDue(w) \in job[w].due
  <2>1. job[w].due \in SUBSET Int /\ IsFiniteSet(job[w].due)
    BY <1>2, Numbered, FS_Subset
  <2> QED
    BY <1>2, <2>1, Least DEF nextDue
<1>4. k \in job[w].todo
  <2>1. job[w].todo \in SUBSET Int /\ IsFiniteSet(job[w].todo)
    BY <1>2, Numbered
  <2> QED
    BY <1>2, <2>1, Least DEF nextStake
<1>5. nextDue(w) \in Market /\ over(nextDue(w))
  BY <1>1, <1>2, <1>3 DEF PassSound
<1>6. k \in Stake /\ row[k] \in Row /\ row[k].market = nextDue(w)
  BY <1>1, <1>2, <1>4 DEF PassSound, nextDue
<1>7. payoutFor(w, k) \in Nat
  BY <1>2 DEF payoutFor, Payouts
<1>8. exitPostings(w, k) \in [Account -> Int]
  BY <1>6, <1>7, Integers DEF exitPostings
<1>9. exitPhase(w) \in {"refund", "payout"} /\ exitPhase(w) \in Phase
  BY DEF exitPhase, Phase
<1> QED
  BY <1>1, <1>3, <1>4, <1>5, <1>6, <1>7, <1>8, <1>9

\* What a call for an exit does to the entries and to what is credited.
LEMMA ExitEntered ==
  ASSUME IInv, NEW w \in Worker, postExit(w), NEW k, k = nextStake(w), NEW phase, phase = exitPhase(w)
  PROVE  \E answer \in Answer :
           /\ Entered(phase, k, exitPostings(w, k))
           /\ faults' \in 0..MaxFaults /\ faults' >= faults
           /\ answer = "refused" => overdraws(exitPostings(w, k)) /\ k \notin entries[phase]
           /\ answer = "unavailable" => faults' > faults
           /\ UNCHANGED entries => UNCHANGED credited
           /\ ~ UNCHANGED entries =>
                credited' = IF phase = "payout" THEN [credited EXCEPT ![k] = payoutFor(w, k)] ELSE credited
           /\ \/ answer = "ok" /\ k \in entries'[phase] /\ UNCHANGED <<holder, attempts>>
                 /\ job' = [job EXCEPT ![w].pc = "mark"]
              \/ answer = "refused" /\ throw(w)
              \/ answer = "unavailable" /\ complete(w)
PROOF
<1>1. PICK recorded \in BOOLEAN, answer \in Answer :
        /\ postEntry(k \in entries[phase], exitPostings(w, k), recorded, answer)
        /\ entries' = IF recorded THEN [entries EXCEPT ![phase] = @ \cup {k}] ELSE entries
        /\ credited' = IF recorded /\ ~ (k \in entries[phase]) /\ phase = "payout"
                          THEN [credited EXCEPT ![k] = payoutFor(w, k)] ELSE credited
        /\ \/ answer = "ok" /\ job' = [job EXCEPT ![w].pc = "mark"] /\ UNCHANGED <<holder, attempts>>
           \/ answer = "refused" /\ throw(w)
           \/ answer = "unavailable" /\ complete(w)
  BY DEF postExit
<1>2. job[w].pc = "post"
  BY DEF postExit
<1>3. Types
  BY DEF IInv
<1>4. k \in Stake /\ phase \in Phase /\ exitPostings(w, k) \in [Account -> Int]
  BY <1>2, InHand
<1>5. PICK used \in BOOLEAN : used <=> k \in entries[phase]
  OBVIOUS
<1>6. postEntry(used, exitPostings(w, k), recorded, answer)
  BY <1>1, <1>5 DEF postEntry
<1>7. /\ Entered(phase, k, exitPostings(w, k))
      /\ answer = "ok" => k \in entries'[phase]
      /\ answer = "refused" => overdraws(exitPostings(w, k)) /\ UNCHANGED <<bal, entries>>
      /\ faults' \in 0..MaxFaults /\ faults' >= faults
      /\ answer = "unavailable" => faults' > faults
  BY <1>1, <1>3, <1>4, <1>5, <1>6, Posted
<1>8. answer = "refused" => k \notin entries[phase]
  BY <1>5, <1>6 DEF postEntry
<1>9. entries \in [Phase -> SUBSET Stake]
  BY <1>3 DEF Types
<1>10. UNCHANGED entries => UNCHANGED credited
  <2>1. recorded /\ UNCHANGED entries => k \in entries[phase]
    BY <1>1, <1>4, <1>9
  <2> QED
    BY <1>1, <2>1
<1>11. ~ UNCHANGED entries => recorded /\ k \notin entries[phase]
  BY <1>1, <1>7 DEF Entered
<1> QED
  BY <1>1, <1>7, <1>8, <1>10, <1>11

\* The entry a pass posts is of a stake in hand, and for what it was told it has won.
LEMMA ExitKeeps ==
  ASSUME IInv, NEW w \in Worker, postExit(w)
  PROVE  Stable /\ IInv'
PROOF
<1> PICK k, phase : k = nextStake(w) /\ phase = exitPhase(w)
  OBVIOUS
<1>1. PICK answer \in Answer :
        /\ Entered(phase, k, exitPostings(w, k))
        /\ faults' \in 0..MaxFaults
        /\ UNCHANGED entries => UNCHANGED credited
        /\ ~ UNCHANGED entries =>
             credited' = IF phase = "payout" THEN [credited EXCEPT ![k] = payoutFor(w, k)] ELSE credited
        /\ \/ answer = "ok" /\ k \in entries'[phase] /\ UNCHANGED <<holder, attempts>>
              /\ job' = [job EXCEPT ![w].pc = "mark"]
           \/ answer = "refused" /\ throw(w)
           \/ answer = "unavailable" /\ complete(w)
  BY ExitEntered
<1>2. job[w].pc = "post" /\ UNCHANGED <<market, row, request>>
  BY DEF postExit
<1>3. Types /\ Stakes /\ Claimed /\ Passes /\ Solvent /\ Booked
  BY DEF IInv
<1>4. /\ job[w] \in Pass /\ PassSound(job[w])
      /\ k \in job[w].todo /\ k \in Stake /\ row[k] \in Row /\ row[k].market = nextDue(w)
      /\ phase \in {"refund", "payout"} /\ phase \in Phase
      /\ payoutFor(w, k) \in Nat /\ exitPostings(w, k) \in [Account -> Int]
  BY <1>2, InHand
<1>5. /\ entries' \in [Phase -> SUBSET Stake]
      /\ \A f \in Phase : /\ entries[f] \subseteq entries'[f]
                          /\ \A j \in Stake : j # k => (j \in entries'[f] => j \in entries[f])
                          /\ f # phase => entries'[f] = entries[f]
  BY <1>1, <1>3, <1>4 DEF Entered, Types
<1>6. /\ credited' \in [Stake -> Nat]
      /\ \A j \in Stake : j # k => credited'[j] = credited[j]
      /\ \A j \in entries["payout"] : credited'[j] = credited[j]
  <2>1. CASE UNCHANGED entries
    BY <1>1, <1>3, <2>1 DEF Types
  <2>2. CASE ~ UNCHANGED entries
    <3>1. k \notin entries[phase]
      BY <1>1, <2>2 DEF Entered
    <3>2. credited' = IF phase = "payout" THEN [credited EXCEPT ![k] = payoutFor(w, k)] ELSE credited
      BY <1>1, <2>2
    <3> QED
      BY <1>3, <1>4, <3>1, <3>2 DEF Types
  <2> QED
    BY <2>1, <2>2
<1>7. bal' \in [Account -> Int]
  BY <1>1, <1>3, <1>4 DEF Entered, Types
<1>8. Stable
  BY <1>2, <1>5 DEF Stable, Moves
<1>9. /\ holder' \in Worker \cup {NoWorker} /\ attempts' \in 0..MaxAttempts /\ Claimed'
      /\ job' = [job EXCEPT ![w] = Idle] \/ (job' = [job EXCEPT ![w].pc = "mark"] /\ k \in entries'[phase])
  <2>1. CASE throw(w) \/ complete(w)
    BY <1>3, <2>1, EndTypes
  <2>2. CASE ~ (throw(w) \/ complete(w))
    BY <1>1, <1>3, <2>2 DEF Types, Claimed
  <2> QED
    BY <2>1, <2>2
<1>10. PICK p \in Pass : job' = [job EXCEPT ![w] = p] /\ PassSound(p)'
  <2>1. CASE job' = [job EXCEPT ![w] = Idle]
    BY <2>1, IdlePass, IdleSound
  <2>2. CASE job' = [job EXCEPT ![w].pc = "mark"] /\ k \in entries'[phase]
    <3>1. PICK q, p : q \in Pass /\ q = job[w] /\ p = [q EXCEPT !.pc = "mark"]
      BY <1>4
    <3>2. /\ p \in Pass
          /\ p = [pc |-> "mark", due |-> q.due, todo |-> q.todo, refundAll |-> q.refundAll,
                  payouts |-> q.payouts]
      BY <3>1, Refielded
    <3>3. job' = [job EXCEPT ![w] = p]
      BY <2>2, <3>1
    <3>4. PassSound(q)' /\ q.pc = "post"
      BY <1>2, <1>3, <1>4, <1>8, <3>1, PassStays
    <3>5. k = leastOf(p.todo) /\ phase = IF p.refundAll THEN "refund" ELSE "payout"
      BY <3>1, <3>2 DEF nextStake, exitPhase
    <3>6. PassSound(p)'
      BY <2>2, <3>2, <3>4, <3>5 DEF PassSound
    <3> QED
      BY <3>2, <3>3, <3>6
  <2> QED
    BY <1>9, <2>1, <2>2
<1>11. job' \in [Worker -> Pass] /\ Passes'
  BY <1>3, <1>8, <1>10, PassesStay
<1>12. Types'
  BY <1>1, <1>2, <1>3, <1>5, <1>6, <1>7, <1>9, <1>11 DEF Types
<1>13. Solvent'
  <2>1. \A x \in UserAccount : x \in Account
    BY DEF Account
  <2> QED
    BY <1>1, <1>3, <2>1 DEF Entered, Solvent
<1>14. Booked'
  <2>1. CASE UNCHANGED <<bal, entries>>
    BY <1>3, <1>6, <1>8, <2>1, BookedStays
  <2>2. CASE ~ UNCHANGED <<bal, entries>>
    <3>1. /\ k \notin entries[phase] /\ entries' = [entries EXCEPT ![phase] = @ \cup {k}]
          /\ bal' = [x \in Account |-> bal[x] + exitPostings(w, k)[x]]
      BY <1>1, <2>2 DEF Entered
    <3>2. CASE phase = "refund"
      <4>1. exitPostings(w, k) = refundPostings(row[k])
        BY <3>2 DEF exitPhase, exitPostings
      <4> QED
        BY <1>3, <1>4, <1>6, <1>8, <3>1, <3>2, <4>1, BookedRefund
    <3>3. CASE phase = "payout"
      <4>1. exitPostings(w, k) = poolPayoutPostings(row[k], payoutFor(w, k))
        BY <3>3 DEF exitPhase, exitPostings
      <4>2. ~ UNCHANGED entries
        BY <1>3, <1>4, <3>1 DEF Types
      <4>3. credited'[k] = payoutFor(w, k)
        BY <1>1, <1>3, <1>4, <3>3, <4>2 DEF Types
      <4> QED
        BY <1>3, <1>4, <1>6, <1>8, <3>1, <3>3, <4>1, <4>3, BookedPayout
    <3> QED
      BY <1>4, <3>2, <3>3
  <2> QED
    BY <2>1, <2>2
<1>15. \A j \in Stake : j \in entries'["payout"] =>
          PaidSound(j)' \/ (j \in entries["payout"] /\ credited'[j] = credited[j])
  <2>1. ASSUME NEW j \in Stake, j \in entries'["payout"], j \notin entries["payout"]
        PROVE  PaidSound(j)'
    <3>1. j = k /\ phase = "payout"
      BY <1>5, <2>1 DEF Phase
    <3>2. ~ UNCHANGED entries /\ credited'[k] = payoutFor(w, k)
      BY <1>1, <1>3, <1>4, <2>1, <3>1 DEF Types
    <3>3. ~ job[w].refundAll
      BY <3>1 DEF exitPhase
    <3>4. /\ market[nextDue(w)].status = "resolved"
          /\ IF row[k].outcome = market[nextDue(w)].outcome
               THEN k \in DOMAIN job[w].payouts /\ job[w].payouts[k] >= row[k].poolAmount
               ELSE k \notin DOMAIN job[w].payouts
      BY <1>2, <1>4, <3>3 DEF PassSound, nextDue
    <3> QED
      BY <1>2, <1>4, <3>1, <3>2, <3>4 DEF PaidSound, payoutFor
  <2> QED
    BY <1>6, <2>1
<1>16. StakeSound(k)' /\ MarkSound(k)'
  <2>1. StakeSound(k) /\ MarkSound(k)
    BY <1>4 DEF IInv, Stakes, MarkedRowsHaveEntries, MarkSound
  <2>2. entries'["escrow"] = entries["escrow"]
    BY <1>4, <1>5 DEF Phase
  <2>3. StakeSound(k)'
    BY <1>2, <1>4, <2>1, <2>2, RowOrNone DEF StakeSound
  <2>4. MarkSound(k)'
    BY <1>2, <1>5, <2>1, <2>2 DEF MarkSound, Phase
  <2> QED
    BY <2>3, <2>4
<1>17. \A j \in Stake : j # k => Spared(j)
  BY <1>2, <1>5 DEF Spared
<1> QED
  BY <1>8, <1>11, <1>12, <1>9, <1>13, <1>14, <1>15, <1>16, <1>17, Assembled

\* A row is marked when the ledger has its entry, and the pass goes on to the next.
LEMMA MarkKeeps ==
  ASSUME IInv, NEW w \in Worker, markExit(w)
  PROVE  Stable /\ IInv'
PROOF
<1> PICK k, phase : k = nextStake(w) /\ phase = exitPhase(w)
  OBVIOUS
<1>1. /\ job[w].pc = "mark"
      /\ UNCHANGED <<market, request, entries, credited, bal, faults>>
  BY DEF markExit, ledger
<1>2. Types /\ Stakes /\ Claimed /\ Passes /\ StakeSound(k) /\ MarkSound(k)
  <2>1. k \in Stake
    BY <1>1, InHand
  <2> QED
    BY <2>1 DEF IInv, Stakes, MarkedRowsHaveEntries, MarkSound
<1>3. /\ job[w] \in Pass /\ PassSound(job[w])
      /\ k \in job[w].todo /\ k \in Stake /\ row[k] \in Row /\ row[k].market = nextDue(w)
      /\ phase \in {"refund", "payout"} /\ phase \in Phase
  BY <1>1, InHand
<1>4. CASE row[k].state # "accepted"
  <2>1. throw(w) /\ UNCHANGED row
    BY <1>4 DEF markExit
  <2>2. faults' \in 0..MaxFaults
    BY <1>1, <1>2 DEF Types
  <2> QED
    BY <1>1, <1>2, <2>1, <2>2, EndTypes, IdlePass, IdleSound, PassGoes
<1>5. CASE row[k].state = "accepted"
  <2>1. /\ row' = [row EXCEPT ![k].state = exitState(w)]
        /\ job' = [job EXCEPT ![w] = afterMark(w)]
        /\ UNCHANGED <<holder, attempts>>
    BY <1>5 DEF markExit
  <2>2. /\ exitState(w) = IF phase = "refund" THEN "refunded" ELSE "paid"
        /\ exitState(w) \in {"deleted", "refunded", "paid"}
    BY DEF exitState, exitPhase
  <2>3. /\ row' \in [Stake -> Row \cup {NoRow}]
        /\ \A j \in Stake : Moves(row[j], row'[j]) /\ (j # k => row'[j] = row[j])
        /\ row'[k] \in Row /\ row'[k].state = exitState(w) /\ row'[k].escrowed = row[k].escrowed
    BY <1>2, <1>3, <1>5, <2>1, <2>2, Marked
  <2>4. Stable
    BY <1>1, <2>3 DEF Stable
  <2>5. k \in entries[phase]
    BY <1>1, <1>3 DEF PassSound, nextStake, exitPhase
  <2>6. PICK p \in Pass : p = afterMark(w) /\ PassSound(p)
    <3>1. PICK q \in Pass : q = job[w] /\ PassSound(q)
      BY <1>3
    <3>2. CASE q.todo = {k}
      <4>1. PICK p : p = [Idle EXCEPT !.pc = "pick", !.due = q.due \ {nextDue(w)}]
        OBVIOUS
      <4>2. p = [pc |-> "pick", due |-> q.due \ {nextDue(w)}, todo |-> {},
                 refundAll |-> FALSE, payouts |-> << >>]
        BY <4>1 DEF Idle
      <4>3. << >> \in Payouts /\ q.due \in SUBSET Market
        BY <3>1, IdlePass DEF Pass, Idle
      <4>4. p \in Pass
        BY <4>2, <4>3 DEF Pass
      <4>5. PassSound(p)
        BY <3>1, <4>2 DEF PassSound
      <4> QED
        BY <3>1, <3>2, <4>1, <4>4, <4>5 DEF afterMark
    <3>3. CASE q.todo # {k}
      <4>1. PICK p : p = [q EXCEPT !.pc = "post", !.todo = @ \ {k}]
        OBVIOUS
      <4>2. /\ p \in Pass
            /\ p = [pc |-> "post", due |-> q.due, todo |-> q.todo \ {k},
                    refundAll |-> q.refundAll, payouts |-> q.payouts]
        BY <4>1, Refielded
      <4>3. k \in q.todo /\ q.pc = "mark"
        BY <1>1, <1>3, <3>1
      <4>4. PassSound(p)
        BY <3>1, <3>3, <4>2, <4>3 DEF PassSound
      <4> QED
        BY <3>1, <3>3, <4>1, <4>2, <4>4 DEF afterMark
    <3> QED
      BY <3>2, <3>3
  <2>7. PassSound(p)'
    BY <1>2, <2>4, <2>6, PassStays
  <2>8. job' \in [Worker -> Pass] /\ Passes'
    BY <1>2, <2>1, <2>4, <2>6, <2>7, PassesStay
  <2>9. Types'
    BY <1>1, <1>2, <2>1, <2>3, <2>8 DEF Types
  <2>10. Claimed'
    BY <1>2, <2>1 DEF Claimed
  <2>11. StakeSound(k)' /\ MarkSound(k)'
    <3>1. StakeSound(k)'
      BY <1>1, <1>2, <1>3, <2>3, RowOrNone DEF StakeSound
    <3>2. MarkSound(k)'
      BY <1>1, <1>2, <1>3, <2>2, <2>3, <2>5, RowOrNone DEF MarkSound, Phase
    <3> QED
      BY <3>1, <3>2
  <2>12. \A j \in Stake : j # k => Spared(j)
    BY <1>1, <2>3 DEF Spared
  <2> QED
    BY <1>1, <2>4, <2>8, <2>9, <2>10, <2>11, <2>12, NothingEntered
<1> QED
  BY <1>4, <1>5

------------------------------------------------------------------------------
(* What holds whatever fails.                                              *)

\* Every step keeps the invariant, and takes back nothing.
LEMMA Consecution == IInv /\ [Next]_vars => Stable /\ IInv'
PROOF
<1> SUFFICES ASSUME IInv, [Next]_vars
             PROVE  Stable /\ IInv'
  OBVIOUS
<1>1. CASE marketStep
  BY <1>1, MarketKeeps
<1>2. ASSUME NEW k \in Stake, requestStep(k) \/ \E t \in Term : acceptStake(k, t)
      PROVE  Stable /\ IInv'
  BY <1>2, AcceptKeeps, PostKeeps, RecordKeeps DEF requestStep
<1>3. ASSUME NEW w \in Worker, passStep(w)
      PROVE  Stable /\ IInv'
  BY <1>3, StartKeeps, PickKeeps, ExitKeeps, MarkKeeps DEF passStep
<1>4. CASE faultStep
  BY <1>4, CrashedRequestKeeps, CrashedWorkerKeeps DEF faultStep
<1>5. CASE UNCHANGED vars
  <2>1. UNCHANGED <<market, row, request, entries, credited, bal, job, holder, attempts, faults>>
    BY <1>5 DEF vars, ledger, runner
  <2>2. Types' /\ Claimed'
    BY <2>1 DEF IInv, Types, Claimed
  <2>3. Stable
    BY <2>1 DEF Stable, Moves
  <2>4. Passes'
    BY <2>1, <2>3, PassesRest DEF IInv
  <2> QED
    BY <2>1, <2>2, <2>4, RowsRest
<1> QED
  BY <1>1, <1>2, <1>3, <1>4, <1>5 DEF Next

\* The invariant holds in every state.
LEMMA Invariant == Spec => []IInv
PROOF
<1> QED
  BY InitIInv, Consecution, PTL DEF Spec

\* What the runs call the type of the variables.
LEMMA TypesAreTheRuns == IInv => TypeOK
PROOF
<1> SUFFICES ASSUME IInv
             PROVE  TypeOK
  OBVIOUS
<1>1. Types /\ Solvent /\ Passes
  BY DEF IInv
<1>2. \A m \in Market : market[m].status \in Status
  BY <1>1 DEF Types
<1>3. \A k \in Stake : row[k].state \in RowState
  BY <1>1, RowOrNone DEF Types, RowState
<1>4. \A w \in Worker : job[w].pc \in {"idle", "pick", "post", "mark"}
  BY <1>1 DEF Types, Pass
<1>5. \A w \in Worker : job[w].pc \in {"post", "mark"} => job[w].todo # {}
  BY <1>1 DEF Passes, PassSound
<1>6. /\ request \in [Stake -> {"none", "posting", "recording", "done", "failed"}]
      /\ entries \in [Phase -> SUBSET Stake] /\ credited \in [Stake -> Nat]
      /\ bal \in [Account -> Int] /\ \A x \in UserAccount : bal[x] >= 0
      /\ holder \in Worker \cup {NoWorker}
      /\ attempts \in 0..MaxAttempts /\ faults \in 0..MaxFaults
  BY <1>1 DEF Types, Solvent, RequestState
<1> QED
  BY <1>2, <1>3, <1>4, <1>5, <1>6 DEF TypeOK, Status

\* The variables have their types, no user is overdrawn, and a pass at a stake has one.
THEOREM TypeCorrect == Spec => []TypeOK
PROOF
<1> QED
  BY Invariant, TypesAreTheRuns, PTL

\* Whatever fails, a row that says that money moved has the entry that moved it.
THEOREM RowsTellTheTruth == Spec => []MarkedRowsHaveEntries
PROOF
<1>1. IInv => MarkedRowsHaveEntries
  BY DEF IInv
<1> QED
  BY <1>1, Invariant, PTL

\* Whatever passes it took and whichever of them died, a winner is paid the stake back at
\* least, and a loser nothing.
THEOREM WinnersKeep == Spec => []WinnersKeepStake
PROOF
<1>1. IInv => WinnersKeepStake
  <2> SUFFICES ASSUME IInv
               PROVE  WinnersKeepStake
    OBVIOUS
  <2>1. \A k \in entries["payout"] : k \in Stake /\ PaidSound(k)
    BY DEF IInv, Types, Stakes, Phase
  <2> QED
    BY <2>1 DEF WinnersKeepStake, PaidSound
<1> QED
  BY <1>1, Invariant, PTL

\* A stake that went out, or whose row was deleted, stays as it went.
THEOREM OutIsOut == Spec => TerminalRowsStay
PROOF
<1>1. IInv /\ Stable => [\A k \in Stake : row[k].state \in {"refunded", "paid", "deleted"}
                          => row'[k].state = row[k].state]_vars
  <2> SUFFICES ASSUME IInv, Stable, NEW k \in Stake, row[k].state \in {"refunded", "paid", "deleted"}
               PROVE  row'[k].state = row[k].state
    OBVIOUS
  <2>1. Moves(row[k], row'[k])
    BY DEF Stable
  <2> QED
    BY <2>1, RowOrNone DEF Moves
<1> QED
  BY <1>1, InitIInv, Consecution, PTL DEF Spec, TerminalRowsStay

\* Whatever fails, every account is where it began but for the entries there are, which
\* each moved what the terms of their row and the payout they credited say, once.
THEOREM BooksAreTheEntries == Spec => []Booked
PROOF
<1>1. IInv => Booked
  BY DEF IInv
<1> QED
  BY <1>1, Invariant, PTL

------------------------------------------------------------------------------
(* Until something fails, and if no market ends under a request in flight.  *)

Calm == faults = 0 /\ ~ EndsInFlight

exits == entries["refund"] \cup entries["payout"]

\* A request in flight has its row to itself, and one that ended has its stake in
\* escrow or nothing at all.
RequestCalm(k) ==
  /\ inFlight(k) => row[k].state = "accepted" /\ ~ row[k].escrowed /\ ~ over(row[k].market)
  /\ request[k] = "done" => k \in entries["escrow"] /\ row[k].state # "deleted"
  /\ request[k] = "failed" => k \notin entries["escrow"] /\ row[k].state = "deleted"

\* Only stakes of a market that is over have gone out.
ExitCalm(k) == k \in exits => over(row[k].market) /\ k \in rowsOf(row[k].market)

\* What was staked on m, and what its payout entries credited.
staked(m) == SumFunction([k \in rowsOf(m) |-> row[k].poolAmount])
paid(m) == SumFunction([k \in rowsOf(m) |-> credited[k]])

\* No pass has taken m up.
Waiting(m) == \A k \in rowsOf(m) : row[k].state = "accepted" /\ k \notin exits

\* One has, and went through: everyone is refunded, or the pool is paid.
Settled(m) ==
  \/ \A k \in rowsOf(m) : row[k].state = "refunded" /\ k \notin entries["payout"]
  \/ /\ market[m].status = "resolved"
     /\ \A k \in rowsOf(m) : row[k].state = "paid" /\ k \notin entries["refund"]
     /\ paid(m) = staked(m)

\* A pass p pays each stake nothing but what it divided.
owed(p, k) == IF k \in DOMAIN p.payouts THEN p.payouts[k] ELSE 0

\* One is at it: what is left to do is what it has left, all else went one way,
\* and what it pays comes to what was staked.
UnderWay(m, p) ==
  /\ p.pc \in {"post", "mark"} /\ m = leastOf(p.due) /\ p.todo = unresolvedStakes(m)
  /\ \A k \in rowsOf(m) :
       /\ row[k].state = "accepted" \/ row[k].state = IF p.refundAll THEN "refunded" ELSE "paid"
       /\ k \notin entries[IF p.refundAll THEN "payout" ELSE "refund"]
       /\ k \in exits /\ row[k].state = "accepted" => p.pc = "mark" /\ k = leastOf(p.todo)
       /\ k \in entries["payout"] => credited[k] = owed(p, k)
  /\ ~ p.refundAll => SumFunction([k \in rowsOf(m) |-> owed(p, k)]) = staked(m)

PassCalm(w) ==
  /\ job[w].pc # "idle" => holder = w
  /\ job[w].pc \in {"post", "mark"} => UnderWay(nextDue(w), job[w])

MarketCalm(m) ==
  over(m) => Waiting(m) \/ Settled(m) \/ \E w \in Worker : UnderWay(m, job[w])

Undisturbed ==
  /\ \A k \in Stake : RequestCalm(k) /\ ExitCalm(k)
  /\ \A w \in Worker : PassCalm(w)
  /\ \A m \in Market : MarketCalm(m)

\* A stake of a market that is over, whose row is there, is in escrow or was.
LEMMA DoneWhenOver ==
  ASSUME IInv, Undisturbed, NEW m \in Market, over(m), NEW k \in rowsOf(m)
  PROVE  request[k] = "done" /\ k \in entries["escrow"]
PROOF
<1>1. k \in Stake /\ row[k].market = m /\ row[k].state \notin {"none", "deleted"}
  BY DEF rowsOf
<1>2. RequestCalm(k) /\ StakeSound(k) /\ request[k] \in RequestState
  BY <1>1 DEF Undisturbed, IInv, Stakes, Types
<1>3. request[k] # "none"
  BY <1>1, <1>2, RowOrNone DEF StakeSound
<1>4. request[k] \notin {"posting", "recording", "failed"}
  BY <1>1, <1>2 DEF RequestCalm, inFlight
<1> QED
  BY <1>2, <1>3, <1>4 DEF RequestCalm, RequestState

\* What went out had come in, and went out one way.
LEMMA InThenOut ==
  ASSUME IInv, Undisturbed
  PROVE  /\ entries["refund"] \cap entries["payout"] = {} /\ exits \in SUBSET entries["escrow"]
         /\ \A k \in exits : /\ k \in Stake /\ row[k] \in Row /\ row[k].market \in Market
                             /\ over(row[k].market) /\ k \in rowsOf(row[k].market)
PROOF
<1>1. ASSUME NEW k \in exits
      PROVE  /\ k \in Stake /\ row[k] \in Row /\ row[k].market \in Market
             /\ over(row[k].market) /\ k \in rowsOf(row[k].market)
  <2>1. k \in Stake
    BY DEF exits, IInv, Types, Phase
  <2>2. row[k] \in Row
    BY <2>1 DEF exits, IInv, Stakes, StakeSound, Phase
  <2> QED
    BY <2>1, <2>2, RowOrNone DEF Undisturbed, ExitCalm
<1>2. exits \in SUBSET entries["escrow"]
  BY <1>1, DoneWhenOver
<1>3. ASSUME NEW k \in entries["refund"], k \in entries["payout"]
      PROVE  FALSE
  <2>1. PICK m \in Market : over(m) /\ k \in rowsOf(m) /\ MarketCalm(m) /\ k \in exits
    BY <1>1, <1>3 DEF exits, Undisturbed
  <2>2. Settled(m) \/ \E w \in Worker : UnderWay(m, job[w])
    BY <2>1 DEF MarketCalm, Waiting
  <2>3. ~ Settled(m)
    BY <1>3, <2>1 DEF Settled
  <2>4. ASSUME NEW w \in Worker, UnderWay(m, job[w])
        PROVE  FALSE
    BY <1>3, <2>1, <2>4 DEF UnderWay
  <2> QED
    BY <2>2, <2>3, <2>4
<1> QED
  BY <1>1, <1>2, <1>3

\* What of a stake is in its owner's escrow while it is in.
holds(u) == [k \in Stake |-> IF row[k] \in Row /\ row[k].subject = u THEN row[k].poolAmount ELSE 0]

\* The names of accounts are apart.
LEMMA Names ==
  ASSUME NEW u \in Subject
  PROVE  /\ escrow(u) \in UserAccount /\ escrow(u) \in Account /\ InitialBalance[escrow(u)] = 0
         /\ \A v, a : escrow(u) = available(v, a) => a = "escrow"
         /\ \A a \in Asset : /\ \A v \in Subject : escrow(u) # available(v, a)
                             /\ escrow(u) # clearing(a)
         /\ \A v : escrow(u) = escrow(v) <=> u = v
PROOF
<1>1. "escrow" \notin Asset
  BY StakesAssumption DEF StakesAssumption
<1>2. escrow(u) \in UserAccount /\ escrow(u) \in Account
  BY DEF UserAccount, Account
<1>3. \A v, a : escrow(u) = available(v, a) => a = "escrow"
  BY DEF escrow, available
<1>4. \A a \in Asset : escrow(u) # clearing(a)
  BY <1>1 DEF escrow, clearing
<1>5. \A v : escrow(u) = escrow(v) <=> u = v
  BY DEF escrow
<1>6. \A a \in Asset : \A v \in Subject : escrow(u) # available(v, a)
  BY <1>1, <1>3
<1>7. InitialBalance[escrow(u)] = 0
  BY <1>2, <1>6 DEF InitialBalance
<1> QED
  BY <1>2, <1>3, <1>4, <1>5, <1>6, <1>7

\* An entry moves what a stake holds into its owner's escrow, or out of it.
LEMMA ThroughEscrow ==
  ASSUME NEW u \in Subject, NEW k \in Stake, row[k] \in Row, NEW n \in Nat
  PROVE  /\ holds(u)[k] \in Nat
         /\ escrowPostings(row[k])[escrow(u)] = holds(u)[k]
         /\ refundPostings(row[k])[escrow(u)] = - holds(u)[k]
         /\ poolPayoutPostings(row[k], n)[escrow(u)] = - holds(u)[k]
PROOF
<1> PICK r, x : r = row[k] /\ x = escrow(u)
  OBVIOUS
<1>1. /\ r \in Row /\ r.subject \in Subject /\ r.asset \in Asset /\ POOL_ASSET \in Asset
      /\ r.poolAmount \in Nat /\ r.stakeAmount \in Nat /\ x \in Account
  BY RowOrNone, Names, StakesAssumption DEF StakesAssumption
<1>2. /\ x # available(r.subject, POOL_ASSET) /\ x # available(r.subject, r.asset)
      /\ x # clearing(r.asset) /\ x # clearing(POOL_ASSET)
      /\ x = escrow(r.subject) <=> u = r.subject
  BY <1>1, Names
<1>3. holds(u)[k] = IF r.subject = u THEN r.poolAmount ELSE 0
  BY <1>1 DEF holds
<1>4. escrowPostings(r)[x] = holds(u)[k]
  <2>1. CASE r.asset = POOL_ASSET
    <3>1. escrowPostings(r) = transfer(available(r.subject, POOL_ASSET), escrow(r.subject), r.poolAmount)
      BY <2>1 DEF escrowPostings
    <3> QED
      BY <1>1, <1>2, <1>3, <3>1 DEF transfer
  <2>2. CASE r.asset # POOL_ASSET
    <3>1. /\ transfer(available(r.subject, r.asset), clearing(r.asset), r.stakeAmount)[x] = 0
          /\ transfer(clearing(POOL_ASSET), escrow(r.subject), r.poolAmount)[x] = holds(u)[k]
      BY <1>1, <1>2, <1>3 DEF transfer
    <3>2. escrowPostings(r)[x] = 0 + holds(u)[k]
      BY <1>1, <2>2, <3>1 DEF escrowPostings, both
    <3> QED
      BY <1>1, <1>3, <3>2
  <2> QED
    BY <2>1, <2>2
<1>5. refundPostings(r)[x] = - holds(u)[k]
  BY <1>1, <1>4 DEF refundPostings
<1>6. poolPayoutPostings(r, n)[x] = - holds(u)[k]
  <2>1. /\ transfer(escrow(r.subject), clearing(POOL_ASSET), r.poolAmount)[x] = - holds(u)[k]
        /\ transfer(clearing(POOL_ASSET), available(r.subject, POOL_ASSET), n)[x] = 0
    BY <1>1, <1>2, <1>3 DEF transfer
  <2>2. poolPayoutPostings(r, n)[x] = - holds(u)[k] + 0
    BY <1>1, <2>1 DEF poolPayoutPostings, both
  <2> QED
    BY <1>1, <1>3, <2>2
<1> QED
  BY <1>1, <1>3, <1>4, <1>5, <1>6

\* Escrow holds what came in and has not gone out.
LEMMA InEscrow ==
  ASSUME IInv, Undisturbed, NEW u \in Subject
  PROVE  bal[escrow(u)] = SumFunctionOnSet(holds(u), entries["escrow"] \ exits)
PROOF
<1> PICK E, R, P, In, x, h : /\ E = entries["escrow"] /\ R = entries["refund"] /\ P = entries["payout"]
                             /\ In = E \ exits /\ x = escrow(u) /\ h = holds(u)
  OBVIOUS
<1>1. /\ E = (In \cup R) \cup P /\ In \cap R = {} /\ (In \cup R) \cap P = {}
  BY InThenOut DEF exits
<1>2. IsFiniteSet(E) /\ IsFiniteSet(R) /\ IsFiniteSet(P) /\ IsFiniteSet(In) /\ IsFiniteSet(In \cup R)
  <2>1. IsFiniteSet(E) /\ IsFiniteSet(R) /\ IsFiniteSet(P)
    BY FinitelyMany DEF IInv
  <2>2. In \subseteq E /\ In \cup R \subseteq E
    BY <1>1
  <2> QED
    BY <2>1, <2>2, FS_Subset
<1>3. \A k \in E : /\ k \in Stake /\ row[k] \in Row /\ credited[k] \in Nat
                   /\ h[k] \in Nat /\ h[k] \in Int /\ escrowPostings(row[k])[x] = h[k]
                   /\ refundPostings(row[k])[x] = - h[k]
                   /\ poolPayoutPostings(row[k], credited[k])[x] = - h[k]
  <2>1. \A k \in E : k \in Stake /\ row[k] \in Row /\ credited[k] \in Nat
    BY DEF IInv, Types, Stakes, StakeSound, Phase
  <2> QED
    BY <2>1, ThroughEscrow
<1>4. /\ SumFunctionOnSet(h, In) \in Int /\ SumFunctionOnSet(h, R) \in Int
      /\ SumFunctionOnSet(h, P) \in Int
  <2>1. (\A k \in In : h[k] \in Int) /\ (\A k \in R : h[k] \in Int) /\ (\A k \in P : h[k] \in Int)
    BY <1>1, <1>3
  <2> QED
    BY <1>2, <2>1, SumInt
<1>5. /\ escrowed(x) = SumFunctionOnSet(h, E)
      /\ refunded(x) = - SumFunctionOnSet(h, R)
      /\ paidOut(x) = - SumFunctionOnSet(h, P)
  <2>1. PICK f : f = [k \in E |-> escrowPostings(row[k])[x]]
    OBVIOUS
  <2>2. escrowed(x) = SumFunctionOnSet(f, E) /\ \A k \in E : f[k] = h[k] /\ f[k] \in Int
    BY <1>3, <2>1 DEF escrowed, SumFunction
  <2>3. PICK g : g = [k \in R |-> refundPostings(row[k])[x]]
    OBVIOUS
  <2>4. refunded(x) = SumFunctionOnSet(g, R) /\ \A k \in R : h[k] \in Int /\ g[k] = - h[k]
    BY <1>1, <1>3, <2>3 DEF refunded, SumFunction
  <2>5. PICK p : p = [k \in P |-> poolPayoutPostings(row[k], credited[k])[x]]
    OBVIOUS
  <2>6. paidOut(x) = SumFunctionOnSet(p, P) /\ \A k \in P : h[k] \in Int /\ p[k] = - h[k]
    BY <1>1, <1>3, <2>5 DEF paidOut, SumFunction
  <2>7. SumFunctionOnSet(f, E) = SumFunctionOnSet(h, E)
    BY <1>2, <2>2, SumSame
  <2>8. SumFunctionOnSet(g, R) = - SumFunctionOnSet(h, R) /\ SumFunctionOnSet(p, P) = - SumFunctionOnSet(h, P)
    <3>1. /\ \A k \in R : h[k] \in Int /\ g[k] = - h[k]
          /\ \A k \in P : h[k] \in Int /\ p[k] = - h[k]
      BY <2>4, <2>6
    <3>2. SumFunctionOnSet(g, R) = - SumFunctionOnSet(h, R)
      BY <1>2, <3>1, SumOpposite
    <3>3. SumFunctionOnSet(p, P) = - SumFunctionOnSet(h, P)
      BY <1>2, <3>1, SumOpposite
    <3> QED
      BY <3>2, <3>3
  <2> QED
    BY <2>2, <2>4, <2>6, <2>7, <2>8
<1>6. /\ SumFunctionOnSet(h, E) = SumFunctionOnSet(h, In \cup R) + SumFunctionOnSet(h, P)
      /\ SumFunctionOnSet(h, In \cup R) = SumFunctionOnSet(h, In) + SumFunctionOnSet(h, R)
  <2>1. (\A k \in (In \cup R) \cup P : h[k] \in Int) /\ (\A k \in In \cup R : h[k] \in Int)
    BY <1>1, <1>3
  <2> QED
    BY <1>1, <1>2, <2>1, SumUnion
<1>7. bal[x] = 0 + escrowed(x) + refunded(x) + paidOut(x)
  BY Names DEF IInv, Booked
<1> QED
  BY <1>4, <1>5, <1>6, <1>7

\* Elsewhere than in escrow an exit takes nothing from a user.
LEMMA OutOfEscrow ==
  ASSUME NEW w \in Worker, NEW k \in Stake, row[k] \in Row, payoutFor(w, k) \in Nat,
         NEW u \in Subject, NEW a \in Asset
  PROVE  exitPostings(w, k)[available(u, a)] \in Nat
PROOF
<1> PICK r, x, n : r = row[k] /\ x = available(u, a) /\ n = payoutFor(w, k)
  OBVIOUS
<1>1. /\ r \in Row /\ r.subject \in Subject /\ r.asset \in Asset /\ POOL_ASSET \in Asset
      /\ r.poolAmount \in Nat /\ r.stakeAmount \in Nat /\ n \in Nat
  BY RowOrNone, StakesAssumption DEF StakesAssumption
<1>2. x \in Account
  BY DEF Account, UserAccount
<1>3. x # escrow(r.subject) /\ \A b : x # clearing(b)
  <2>1. a # "escrow" /\ u # "clearing"
    BY StakesAssumption DEF StakesAssumption
  <2> QED
    BY <2>1 DEF available, escrow, clearing
<1>4. CASE job[w].refundAll
  <2>1. exitPostings(w, k) = refundPostings(r)
    BY <1>4 DEF exitPostings
  <2>2. CASE r.asset = POOL_ASSET
    <3>1. escrowPostings(r) = transfer(available(r.subject, POOL_ASSET), escrow(r.subject), r.poolAmount)
      BY <2>2 DEF escrowPostings
    <3>2. escrowPostings(r)[x] \in {- r.poolAmount, 0}
      BY <1>2, <1>3, <3>1 DEF transfer
    <3>3. refundPostings(r)[x] = - escrowPostings(r)[x]
      BY <1>2 DEF refundPostings
    <3> QED
      BY <1>1, <2>1, <3>2, <3>3
  <2>3. CASE r.asset # POOL_ASSET
    <3>1. /\ transfer(available(r.subject, r.asset), clearing(r.asset), r.stakeAmount)[x]
               \in {- r.stakeAmount, 0}
          /\ transfer(clearing(POOL_ASSET), escrow(r.subject), r.poolAmount)[x] = 0
      BY <1>2, <1>3 DEF transfer
    <3>2. escrowPostings(r)[x] \in {- r.stakeAmount + 0, 0 + 0}
      BY <1>2, <2>3, <3>1 DEF escrowPostings, both
    <3>3. refundPostings(r)[x] = - escrowPostings(r)[x]
      BY <1>2 DEF refundPostings
    <3> QED
      BY <1>1, <2>1, <3>2, <3>3
  <2> QED
    BY <2>2, <2>3
<1>5. CASE ~ job[w].refundAll
  <2>1. /\ transfer(escrow(r.subject), clearing(POOL_ASSET), r.poolAmount)[x] = 0
        /\ transfer(clearing(POOL_ASSET), available(r.subject, POOL_ASSET), n)[x] \in {n, 0}
    BY <1>2, <1>3 DEF transfer
  <2>2. exitPostings(w, k)[x] \in {0 + n, 0 + 0}
    BY <1>2, <1>5, <2>1 DEF exitPostings, poolPayoutPostings, both
  <2> QED
    BY <1>1, <2>2
<1> QED
  BY <1>4, <1>5

\* The ledger has no reason to refuse an exit.
LEMMA NotRefused ==
  ASSUME IInv, Undisturbed, NEW w \in Worker, NEW k \in entries["escrow"] \ exits,
         payoutFor(w, k) \in Nat
  PROVE  ~ overdraws(exitPostings(w, k))
PROOF
<1>1. k \in Stake /\ row[k] \in Row
  BY DEF IInv, Types, Stakes, StakeSound, Phase
<1>2. \A x \in UserAccount : bal[x] \in Nat
  <2>1. \A x \in UserAccount : x \in Account
    BY DEF Account
  <2> QED
    BY <2>1 DEF IInv, Types, Solvent
<1>3. ASSUME NEW u \in Subject
      PROVE  bal[escrow(u)] + exitPostings(w, k)[escrow(u)] >= 0
  <2> PICK h, In : h = holds(u) /\ In = entries["escrow"] \ exits
    OBVIOUS
  <2>1. IsFiniteSet(In) /\ \A j \in In : h[j] \in Nat /\ h[j] \in Int
    <3>1. IsFiniteSet(In)
      BY FinitelyMany, FS_Subset DEF IInv
    <3>2. \A j \in In : j \in Stake /\ row[j] \in Row
      BY DEF IInv, Types, Stakes, StakeSound, Phase
    <3>3. 0 \in Nat
      OBVIOUS
    <3>4. \A j \in In : h[j] \in Nat
      BY <3>2, <3>3, ThroughEscrow
    <3> QED
      BY <3>1, <3>4
  <2>2. SumFunctionOnSet(h, In) = h[k] + SumFunctionOnSet(h, In \ {k})
    <3>1. \A j \in In : h[j] \in Int
      BY <2>1
    <3> QED
      BY <2>1, <3>1, SumRemove
  <2>3. SumFunctionOnSet(h, In \ {k}) \in Nat
    <3>1. IsFiniteSet(In \ {k}) /\ \A j \in In \ {k} : h[j] \in Nat
      BY <2>1, FS_Subset
    <3> QED
      BY <3>1, SumNat
  <2>4. bal[escrow(u)] = SumFunctionOnSet(h, In)
    BY InEscrow
  <2>5. exitPostings(w, k)[escrow(u)] = - h[k]
    BY <1>1, ThroughEscrow DEF exitPostings
  <2> QED
    BY <2>1, <2>2, <2>3, <2>4, <2>5
<1>4. ASSUME NEW u \in Subject, NEW a \in Asset
      PROVE  bal[available(u, a)] + exitPostings(w, k)[available(u, a)] >= 0
  <2>1. exitPostings(w, k)[available(u, a)] \in Nat
    BY <1>1, OutOfEscrow
  <2>2. available(u, a) \in UserAccount
    BY DEF UserAccount
  <2> QED
    BY <1>2, <2>1, <2>2
<1>5. \A x \in UserAccount : bal[x] + exitPostings(w, k)[x] >= 0
  BY <1>3, <1>4 DEF UserAccount
<1>6. ASSUME NEW x \in UserAccount
      PROVE  ~ (bal[x] + exitPostings(w, k)[x] < 0)
  <2>1. bal[x] \in Int /\ exitPostings(w, k)[x] \in Int
    <3>1. x \in Account
      BY DEF Account
    <3>2. exitPostings(w, k) \in [Account -> Int]
      BY <1>1, Integers DEF exitPostings
    <3> QED
      BY <1>2, <3>1, <3>2
  <2> QED
    BY <1>5, <2>1
<1> QED
  BY <1>6 DEF overdraws

\* What is undisturbed has its escrow accounted for.
LEMMA CalmEscrow == IInv /\ Undisturbed => EscrowAccounted
PROOF
<1> SUFFICES ASSUME IInv, Undisturbed, NEW u \in Subject
             PROVE  bal[escrow(u)] = poolOf(({k \in Stake : row[k].state # "none" /\ row[k].subject = u}
                                               \cap entries["escrow"]) \ exits, poolAmount)
  BY DEF EscrowAccounted, exits
<1> PICK mine, In, h, p : /\ mine = {k \in Stake : row[k].state # "none" /\ row[k].subject = u}
                          /\ In = entries["escrow"] \ exits /\ h = holds(u) /\ p = poolAmount
  OBVIOUS
<1>1. \A k \in Stake : row[k] \in Row \cup {NoRow}
  BY DEF IInv, Types
<1>2. IsFiniteSet(In) /\ IsFiniteSet(In \cap mine) /\ IsFiniteSet(In \ mine)
  <2>1. IsFiniteSet(In)
    BY FinitelyMany, FS_Subset DEF IInv
  <2>2. In \cap mine \subseteq In /\ In \ mine \subseteq In
    OBVIOUS
  <2> QED
    BY <2>1, <2>2, FS_Subset
<1>3. \A k \in In : k \in Stake /\ row[k] \in Row
  BY DEF IInv, Types, Stakes, StakeSound, Phase
<1>4. /\ \A k \in In \cap mine : h[k] = p[k] /\ h[k] \in Int
      /\ \A k \in In \ mine : h[k] = 0
      /\ \A k \in In : h[k] \in Int
  BY <1>3, RowOrNone DEF holds, poolAmount, RowState
<1>5. SumFunctionOnSet(h, In \cap mine) = SumFunctionOnSet(p, In \cap mine)
  BY <1>2, <1>4, SumSame
<1>6. SumFunctionOnSet(h, In \ mine) = 0
  <2>1. PICK c \in Int : c = 0
    OBVIOUS
  <2>2. \A k \in In \ mine : h[k] = c
    BY <1>4, <2>1
  <2>3. SumFunctionOnSet(h, In \ mine) = c * Cardinality(In \ mine)
    BY <1>2, <2>2, SumConstant
  <2> QED
    BY <1>2, <2>1, <2>3, FS_CardinalityType
<1>7. SumFunctionOnSet(h, In) = SumFunctionOnSet(h, In \cap mine) + SumFunctionOnSet(h, In \ mine)
  <2>1. /\ In = (In \cap mine) \cup (In \ mine) /\ (In \cap mine) \cap (In \ mine) = {}
        /\ \A k \in (In \cap mine) \cup (In \ mine) : h[k] \in Int
    BY <1>4
  <2> QED
    BY <1>2, <2>1, SumUnion
<1>8. SumFunctionOnSet(h, In \cap mine) \in Int
  <2>1. \A k \in In \cap mine : h[k] \in Int
    BY <1>4
  <2> QED
    BY <1>2, <2>1, SumInt
<1>9. (mine \cap entries["escrow"]) \ exits = In \cap mine
  OBVIOUS
<1>10. bal[escrow(u)] = SumFunctionOnSet(h, In)
  BY InEscrow
<1>11. bal[escrow(u)] = SumFunctionOnSet(p, In \cap mine)
  BY <1>5, <1>6, <1>7, <1>8, <1>10
<1> QED
  BY <1>9, <1>11 DEF poolOf

\* A market that nothing is under way for has been settled.
LEMMA QuietIsSettled ==
  ASSUME IInv, Undisturbed, NEW m \in Market, over(m), quiet(m)
  PROVE  Settled(m)
PROOF
<1>1. \A w \in Worker : ~ UnderWay(m, job[w])
  BY DEF quiet, UnderWay
<1>2. CASE Waiting(m)
  <2>1. rowsOf(m) = {}
    BY <1>2 DEF Waiting, quiet, unresolvedStakes
  <2> QED
    BY <2>1 DEF Settled
<1> QED
  BY <1>1, <1>2 DEF Undisturbed, MarketCalm

\* Of every void market, when all are, what came in went back.
LEMMA CalmVoid == IInv /\ Undisturbed => VoidLeavesFlat
PROOF
<1> SUFFICES ASSUME IInv, Undisturbed, \A m \in Market : market[m].status = "void" /\ quiet(m)
             PROVE  bal = InitialBalance
  BY DEF VoidLeavesFlat
<1>1. \A m \in Market : over(m) /\ Settled(m) /\ market[m].status = "void"
  BY QuietIsSettled DEF over
<1>2. entries["payout"] = {}
  <2>1. ASSUME NEW k \in entries["payout"]
        PROVE  FALSE
    <3>1. k \in Stake /\ row[k] \in Row /\ PaidSound(k)
      BY DEF IInv, Types, Stakes, StakeSound, Phase
    <3>2. market[row[k].market].status = "resolved" /\ row[k].market \in Market
      BY <3>1, RowOrNone DEF PaidSound
    <3> QED
      BY <1>1, <3>2
  <2> QED
    BY <2>1
<1>3. entries["escrow"] = entries["refund"]
  <2>1. entries["refund"] \subseteq entries["escrow"]
    BY InThenOut DEF exits
  <2>2. ASSUME NEW k \in entries["escrow"]
        PROVE  k \in entries["refund"]
    <3>1. /\ k \in Stake /\ row[k] \in Row /\ request[k] \in RequestState /\ request[k] # "none"
          /\ RequestCalm(k)
      BY DEF IInv, Types, Stakes, StakeSound, Phase, Undisturbed
    <3>2. row[k].market \in Market /\ row[k].state # "none"
      BY <3>1, RowOrNone
    <3>3. request[k] = "done"
      BY <1>1, <3>1, <3>2 DEF RequestCalm, RequestState, inFlight
    <3>4. k \in rowsOf(row[k].market)
      BY <3>1, <3>2, <3>3 DEF RequestCalm, rowsOf
    <3>5. row[k].state = "refunded"
      BY <1>1, <3>2, <3>4 DEF Settled
    <3> QED
      BY <3>1, <3>5 DEF IInv, MarkedRowsHaveEntries
  <2> QED
    BY <2>1, <2>2
<1>4. ASSUME NEW x \in Account
      PROVE  bal[x] = InitialBalance[x]
  <2>0. \A S, f, g : IsFiniteSet(S) /\ (\A k \in S : f[k] \in Int /\ g[k] = - f[k])
                     => SumFunctionOnSet(g, S) = - SumFunctionOnSet(f, S)
    BY SumOpposite
  <2> PICK E, f, g : /\ E = entries["escrow"] /\ f = [k \in E |-> escrowPostings(row[k])[x]]
                     /\ g = [k \in E |-> refundPostings(row[k])[x]]
    OBVIOUS
  <2>1. IsFiniteSet(E)
    BY FinitelyMany DEF IInv
  <2>2. f \in [E -> Int] /\ \A k \in E : f[k] \in Int
    BY Moved DEF IInv
  <2>3. \A k \in E : g[k] = - f[k]
    BY DEF refundPostings
  <2>4. \A k \in E : f[k] \in Int /\ g[k] = - f[k]
    BY <2>2, <2>3
  <2>6. SumFunctionOnSet(g, E) = - SumFunctionOnSet(f, E)
    BY <2>0, <2>1, <2>4, Zenon
  <2>7. SumFunctionOnSet(f, E) \in Int
    BY <2>1, <2>2, SumInt
  <2>8. escrowed(x) = SumFunctionOnSet(f, E) /\ refunded(x) = SumFunctionOnSet(g, E)
    BY <1>3 DEF escrowed, refunded, SumFunction
  <2>9. paidOut(x) = 0
    BY <1>2, SumEmpty DEF paidOut, SumFunction
  <2>10. bal[x] = InitialBalance[x] + escrowed(x) + refunded(x) + paidOut(x) /\ InitialBalance[x] \in Int
    BY Totals DEF IInv, Booked
  <2> QED
    BY <2>6, <2>7, <2>8, <2>9, <2>10
<1>5. bal \in [Account -> Int] /\ InitialBalance = [x \in Account |-> InitialBalance[x]]
  BY DEF IInv, Types, InitialBalance
<1> QED
  BY <1>4, <1>5

\* And a pool that is paid is paid to the unit.
LEMMA CalmPool == IInv /\ Undisturbed => PoolConserved
PROOF
<1> SUFFICES ASSUME IInv, Undisturbed, NEW m \in Market, over(m), quiet(m)
             PROVE  SumFunctionOnSet(credited, paidRows(m)) = SumFunctionOnSet(poolAmount, paidRows(m))
  BY DEF PoolConserved, poolOf
<1>1. CASE \A k \in rowsOf(m) : row[k].state = "refunded"
  <2>1. paidRows(m) = {}
    BY <1>1 DEF paidRows
  <2> QED
    BY <2>1, SumEmpty
<1>2. CASE (\A k \in rowsOf(m) : row[k].state = "paid") /\ paid(m) = staked(m)
  <2> PICK S, f, g : /\ S = rowsOf(m) /\ f = [k \in S |-> credited[k]]
                     /\ g = [k \in S |-> row[k].poolAmount]
    OBVIOUS
  <2>1. paidRows(m) = S
    BY <1>2 DEF paidRows
  <2>2. /\ IsFiniteSet(S) /\ \A k \in S : k \in Stake /\ row[k] \in Row /\ row[k].poolAmount \in Nat
    BY RowsOfMarket DEF IInv
  <2>3. /\ \A k \in S : f[k] = credited[k] /\ f[k] \in Int
        /\ \A k \in S : g[k] = poolAmount[k] /\ g[k] \in Int
    BY <2>2, RowOrNone DEF IInv, Types, poolAmount, RowState
  <2>4. SumFunctionOnSet(f, S) = SumFunctionOnSet(credited, S)
    BY <2>2, <2>3, SumSame
  <2>5. SumFunctionOnSet(g, S) = SumFunctionOnSet(poolAmount, S)
    BY <2>2, <2>3, SumSame
  <2>6. SumFunctionOnSet(f, S) = SumFunctionOnSet(g, S)
    BY <1>2 DEF paid, staked, SumFunction
  <2> QED
    BY <2>1, <2>4, <2>5, <2>6
<1> QED
  BY <1>1, <1>2, QuietIsSettled DEF Settled

------------------------------------------------------------------------------
(* No step but a fault disturbs it.                                        *)

\* Nothing has happened.
LEMMA InitUndisturbed == Init => Undisturbed
PROOF
<1> SUFFICES ASSUME Init
             PROVE  Undisturbed
  OBVIOUS
<1>1. /\ \A m \in Market : ~ over(m)
      /\ \A k \in Stake : request[k] = "none" /\ k \notin exits
      /\ \A w \in Worker : job[w] = Idle
  BY DEF Init, over, exits, Phase
<1> QED
  BY <1>1, IdlePass DEF Undisturbed, RequestCalm, inFlight, ExitCalm, PassCalm, MarketCalm

\* A step is not about the stakes of m.
Rests(m) ==
  /\ market'[m] = market[m] /\ rowsOf(m)' = rowsOf(m)
  /\ \A k \in rowsOf(m) :
       /\ row'[k] = row[k] /\ credited'[k] = credited[k]
       /\ k \in entries'["refund"] <=> k \in entries["refund"]
       /\ k \in entries'["payout"] <=> k \in entries["payout"]

\* What is settled stays so, and what is under way as far as it was.
LEMMA RestsCalm ==
  ASSUME NEW m \in Market, Rests(m)
  PROVE  /\ over(m)' <=> over(m)
         /\ Waiting(m) => Waiting(m)'
         /\ Settled(m) => Settled(m)'
         /\ \A p : UnderWay(m, p) => UnderWay(m, p)'
PROOF
<1> PICK S : S = rowsOf(m)
  OBVIOUS
<1>1. /\ rowsOf(m)' = S /\ \A k \in S : row'[k] = row[k] /\ credited'[k] = credited[k]
      /\ \A k \in S : k \in exits' <=> k \in exits
  BY DEF Rests, exits
<1>2. staked(m)' = staked(m) /\ paid(m)' = paid(m)
  <2>1. [k \in S |-> row'[k].poolAmount] = [k \in S |-> row[k].poolAmount]
    BY <1>1
  <2>2. [k \in S |-> credited'[k]] = [k \in S |-> credited[k]]
    BY <1>1
  <2> QED
    BY <1>1, <2>1, <2>2 DEF staked, paid
<1>3. over(m)' <=> over(m)
  BY DEF Rests, over
<1>4. Waiting(m) => Waiting(m)'
  BY <1>1 DEF Waiting
<1>5. Settled(m) => Settled(m)'
  BY <1>1, <1>2 DEF Settled, Rests
<1>6. ASSUME NEW p, UnderWay(m, p)
      PROVE  UnderWay(m, p)'
  <2>1. unresolvedStakes(m)' = unresolvedStakes(m)
    BY <1>1 DEF unresolvedStakes
  <2>2. /\ \A k \in S :
             /\ row[k].state = "accepted" \/ row[k].state = IF p.refundAll THEN "refunded" ELSE "paid"
             /\ k \notin entries[IF p.refundAll THEN "payout" ELSE "refund"]
             /\ k \in exits /\ row[k].state = "accepted" => p.pc = "mark" /\ k = leastOf(p.todo)
             /\ k \in entries["payout"] => credited[k] = owed(p, k)
        /\ p.pc \in {"post", "mark"} /\ m = leastOf(p.due) /\ p.todo = unresolvedStakes(m)
        /\ ~ p.refundAll => SumFunction([k \in S |-> owed(p, k)]) = staked(m)
    BY <1>6 DEF UnderWay
  <2>3. \A k \in S :
             /\ row'[k].state = "accepted" \/ row'[k].state = IF p.refundAll THEN "refunded" ELSE "paid"
             /\ k \notin entries'[IF p.refundAll THEN "payout" ELSE "refund"]
             /\ k \in exits' /\ row'[k].state = "accepted" => p.pc = "mark" /\ k = leastOf(p.todo)
             /\ k \in entries'["payout"] => credited'[k] = owed(p, k)
    BY <1>1, <2>2 DEF Rests
  <2>4. ~ p.refundAll => SumFunction([k \in S |-> owed(p, k)]) = staked(m)'
    BY <1>2, <2>2
  <2> QED
    BY <1>1, <2>1, <2>2, <2>3, <2>4 DEF UnderWay
<1> QED
  BY <1>3, <1>4, <1>5, <1>6

\* So a market is as calm as it was, unless a pass at it went on.
LEMMA MarketStays ==
  ASSUME Undisturbed, NEW m \in Market, over(m), Rests(m),
         \A v \in Worker : UnderWay(m, job[v]) => job'[v] = job[v]
  PROVE  MarketCalm(m)'
PROOF
<1>1. Waiting(m) \/ Settled(m) \/ \E w \in Worker : UnderWay(m, job[w])
  BY DEF Undisturbed, MarketCalm
<1>2. CASE Waiting(m) \/ Settled(m)
  BY <1>2, RestsCalm DEF MarketCalm
<1>3. ASSUME NEW w \in Worker, UnderWay(m, job[w])
      PROVE  UnderWay(m, job[w])'
  <2>1. PICK p : p = job[w] /\ p = job'[w]
    BY <1>3
  <2>2. UnderWay(m, p)'
    BY <1>3, <2>1, RestsCalm
  <2> QED
    BY <2>1, <2>2 DEF UnderWay
<1> QED
  BY <1>1, <1>2, <1>3 DEF MarketCalm

\* A pass that a step leaves where it is, at a market that rests, is as calm as it was.
LEMMA PassRests ==
  ASSUME IInv, Undisturbed, NEW w \in Worker, job'[w] = job[w],
         job[w].pc # "idle" => holder' = holder,
         job[w].pc \in {"post", "mark"} => Rests(nextDue(w))
  PROVE  PassCalm(w)'
PROOF
<1>1. PassCalm(w)
  BY DEF Undisturbed
<1>2. PICK p, n : p = job[w] /\ p = job'[w] /\ n = leastOf(p.due)
  OBVIOUS
<1>3. p.pc # "idle" => holder' = w
  BY <1>1, <1>2 DEF PassCalm
<1>4. ASSUME p.pc \in {"post", "mark"}
      PROVE  UnderWay(nextDue(w), job[w])'
  <2>1. n \in Market /\ nextDue(w) = n /\ Rests(n) /\ UnderWay(n, p)
    BY <1>1, <1>2, <1>4, InHand DEF nextDue, PassCalm
  <2>2. UnderWay(n, p)'
    BY <2>1, RestsCalm
  <2>3. nextDue(w)' = n
    BY <1>2 DEF nextDue
  <2> QED
    BY <1>2, <2>2, <2>3 DEF UnderWay
<1> QED
  BY <1>2, <1>3, <1>4 DEF PassCalm

\* So a step of a market or of a request disturbs nothing, if a market that it ends waits.
LEMMA Aside ==
  ASSUME IInv, Undisturbed, UNCHANGED <<credited, job, holder>>,
         entries'["refund"] = entries["refund"], entries'["payout"] = entries["payout"],
         \A m \in Market : over(m) => Rests(m),
         \A m \in Market : over(m)' => over(m) \/ Waiting(m)',
         \A k \in Stake : RequestCalm(k)'
  PROVE  Undisturbed'
PROOF
<1>1. ASSUME NEW k \in Stake
      PROVE  ExitCalm(k)'
  <2>1. CASE k \in exits
    <3>1. PICK m \in Market : m = row[k].market /\ over(m) /\ k \in rowsOf(m)
      BY <2>1, InThenOut
    <3>2. Rests(m)
      BY <3>1
    <3>3. row'[k] = row[k] /\ over(m)' /\ k \in rowsOf(m)'
      BY <3>1, <3>2, RestsCalm DEF Rests
    <3>4. row'[k].market = m
      BY <3>1, <3>3
    <3> QED
      BY <3>3, <3>4 DEF ExitCalm
  <2>2. CASE k \notin exits
    BY <2>2 DEF ExitCalm, exits
  <2> QED
    BY <2>1, <2>2
<1>2. ASSUME NEW w \in Worker
      PROVE  PassCalm(w)'
  <2>1. job[w].pc \in {"post", "mark"} => Rests(nextDue(w))
    BY InHand
  <2> QED
    BY <2>1, PassRests
<1>3. ASSUME NEW m \in Market
      PROVE  MarketCalm(m)'
  <2>1. CASE over(m)
    BY <2>1, MarketStays
  <2>2. CASE ~ over(m)
    BY <2>2 DEF MarketCalm
  <2> QED
    BY <2>1, <2>2
<1> QED
  BY <1>1, <1>2, <1>3 DEF Undisturbed

\* A step about one stake, which is not of m, is not about the stakes of m.
LEMMA OthersRest ==
  ASSUME NEW m \in Market, market'[m] = market[m], NEW k \in Stake, k \notin rowsOf(m), k \notin rowsOf(m)',
         \A j \in Stake : j # k => row'[j] = row[j] /\ credited'[j] = credited[j],
         \A j \in Stake : j # k => /\ j \in entries'["refund"] <=> j \in entries["refund"]
                                   /\ j \in entries'["payout"] <=> j \in entries["payout"]
  PROVE  Rests(m)
PROOF
<1>1. \A j \in Stake : j \in rowsOf(m)' <=> j \in rowsOf(m)
  BY DEF rowsOf
<1>2. rowsOf(m)' \subseteq Stake /\ rowsOf(m) \subseteq Stake
  BY DEF rowsOf
<1>3. rowsOf(m)' = rowsOf(m)
  BY <1>1, <1>2
<1>4. \A j \in rowsOf(m) : j \in Stake /\ j # k
  BY <1>2
<1>5. \A j \in rowsOf(m) : row'[j] = row[j] /\ credited'[j] = credited[j]
  BY <1>4
<1>6. \A j \in rowsOf(m) : /\ j \in entries'["refund"] <=> j \in entries["refund"]
                           /\ j \in entries'["payout"] <=> j \in entries["payout"]
  BY <1>4
<1> QED
  BY <1>3, <1>5, <1>6 DEF Rests

\* A step of a request whose market is open still, or was when it began.
LEMMA RequestAside ==
  ASSUME IInv, Undisturbed, Stable, NEW k \in Stake, UNCHANGED <<market, credited, job, holder>>,
         entries'["refund"] = entries["refund"], entries'["payout"] = entries["payout"],
         \A j \in Stake : j # k => /\ row'[j] = row[j] /\ request'[j] = request[j]
                                   /\ j \in entries'["escrow"] <=> j \in entries["escrow"],
         row'[k] \in Row, row[k] \in Row \cup {NoRow}, row[k] \in Row => row[k].market = row'[k].market,
         ~ over(row'[k].market), RequestCalm(k)'
  PROVE  Undisturbed'
PROOF
<1>1. \A m \in Market : (over(m)' <=> over(m)) /\ market'[m] = market[m]
  BY DEF over
<1>2. ASSUME NEW m \in Market, over(m)
      PROVE  Rests(m)
  <2>1. k \notin rowsOf(m)'
    BY <1>2 DEF rowsOf
  <2>2. k \notin rowsOf(m)
    BY <1>2, RowOrNone DEF rowsOf
  <2>3. /\ \A j \in Stake : j # k => row'[j] = row[j] /\ credited'[j] = credited[j]
        /\ \A j \in Stake : j # k => /\ j \in entries'["refund"] <=> j \in entries["refund"]
                                     /\ j \in entries'["payout"] <=> j \in entries["payout"]
    OBVIOUS
  <2>4. market'[m] = market[m]
    BY <1>1
  <2> QED
    BY <2>1, <2>2, <2>3, <2>4, OthersRest
<1>3. ASSUME NEW j \in Stake, j # k
      PROVE  RequestCalm(j)'
  <2>1. RequestCalm(j)
    BY DEF Undisturbed
  <2>2. row'[j] = row[j] /\ request'[j] = request[j] /\ market' = market
    BY <1>3
  <2>3. j \in entries'["escrow"] <=> j \in entries["escrow"]
    BY <1>3
  <2>4. over(row[j].market)' <=> over(row[j].market)
    BY <2>2 DEF over
  <2>5. inFlight(j)' <=> inFlight(j)
    BY <2>2 DEF inFlight
  <2> QED
    BY <2>1, <2>2, <2>3, <2>4, <2>5 DEF RequestCalm
<1>4. \A j \in Stake : RequestCalm(j)'
  BY <1>3
<1> QED
  BY <1>1, <1>2, <1>4, Aside

\* A market that ends has no request in flight, so all its stakes are accepted.
LEMMA CalmMarket ==
  ASSUME IInv, Undisturbed, Stable, marketStep, ~ EndsInFlight
  PROVE  Undisturbed'
PROOF
<1>1. UNCHANGED <<row, request, entries, credited, bal, job, holder, attempts, faults>>
  BY DEF marketStep, closeMarket, voidMarket, markResolved, ledger, runner
<1>2. ASSUME NEW m \in Market, over(m)', ~ over(m)
      PROVE  \A k \in rowsOf(m) : ~ inFlight(k)
  <2>1. PICK n \in Market : closeMarket(n) \/ voidMarket(n) \/ \E o \in 0..1 : markResolved(n, o)
    BY DEF marketStep
  <2>2. market \in [Market -> [status : Status, outcome : 0..1]]
    BY DEF IInv, Types
  <2>3. ~ closeMarket(n)
    BY <1>2, <2>2 DEF closeMarket, over
  <2>4. mayEnd(n)
    BY <2>1, <2>3 DEF voidMarket, markResolved
  <2>5. n = m
    BY <1>2, <2>1, <2>2 DEF closeMarket, voidMarket, markResolved, over
  <2> QED
    BY <2>4, <2>5 DEF mayEnd
<1>3. ASSUME NEW m \in Market, over(m)
      PROVE  Rests(m)
  BY <1>1, <1>3 DEF Stable, Rests, rowsOf
<1>4. ASSUME NEW m \in Market, over(m)', ~ over(m)
      PROVE  Waiting(m)'
  <2>1. ASSUME NEW k \in rowsOf(m)
        PROVE  row[k].state = "accepted" /\ k \notin exits
    <3>1. /\ k \in Stake /\ row[k] \in Row /\ row[k].market = m
          /\ row[k].state \in RowState /\ row[k].state \notin {"none", "deleted"}
      BY RowOrNone DEF rowsOf, IInv, Types, RowState
    <3>2. k \notin exits
      BY <1>4, <3>1, InThenOut
    <3>3. row[k].state \notin {"refunded", "paid"}
      BY <3>1, <3>2 DEF IInv, MarkedRowsHaveEntries, exits
    <3> QED
      BY <3>1, <3>2, <3>3 DEF RowState
  <2>2. rowsOf(m)' = rowsOf(m) /\ exits' = exits
    BY <1>1 DEF rowsOf, exits
  <2> QED
    BY <1>1, <2>1, <2>2 DEF Waiting
<1>5. ASSUME NEW k \in Stake
      PROVE  RequestCalm(k)'
  <2>1. RequestCalm(k)
    BY DEF Undisturbed
  <2>2. ASSUME inFlight(k)
        PROVE  ~ over(row[k].market)'
    <3>1. row[k].state = "accepted" /\ ~ over(row[k].market)
      BY <2>1, <2>2 DEF RequestCalm
    <3>2. row[k] \in Row /\ row[k].market \in Market
      BY <3>1, RowOrNone DEF IInv, Types
    <3>3. k \in rowsOf(row[k].market)
      BY <3>1 DEF rowsOf
    <3> QED
      BY <1>1, <1>2, <2>2, <3>1, <3>2, <3>3 DEF over
  <2>3. inFlight(k)' <=> inFlight(k)
    BY <1>1 DEF inFlight
  <2>4. row'[k] = row[k] /\ request'[k] = request[k] /\ entries' = entries
    BY <1>1
  <2> QED
    BY <1>1, <2>1, <2>2, <2>3, <2>4 DEF RequestCalm
<1> QED
  BY <1>1, <1>3, <1>4, <1>5, Aside

\* A fresh request is of an open market.
LEMMA CalmAccept ==
  ASSUME IInv, Undisturbed, Stable, IInv', NEW k \in Stake, NEW t \in Term, acceptStake(k, t)
  PROVE  Undisturbed'
PROOF
<1>1. /\ request[k] = "none" /\ request' = [request EXCEPT ![k] = "posting"]
      /\ market[t.market].status = "open"
      /\ UNCHANGED <<market, entries, credited, bal, job, holder, attempts, faults>>
  BY DEF acceptStake, ledger, runner
<1>2. Types /\ row' \in [Stake -> Row \cup {NoRow}]
  BY DEF IInv, Types
<1>3. row[k] = NoRow
  BY <1>1 DEF IInv, Stakes, StakeSound
<1>4. /\ row'[k].market = t.market /\ row'[k].state = "accepted" /\ row'[k].escrowed = FALSE
      /\ \A j \in Stake : j # k => row'[j] = row[j]
  BY <1>2 DEF acceptStake, Types
<1>5. row'[k] \in Row
  BY <1>2, <1>4, RowOrNone
<1>6. request'[k] = "posting" /\ \A j \in Stake : j # k => request'[j] = request[j]
  BY <1>1, <1>2 DEF Types
<1>7. ~ over(row'[k].market) /\ ~ over(row[k].market)'
  BY <1>1, <1>4 DEF over
<1>8. RequestCalm(k)'
  BY <1>4, <1>6, <1>7 DEF RequestCalm, inFlight
<1>9. row[k] \notin Row /\ row[k] \in Row \cup {NoRow}
  BY <1>3, RowOrNone
<1> QED
  BY <1>1, <1>4, <1>5, <1>6, <1>7, <1>8, <1>9, RequestAside

\* A request whose market is open still has its row as it wrote it.
LEMMA CalmRequest ==
  ASSUME IInv, Undisturbed, NEW k \in Stake, inFlight(k)
  PROVE  /\ row[k] \in Row /\ row[k].state = "accepted" /\ row[k].escrowed = FALSE
         /\ ~ over(row[k].market)
PROOF
<1>1. RequestCalm(k)
  BY DEF Undisturbed
<1>2. row[k].state = "accepted" /\ ~ row[k].escrowed /\ ~ over(row[k].market)
  BY <1>1 DEF RequestCalm
<1>3. row[k] \in Row
  BY <1>2, RowOrNone DEF IInv, Types
<1> QED
  BY <1>2, <1>3, RowOrNone

\* A call that is answered leaves an entry, or no row.
LEMMA CalmPost ==
  ASSUME IInv, Undisturbed, Stable, NEW k \in Stake, postEscrow(k), faults = 0, faults' = 0
  PROVE  Undisturbed'
PROOF
<1>1. PICK recorded \in BOOLEAN, answer \in Answer :
        /\ postEntry(FALSE, escrowPostings(row[k]), recorded, answer)
        /\ entries' = [entries EXCEPT !.escrow = IF recorded THEN @ \cup {k} ELSE @]
        /\ request' = [request EXCEPT ![k] = IF answer = "ok" THEN "recording" ELSE "failed"]
        /\ row' = IF answer = "refused" THEN afterRefusal(k) ELSE row
  BY DEF postEscrow
<1>2. request[k] = "posting" /\ UNCHANGED <<market, credited, job, holder>>
  BY DEF postEscrow, runner
<1>3. /\ row[k] \in Row /\ row[k].state = "accepted" /\ row[k].escrowed = FALSE
      /\ ~ over(row[k].market)
  BY <1>2, CalmRequest DEF inFlight
<1>4. (answer = "ok" /\ recorded) \/ (answer = "refused" /\ ~ recorded)
  BY <1>1 DEF postEntry, fault
<1>5. /\ Types /\ k \notin entries["escrow"]
  BY <1>2 DEF IInv, Stakes, StakeSound
<1>6. /\ entries'["refund"] = entries["refund"] /\ entries'["payout"] = entries["payout"]
      /\ entries'["escrow"] = IF recorded THEN entries["escrow"] \cup {k} ELSE entries["escrow"]
  BY <1>1, <1>5 DEF Types, Phase
<1>7. /\ request'[k] = IF answer = "ok" THEN "recording" ELSE "failed"
      /\ \A j \in Stake : j # k => request'[j] = request[j]
  BY <1>1, <1>5 DEF Types
<1>8. /\ row'[k] \in Row /\ SameTerms(row[k], row'[k])
      /\ \A j \in Stake : j # k => row'[j] = row[j]
      /\ answer = "ok" => row'[k] = row[k]
      /\ answer = "refused" => row'[k].state = "deleted"
  <2>1. row'[k] \in Row /\ SameTerms(row[k], row'[k])
    BY <1>3, <1>5, TermsStay
  <2>2. row' = IF answer = "refused" THEN [row EXCEPT ![k].state = "deleted"] ELSE row
    BY <1>1, <1>3 DEF afterRefusal
  <2>3. row \in [Stake -> Row \cup {NoRow}]
    BY <1>5 DEF Types
  <2>4. CASE answer = "refused"
    <3>1. row' = [row EXCEPT ![k].state = "deleted"] /\ "deleted" \in {"deleted", "refunded", "paid"}
      BY <2>2, <2>4
    <3> QED
      BY <1>3, <1>5, <2>1, <2>4, <3>1, Marked
  <2> QED
    BY <2>1, <2>2, <2>3, <2>4
<1>9. row'[k].market = row[k].market /\ ~ over(row'[k].market) /\ ~ over(row[k].market)'
  BY <1>2, <1>3, <1>8 DEF SameTerms, over
<1>10. RequestCalm(k)'
  <2>1. CASE answer = "ok"
    <3>1. request'[k] = "recording" /\ row'[k] = row[k]
      BY <1>7, <1>8, <2>1
    <3> QED
      BY <1>3, <1>9, <3>1 DEF RequestCalm, inFlight
  <2>2. CASE answer = "refused"
    <3>1. request'[k] = "failed" /\ row'[k].state = "deleted" /\ k \notin entries'["escrow"]
      BY <1>4, <1>5, <1>6, <1>7, <1>8, <2>2
    <3> QED
      BY <3>1 DEF RequestCalm, inFlight
  <2> QED
    BY <1>4, <2>1, <2>2
<1>11. \A j \in Stake : j # k => /\ row'[j] = row[j] /\ request'[j] = request[j]
                                 /\ j \in entries'["escrow"] <=> j \in entries["escrow"]
  BY <1>6, <1>7, <1>8
<1>12. /\ row'[k] \in Row /\ row[k] \in Row \cup {NoRow}
       /\ row[k] \in Row => row[k].market = row'[k].market
  BY <1>3, <1>8, <1>9
<1> QED
  BY <1>2, <1>6, <1>9, <1>10, <1>11, <1>12, RequestAside

\* The row is there still to take the entry's id.
LEMMA CalmRecord ==
  ASSUME IInv, Undisturbed, Stable, NEW k \in Stake, recordEscrowEntry(k)
  PROVE  Undisturbed'
PROOF
<1>1. /\ request[k] = "recording"
      /\ UNCHANGED <<market, entries, credited, bal, job, holder, attempts, faults>>
  BY DEF recordEscrowEntry, ledger, runner
<1>2. /\ row[k] \in Row /\ row[k].state = "accepted" /\ row[k].escrowed = FALSE
      /\ ~ over(row[k].market)
  BY <1>1, CalmRequest DEF inFlight
<1>3. /\ row' = [row EXCEPT ![k].escrowed = TRUE]
      /\ request' = [request EXCEPT ![k] = "done"]
  BY <1>2 DEF recordEscrowEntry
<1>4. Types /\ k \in entries["escrow"]
  BY <1>1 DEF IInv, Stakes, StakeSound
<1>5. /\ row'[k] \in Row /\ row'[k].state = "accepted"
      /\ \A j \in Stake : j # k => row'[j] = row[j]
  BY <1>2, <1>3, <1>4, Recorded
<1>6. SameTerms(row[k], row'[k])
  BY <1>2, <1>4, TermsStay
<1>7. request'[k] = "done" /\ \A j \in Stake : j # k => request'[j] = request[j]
  BY <1>3, <1>4 DEF Types
<1>8. row'[k].market = row[k].market /\ ~ over(row'[k].market)
  BY <1>2, <1>6 DEF SameTerms
<1>9. RequestCalm(k)'
  BY <1>1, <1>4, <1>5, <1>7 DEF RequestCalm, inFlight
<1>10. \A j \in Stake : j # k => /\ row'[j] = row[j] /\ request'[j] = request[j]
                                 /\ j \in entries'["escrow"] <=> j \in entries["escrow"]
  BY <1>1, <1>5, <1>7
<1>11. /\ row'[k] \in Row /\ row[k] \in Row \cup {NoRow}
       /\ row[k] \in Row => row[k].market = row'[k].market
       /\ entries'["refund"] = entries["refund"] /\ entries'["payout"] = entries["payout"]
  BY <1>1, <1>2, <1>5, <1>8
<1> QED
  BY <1>1, <1>8, <1>9, <1>10, <1>11, RequestAside

\* One pass is at work at a time.
LEMMA Alone ==
  ASSUME IInv, Undisturbed, NEW w \in Worker, job[w].pc # "idle" \/ holder = NoWorker
  PROVE  /\ \A v \in Worker : v # w => job[v].pc = "idle"
         /\ \A m : \A v \in Worker : UnderWay(m, job[v]) =>
              v = w /\ m = nextDue(w) /\ job[w].pc \in {"post", "mark"}
PROOF
<1>1. \A v \in Worker : job[v].pc # "idle" => holder = v /\ v # NoWorker
  BY StakesAssumption DEF Undisturbed, PassCalm, StakesAssumption
<1>2. \A v \in Worker : v # w => job[v].pc = "idle"
  BY <1>1
<1>3. ASSUME NEW m, NEW v \in Worker, UnderWay(m, job[v])
      PROVE  v = w /\ m = nextDue(w) /\ job[w].pc \in {"post", "mark"}
  <2>1. job[v].pc \in {"post", "mark"} /\ m = leastOf(job[v].due)
    BY <1>3 DEF UnderWay
  <2> QED
    BY <1>2, <2>1 DEF nextDue
<1> QED
  BY <1>2, <1>3

\* A step of a pass that touches neither rows nor the ledger.
LEMMA NothingMoves ==
  ASSUME IInv, Undisturbed, UNCHANGED <<market, row, request, entries, credited>>
  PROVE  /\ \A k \in Stake : RequestCalm(k)' /\ ExitCalm(k)'
         /\ \A m \in Market : Rests(m)
PROOF
<1>1. \A m : /\ over(m)' <=> over(m)
             /\ rowsOf(m)' = rowsOf(m)
  BY DEF over, rowsOf
<1>2. ASSUME NEW m \in Market
      PROVE  Rests(m)
  BY <1>1 DEF Rests
<1>3. ASSUME NEW k \in Stake
      PROVE  RequestCalm(k)'
  <2>1. RequestCalm(k)
    BY DEF Undisturbed
  <2>2. inFlight(k)' <=> inFlight(k)
    BY DEF inFlight
  <2>3. over(row[k].market)' <=> over(row[k].market)
    BY DEF over
  <2> QED
    BY <2>1, <2>2, <2>3 DEF RequestCalm
<1>4. ASSUME NEW k \in Stake
      PROVE  ExitCalm(k)'
  <2>1. ExitCalm(k)
    BY DEF Undisturbed
  <2>2. over(row[k].market)' <=> over(row[k].market)
    BY DEF over
  <2>3. exits' = exits /\ rowsOf(row[k].market)' = rowsOf(row[k].market)
    BY DEF exits, rowsOf
  <2> QED
    BY <2>1, <2>2, <2>3 DEF ExitCalm
<1> QED
  BY <1>2, <1>3, <1>4

\* A pass that is at no market, before the step and after it.
LEMMA NoneUnderWay ==
  ASSUME IInv, Undisturbed, UNCHANGED <<market, row, request, entries, credited>>,
         NEW w \in Worker, job[w].pc = "pick" \/ holder = NoWorker, NEW p,
         job' = [job EXCEPT ![w] = p], p.pc \notin {"post", "mark"},
         p.pc # "idle" => holder' = w
  PROVE  Undisturbed'
PROOF
<1>1. /\ \A v \in Worker : v # w => job[v].pc = "idle"
      /\ \A m : \A v \in Worker : UnderWay(m, job[v]) => job[w].pc \in {"post", "mark"} /\ v = w
  BY Alone
<1>2. job[w].pc \notin {"post", "mark"}
  BY StakesAssumption DEF Undisturbed, PassCalm, StakesAssumption
<1>3. \A v \in Worker : job'[v] = IF v = w THEN p ELSE job[v]
  BY DEF IInv, Types
<1>4. \A v \in Worker : PassCalm(v)'
  <2>1. \A v \in Worker : job'[v].pc \notin {"post", "mark"} /\ (job'[v].pc # "idle" => holder' = v)
    BY <1>1, <1>3
  <2> QED
    BY <2>1 DEF PassCalm
<1>5. ASSUME NEW m \in Market
      PROVE  MarketCalm(m)'
  <2>1. Rests(m) /\ \A v \in Worker : ~ UnderWay(m, job[v])
    BY <1>1, <1>2, NothingMoves
  <2>2. CASE over(m)
    BY <2>1, <2>2, MarketStays
  <2>3. CASE ~ over(m)
    BY <2>1, <2>3, RestsCalm DEF MarketCalm
  <2> QED
    BY <2>2, <2>3
<1> QED
  BY <1>4, <1>5, NothingMoves DEF Undisturbed

\* A pass begins at none.
LEMMA CalmStart ==
  ASSUME IInv, Undisturbed, NEW w \in Worker, startPass(w)
  PROVE  Undisturbed'
PROOF
<1>1. /\ UNCHANGED <<market, row, request, entries, credited>>
      /\ holder = NoWorker /\ holder' = w
  BY DEF startPass, ledger
<1>2. PICK p : /\ p = [Idle EXCEPT !.pc = "pick", !.due = marketsAwaitingCustodialSettlement]
               /\ job' = [job EXCEPT ![w] = p]
  BY DEF startPass
<1>3. p.pc = "pick"
  BY <1>2 DEF Idle
<1> QED
  BY <1>1, <1>2, <1>3, NoneUnderWay

\* What a pass owes of a pool that has winners comes to what was staked.
LEMMA OwedIsStaked ==
  ASSUME Types, NEW m, rowsOf(m) = unresolvedStakes(m), NEW p, p.payouts = payoutsOf(m),
         DOMAIN p.payouts # {}
  PROVE  SumFunction([k \in rowsOf(m) |-> owed(p, k)]) = staked(m)
PROOF
<1> PICK S, d, D : S = unresolvedStakes(m) /\ d = payoutsOf(m) /\ D = DOMAIN d
  OBVIOUS
<1>1. /\ \A k \in D : k \in S /\ d[k] \in Nat
      /\ SumFunction(d) = poolOf(S, [k \in S |-> row[k].poolAmount])
  BY Divided
<1>2. IsFiniteSet(S) /\ IsFiniteSet(D) /\ IsFiniteSet(S \ D)
  <2>1. IsFiniteSet(S) /\ D \subseteq S /\ S \ D \subseteq S
    BY <1>1, RowsOfMarket
  <2> QED
    BY <2>1, FS_Subset
<1>3. SumFunctionOnSet(d, D) = staked(m)
  BY <1>1 DEF SumFunction, poolOf, staked
<1>4. \A f : f = [k \in S |-> owed(p, k)] => SumFunctionOnSet(f, S) = SumFunctionOnSet(d, D)
  <2> SUFFICES ASSUME NEW f, \A k \in D : f[k] = d[k] /\ f[k] \in Int, \A k \in S \ D : f[k] = 0
               PROVE  SumFunctionOnSet(f, S) = SumFunctionOnSet(d, D)
    BY <1>1 DEF owed
  <2>1. SumFunctionOnSet(f, D) = SumFunctionOnSet(d, D)
    BY <1>2, SumSame
  <2>2. SumFunctionOnSet(f, S \ D) = 0
    <3>1. PICK c \in Int : c = 0
      OBVIOUS
    <3>2. \A k \in S \ D : f[k] = c
      BY <3>1
    <3>3. SumFunctionOnSet(f, S \ D) = c * Cardinality(S \ D)
      BY <1>2, <3>2, SumConstant
    <3> QED
      BY <1>2, <3>1, <3>3, FS_CardinalityType
  <2>3. SumFunctionOnSet(f, S) = SumFunctionOnSet(f, D) + SumFunctionOnSet(f, S \ D)
    <3>1. D \cap (S \ D) = {} /\ (\A k \in D \cup (S \ D) : f[k] \in Int) /\ S = D \cup (S \ D)
      BY <1>1
    <3> QED
      BY <1>2, <3>1, SumUnion
  <2>4. SumFunctionOnSet(f, D) \in Int
    <3>1. \A k \in D : f[k] \in Int
      OBVIOUS
    <3> QED
      BY <1>2, <3>1, SumInt
  <2> QED
    BY <2>1, <2>2, <2>3, <2>4
<1> QED
  BY <1>3, <1>4 DEF SumFunction

\* A pass takes up a market that nobody took up before, and divides the whole of its pool.
LEMMA PickUnderWay ==
  ASSUME IInv, Undisturbed, NEW w \in Worker, job[w].pc = "pick", NEW m \in Market, over(m),
         unresolvedStakes(m) # {}, NEW p, p.pc = "post", m = leastOf(p.due),
         p.todo = unresolvedStakes(m), p.refundAll <=> DOMAIN p.payouts = {},
         p.payouts = IF market[m].status = "void" THEN [k \in {} |-> 0] ELSE payoutsOf(m)
  PROVE  UnderWay(m, p)
PROOF
<1>1. Waiting(m)
  <2>1. \A v \in Worker : ~ UnderWay(m, job[v])
    BY Alone
  <2>2. ~ Settled(m)
    BY DEF Settled, unresolvedStakes
  <2> QED
    BY <2>1, <2>2 DEF Undisturbed, MarketCalm
<1>2. rowsOf(m) = unresolvedStakes(m)
  BY <1>1 DEF Waiting, unresolvedStakes
<1>3. \A k \in rowsOf(m) : /\ row[k].state = "accepted" /\ k \notin exits
                           /\ k \notin entries["refund"] /\ k \notin entries["payout"]
  BY <1>1 DEF Waiting, exits
<1>4. ~ p.refundAll => SumFunction([k \in rowsOf(m) |-> owed(p, k)]) = staked(m)
  <2> SUFFICES ASSUME ~ p.refundAll
               PROVE  SumFunction([k \in rowsOf(m) |-> owed(p, k)]) = staked(m)
    OBVIOUS
  <2>1. DOMAIN p.payouts # {}
    OBVIOUS
  <2>2. p.payouts = payoutsOf(m)
    BY <2>1
  <2> QED
    BY <1>2, <2>1, <2>2, OwedIsStaked DEF IInv
<1> QED
  BY <1>3, <1>4 DEF UnderWay

\* The next market of a pass was left alone so far, and is divided whole.
LEMMA CalmPick ==
  ASSUME IInv, Undisturbed, NEW w \in Worker, pickMarket(w)
  PROVE  Undisturbed'
PROOF
<1> PICK q, m, S : q = job[w] /\ m = nextDue(w) /\ S = unresolvedStakes(m)
  OBVIOUS
<1>1. UNCHANGED <<market, row, request, entries, credited>> /\ q.pc = "pick" /\ q \in Pass
  BY DEF pickMarket, ledger, IInv, Types
<1>2. holder = w
  BY <1>1 DEF Undisturbed, PassCalm
<1>3. CASE q.due = {}
  <2>1. job' = [job EXCEPT ![w] = Idle]
    BY <1>3 DEF pickMarket, complete
  <2> QED
    BY <1>1, <2>1, IdlePass, NoneUnderWay
<1>4. CASE q.due # {} /\ S = {}
  <2>1. PICK p : p = [q EXCEPT !.due = @ \ {m}] /\ job' = [job EXCEPT ![w] = p] /\ holder' = holder
    BY <1>4 DEF pickMarket
  <2>2. p.pc = "pick"
    <3>1. q = [pc |-> q.pc, due |-> q.due, todo |-> q.todo, refundAll |-> q.refundAll,
               payouts |-> q.payouts]
      BY <1>1 DEF Pass
    <3> QED
      BY <1>1, <2>1, <3>1
  <2> QED
    BY <1>1, <1>2, <2>1, <2>2, NoneUnderWay
<1>5. CASE q.due # {} /\ S # {}
  <2>1. PICK d : d = IF market[m].status = "void" THEN [k \in {} |-> 0] ELSE payoutsOf(m)
    OBVIOUS
  <2>2. PICK p : /\ p = [q EXCEPT !.pc = "post", !.todo = S, !.refundAll = DOMAIN d = {}, !.payouts = d]
                 /\ job' = [job EXCEPT ![w] = p] /\ holder' = holder
    BY <1>5, <2>1 DEF pickMarket
  <2>3. PICK none \in BOOLEAN : none <=> DOMAIN d = {}
    OBVIOUS
  <2>4. q = [pc |-> q.pc, due |-> q.due, todo |-> q.todo, refundAll |-> q.refundAll,
             payouts |-> q.payouts]
    BY <1>1 DEF Pass
  <2>5. p.pc = "post" /\ p.due = q.due /\ p.todo = S /\ (p.refundAll <=> none) /\ p.payouts = d
    BY <2>2, <2>3, <2>4
  <2>6. m \in Market /\ over(m)
    <3>1. q.due \in SUBSET Market /\ PassSound(q)
      BY <1>1 DEF Pass, IInv, Passes
    <3>2. q.due \in SUBSET Int /\ IsFiniteSet(q.due)
      BY <3>1, Numbered, FS_Subset
    <3>3. m \in q.due
      BY <1>5, <3>2, Least DEF nextDue
    <3> QED
      BY <3>1, <3>3 DEF PassSound
  <2>7. m = leastOf(p.due)
    BY <2>5 DEF nextDue
  <2>8. UnderWay(m, p)
    BY <1>1, <1>5, <2>1, <2>3, <2>5, <2>6, <2>7, PickUnderWay
  <2>9. UnderWay(m, p)'
    BY <1>1, <2>6, <2>8, NothingMoves, RestsCalm
  <2>10. \A v \in Worker : job'[v] = IF v = w THEN p ELSE job[v]
    BY <2>2 DEF IInv, Types
  <2>11. \A v \in Worker : v # w => job[v].pc = "idle"
    BY <1>1, Alone
  <2>12. UnderWay(m, job[w])' /\ nextDue(w)' = m
    <3>1. job'[w] = p
      BY <2>10
    <3> QED
      BY <2>7, <2>9, <3>1 DEF UnderWay, nextDue
  <2>13. ASSUME NEW v \in Worker
         PROVE  PassCalm(v)'
    <3>1. CASE v = w
      BY <1>2, <2>2, <2>12, <3>1 DEF PassCalm
    <3>2. CASE v # w
      BY <2>10, <2>11, <3>2 DEF PassCalm
    <3> QED
      BY <3>1, <3>2
  <2>14. ASSUME NEW n \in Market
         PROVE  MarketCalm(n)'
    <3>1. Rests(n) /\ \A v \in Worker : ~ UnderWay(n, job[v])
      BY <1>1, NothingMoves, Alone
    <3>2. CASE over(n)
      BY <3>1, <3>2, MarketStays
    <3>3. CASE ~ over(n)
      BY <3>1, <3>3, RestsCalm DEF MarketCalm
    <3> QED
      BY <3>2, <3>3
  <2>15. \A k \in Stake : RequestCalm(k)' /\ ExitCalm(k)'
    BY <1>1, NothingMoves
  <2> QED
    BY <2>13, <2>14, <2>15 DEF Undisturbed
<1> QED
  BY <1>3, <1>4, <1>5

\* What a pass at work is at.
LEMMA AtWork ==
  ASSUME IInv, Undisturbed, NEW w \in Worker, job[w].pc \in {"post", "mark"}, NEW n, n = nextDue(w),
         NEW k, k = nextStake(w)
  PROVE  /\ n \in Market /\ over(n) /\ UnderWay(n, job[w]) /\ holder = w
         /\ k \in Stake /\ k \in unresolvedStakes(n) /\ k \in rowsOf(n)
         /\ row[k] \in Row /\ row[k].state = "accepted" /\ row[k].market = n
         /\ request[k] = "done" /\ k \in entries["escrow"]
         /\ job[w].pc = "post" => k \notin exits
         /\ \A m \in Market : m # n => k \notin rowsOf(m)
         /\ \A v \in Worker : v # w => job[v].pc = "idle"
PROOF
<1>1. /\ job[w] \in Pass /\ n \in Market /\ over(n)
      /\ k \in job[w].todo /\ k \in Stake /\ row[k] \in Row /\ row[k].market = n
  BY InHand
<1>2. UnderWay(n, job[w]) /\ holder = w
  BY DEF Undisturbed, PassCalm
<1>3. k \in unresolvedStakes(n) /\ k \in rowsOf(n) /\ row[k].state = "accepted"
  BY <1>1, <1>2 DEF UnderWay, unresolvedStakes
<1>4. request[k] = "done" /\ k \in entries["escrow"]
  BY <1>1, <1>3, DoneWhenOver
<1>5. job[w].pc = "post" => k \notin exits
  BY <1>2, <1>3 DEF UnderWay
<1>6. \A m \in Market : m # n => k \notin rowsOf(m)
  BY <1>1 DEF rowsOf
<1> QED
  BY <1>1, <1>2, <1>3, <1>4, <1>5, <1>6, Alone

\* A step of the pass at n about the stake in hand: what is to be shown of it.
LEMMA OnePassOn ==
  ASSUME IInv, Undisturbed, UNCHANGED <<market, request>>, entries'["escrow"] = entries["escrow"],
         NEW w \in Worker, job[w].pc \in {"post", "mark"}, NEW n, n = nextDue(w),
         NEW k, k = nextStake(w), NEW p, job' = [job EXCEPT ![w] = p], holder' = holder,
         \A j \in Stake : j # k => /\ row'[j] = row[j] /\ credited'[j] = credited[j]
                                   /\ j \in entries'["refund"] <=> j \in entries["refund"]
                                   /\ j \in entries'["payout"] <=> j \in entries["payout"],
         row'[k] \in Row, SameTerms(row[k], row'[k]), row'[k].state # "deleted",
         \/ p.pc \in {"post", "mark"} /\ UnderWay(n, p)'
         \/ p.pc = "pick" /\ Settled(n)'
  PROVE  Undisturbed'
PROOF
<1>1. /\ n \in Market /\ over(n) /\ UnderWay(n, job[w]) /\ holder = w
      /\ k \in Stake /\ k \in rowsOf(n) /\ row[k].market = n /\ row[k] \in Row
      /\ request[k] = "done" /\ k \in entries["escrow"]
      /\ \A m \in Market : m # n => k \notin rowsOf(m)
      /\ \A v \in Worker : v # w => job[v].pc = "idle"
  BY AtWork
<1>2. /\ \A m \in Market : over(m)' <=> over(m)
      /\ \A v \in Worker : job'[v] = IF v = w THEN p ELSE job[v]
  BY DEF over, IInv, Types
<1>3. row'[k].market = n /\ row'[k].state # "none"
  BY <1>1, RowOrNone DEF SameTerms
<1>4. \A m \in Market : m # n => k \notin rowsOf(m)'
  BY <1>3 DEF rowsOf
<1>5. /\ \A j \in Stake : j # k => row'[j] = row[j] /\ credited'[j] = credited[j]
      /\ \A j \in Stake : j # k => /\ j \in entries'["refund"] <=> j \in entries["refund"]
                                   /\ j \in entries'["payout"] <=> j \in entries["payout"]
  OBVIOUS
<1>6. ASSUME NEW m \in Market, m # n
      PROVE  Rests(m)
  <2>1. k \notin rowsOf(m) /\ k \notin rowsOf(m)' /\ market'[m] = market[m]
    BY <1>1, <1>4, <1>6
  <2> QED
    BY <1>1, <1>5, <2>1, OthersRest
<1>7. ASSUME NEW v \in Worker
      PROVE  PassCalm(v)'
  <2>1. CASE v # w
    BY <1>1, <1>2, <2>1 DEF PassCalm
  <2>2. CASE v = w /\ p.pc \in {"post", "mark"} /\ UnderWay(n, p)'
    <3>1. job'[w] = p /\ leastOf(p.due) = n
      BY <1>2, <2>2 DEF UnderWay
    <3>2. UnderWay(n, job[w])' /\ nextDue(w)' = n
      BY <2>2, <3>1 DEF UnderWay, nextDue
    <3> QED
      BY <1>1, <2>2, <3>2 DEF PassCalm
  <2>3. CASE v = w /\ p.pc = "pick"
    BY <1>1, <1>2, <2>3 DEF PassCalm
  <2> QED
    BY <2>1, <2>2, <2>3
<1>8. ASSUME NEW m \in Market
      PROVE  MarketCalm(m)'
  <2>1. CASE m # n /\ over(m)
    <3>1. \A v \in Worker : ~ UnderWay(m, job[v])
      BY <2>1, Alone
    <3> QED
      BY <1>6, <2>1, <3>1, MarketStays
  <2>2. CASE m # n /\ ~ over(m)
    BY <1>2, <2>2 DEF MarketCalm
  <2>3. CASE m = n /\ UnderWay(n, p)'
    <3>1. job'[w] = p
      BY <1>2
    <3>2. UnderWay(n, job[w])'
      BY <2>3, <3>1 DEF UnderWay
    <3> QED
      BY <2>3, <3>2 DEF MarketCalm
  <2>4. CASE m = n /\ Settled(n)'
    BY <2>4 DEF MarketCalm
  <2> QED
    BY <2>1, <2>2, <2>3, <2>4
<1>9. ASSUME NEW j \in Stake
      PROVE  RequestCalm(j)'
  <2>1. CASE j = k
    <3>1. request'[k] = "done" /\ k \in entries'["escrow"]
      BY <1>1
    <3> QED
      BY <2>1, <3>1 DEF RequestCalm, inFlight
  <2>2. CASE j # k
    <3>1. RequestCalm(j) /\ row'[j] = row[j] /\ request'[j] = request[j]
      BY <1>5, <2>2 DEF Undisturbed
    <3>2. (over(row[j].market)' <=> over(row[j].market)) /\ (inFlight(j)' <=> inFlight(j))
      BY <3>1 DEF over, inFlight
    <3> QED
      BY <3>1, <3>2 DEF RequestCalm
  <2> QED
    BY <2>1, <2>2
<1>10. ASSUME NEW j \in Stake
       PROVE  ExitCalm(j)'
  <2>1. CASE j = k
    <3>1. over(n)' /\ k \in rowsOf(n)'
      BY <1>1, <1>2, <1>3 DEF rowsOf
    <3> QED
      BY <1>3, <2>1, <3>1 DEF ExitCalm
  <2>2. CASE j # k
    <3>1. (j \in exits' <=> j \in exits) /\ row'[j] = row[j]
      BY <1>5, <2>2 DEF exits
    <3>2. ExitCalm(j)
      BY DEF Undisturbed
    <3>3. over(row[j].market)' <=> over(row[j].market)
      BY <3>1 DEF over
    <3>4. j \in rowsOf(row[j].market)' <=> j \in rowsOf(row[j].market)
      BY <3>1 DEF rowsOf
    <3> QED
      BY <3>1, <3>2, <3>3, <3>4 DEF ExitCalm
  <2> QED
    BY <2>1, <2>2
<1> QED
  BY <1>7, <1>8, <1>9, <1>10 DEF Undisturbed

\* An exit is posted once, for what is owed.
LEMMA CalmExit ==
  ASSUME IInv, Undisturbed, NEW w \in Worker, postExit(w), faults = 0, faults' = 0
  PROVE  Undisturbed'
PROOF
<1> PICK q, n, k, phase : q = job[w] /\ n = nextDue(w) /\ k = nextStake(w) /\ phase = exitPhase(w)
  OBVIOUS
<1>1. q.pc = "post" /\ q \in Pass /\ UNCHANGED <<market, row, request>>
  BY DEF postExit, IInv, Types
<1>2. /\ n \in Market /\ UnderWay(n, q) /\ k \in Stake /\ k \in rowsOf(n)
      /\ row[k] \in Row /\ row[k].state = "accepted" /\ k \in entries["escrow"] /\ k \notin exits
  BY <1>1, AtWork
<1>3. payoutFor(w, k) \in Nat /\ phase \in {"refund", "payout"} /\ Types
  BY <1>1, InHand DEF IInv
<1>4. ~ overdraws(exitPostings(w, k))
  BY <1>2, <1>3, NotRefused
<1>5. /\ Entered(phase, k, exitPostings(w, k))
      /\ ~ UNCHANGED entries =>
           credited' = IF phase = "payout" THEN [credited EXCEPT ![k] = payoutFor(w, k)] ELSE credited
      /\ k \in entries'[phase] /\ UNCHANGED <<holder, attempts>>
      /\ job' = [job EXCEPT ![w].pc = "mark"]
  <2>1. PICK answer \in Answer :
           /\ Entered(phase, k, exitPostings(w, k))
           /\ answer = "refused" => overdraws(exitPostings(w, k))
           /\ answer = "unavailable" => faults' > faults
           /\ ~ UNCHANGED entries =>
                credited' = IF phase = "payout" THEN [credited EXCEPT ![k] = payoutFor(w, k)] ELSE credited
           /\ \/ answer = "ok" /\ k \in entries'[phase] /\ UNCHANGED <<holder, attempts>>
                 /\ job' = [job EXCEPT ![w].pc = "mark"]
              \/ answer = "refused"
              \/ answer = "unavailable"
    BY ExitEntered
  <2>2. ~ (faults' > faults)
    OBVIOUS
  <2> QED
    BY <1>4, <2>1, <2>2
<1>6. k \notin entries[phase]
  BY <1>2, <1>3 DEF exits
<1>7. entries' = [entries EXCEPT ![phase] = @ \cup {k}] /\ ~ UNCHANGED entries
  BY <1>5, <1>6 DEF Entered
<1>8. /\ entries'["escrow"] = entries["escrow"]
      /\ entries'["refund"] = IF phase = "refund" THEN entries["refund"] \cup {k} ELSE entries["refund"]
      /\ entries'["payout"] = IF phase = "payout" THEN entries["payout"] \cup {k} ELSE entries["payout"]
  BY <1>3, <1>7 DEF Types, Phase
<1>9. /\ \A j \in Stake : j # k => credited'[j] = credited[j]
      /\ phase = "payout" => credited'[k] = payoutFor(w, k)
  <2>1. credited \in [Stake -> Nat]
    BY <1>3 DEF Types
  <2>2. credited' = IF phase = "payout" THEN [credited EXCEPT ![k] = payoutFor(w, k)] ELSE credited
    BY <1>5, <1>7
  <2> QED
    BY <1>2, <2>1, <2>2
<1>10. PICK p : /\ p = [pc |-> "mark", due |-> q.due, todo |-> q.todo, refundAll |-> q.refundAll,
                        payouts |-> q.payouts]
                /\ job' = [job EXCEPT ![w] = p]
  BY <1>1, <1>5, Refielded
<1>11. phase = (IF p.refundAll THEN "refund" ELSE "payout") /\ payoutFor(w, k) = owed(p, k)
  BY <1>10 DEF exitPhase, payoutFor, owed
<1>12. UnderWay(n, p)'
  <2>1. rowsOf(n)' = rowsOf(n) /\ unresolvedStakes(n)' = unresolvedStakes(n) /\ staked(n)' = staked(n)
    BY <1>1 DEF rowsOf, unresolvedStakes, staked
  <2>2. /\ n = leastOf(p.due) /\ p.todo = unresolvedStakes(n) /\ k = leastOf(p.todo)
        /\ \A j : owed(q, j) = owed(p, j)
    BY <1>2, <1>10 DEF UnderWay, owed, nextStake
  <2>3. ASSUME NEW j \in rowsOf(n)
        PROVE  /\ row'[j].state = "accepted" \/ row'[j].state = IF p.refundAll THEN "refunded" ELSE "paid"
               /\ j \notin entries'[IF p.refundAll THEN "payout" ELSE "refund"]
               /\ j \in exits' /\ row'[j].state = "accepted" => p.pc = "mark" /\ j = leastOf(p.todo)
               /\ j \in entries'["payout"] => credited'[j] = owed(p, j)
    <3>1. /\ row[j].state = "accepted" \/ row[j].state = IF p.refundAll THEN "refunded" ELSE "paid"
          /\ j \notin entries[IF p.refundAll THEN "payout" ELSE "refund"]
          /\ ~ (j \in exits /\ row[j].state = "accepted")
          /\ j \in entries["payout"] => credited[j] = owed(p, j)
          /\ j \in Stake
      BY <1>1, <1>2, <1>10, <2>2 DEF UnderWay, rowsOf
    <3>2. j \notin entries'[IF p.refundAll THEN "payout" ELSE "refund"]
      BY <1>8, <1>11, <3>1
    <3>3. j \in exits' /\ row'[j].state = "accepted" => j = k
      BY <1>1, <1>8, <3>1 DEF exits
    <3>4. j \in entries'["payout"] => credited'[j] = owed(p, j)
      <4>1. CASE j = k
        BY <1>2, <1>8, <1>9, <1>11, <4>1 DEF exits
      <4>2. CASE j # k
        BY <1>8, <1>9, <3>1, <4>2
      <4> QED
        BY <4>1, <4>2
    <3> QED
      BY <1>1, <1>10, <2>2, <3>1, <3>2, <3>3, <3>4
  <2>4. ~ p.refundAll => SumFunction([j \in rowsOf(n) |-> owed(p, j)]) = staked(n)
    <3>1. [j \in rowsOf(n) |-> owed(p, j)] = [j \in rowsOf(n) |-> owed(q, j)]
      BY <2>2
    <3> QED
      BY <1>2, <1>10, <3>1 DEF UnderWay
  <2> QED
    BY <1>10, <2>1, <2>2, <2>3, <2>4 DEF UnderWay
<1>13. \A j \in Stake : j # k => /\ row'[j] = row[j] /\ credited'[j] = credited[j]
                                 /\ j \in entries'["refund"] <=> j \in entries["refund"]
                                 /\ j \in entries'["payout"] <=> j \in entries["payout"]
  BY <1>1, <1>8, <1>9
<1>14. row'[k] \in Row /\ SameTerms(row[k], row'[k]) /\ row'[k].state # "deleted"
  BY <1>1, <1>2 DEF SameTerms
<1>15. p.pc \in {"post", "mark"}
  BY <1>10
<1>16. entries'["escrow"] = entries["escrow"] /\ holder' = holder /\ UNCHANGED <<market, request>>
  BY <1>1, <1>5, <1>8
<1> QED
  BY <1>1, <1>10, <1>12, <1>13, <1>14, <1>15, <1>16, OnePassOn

\* Marking it leaves the others to do, or settles the market.
LEMMA CalmMark ==
  ASSUME IInv, Undisturbed, Stable, IInv', NEW w \in Worker, markExit(w)
  PROVE  Undisturbed'
PROOF
<1> PICK q, n, k : q = job[w] /\ n = nextDue(w) /\ k = nextStake(w)
  OBVIOUS
<1>1. /\ q.pc = "mark" /\ q \in Pass /\ PassSound(q) /\ Types
      /\ UNCHANGED <<market, request, entries, credited>>
  BY DEF markExit, ledger, IInv, Types, Passes
<1>2. /\ n \in Market /\ UnderWay(n, q) /\ k \in Stake /\ k \in rowsOf(n)
      /\ row[k] \in Row /\ row[k].state = "accepted" /\ row[k].market = n
  BY <1>1, AtWork
<1>3. /\ row' = [row EXCEPT ![k].state = exitState(w)]
      /\ job' = [job EXCEPT ![w] = afterMark(w)]
      /\ holder' = holder
  BY <1>2 DEF markExit
<1>4. /\ exitState(w) = (IF q.refundAll THEN "refunded" ELSE "paid")
      /\ exitState(w) \in {"deleted", "refunded", "paid"}
  BY DEF exitState
<1>5. /\ row'[k] \in Row /\ row'[k].state = exitState(w) /\ SameTerms(row[k], row'[k])
      /\ \A j \in Stake : j # k => row'[j] = row[j]
  BY <1>1, <1>2, <1>3, <1>4, Marked, TermsStay
<1>6. rowsOf(n)' = rowsOf(n)
  <2>1. k \in rowsOf(n)'
    BY <1>2, <1>4, <1>5 DEF rowsOf, SameTerms
  <2>2. \A j \in Stake : j # k => (j \in rowsOf(n)' <=> j \in rowsOf(n))
    BY <1>5 DEF rowsOf
  <2>3. rowsOf(n)' \subseteq Stake /\ rowsOf(n) \subseteq Stake
    BY DEF rowsOf
  <2> QED
    BY <1>2, <2>1, <2>2, <2>3
<1>7. staked(n)' = staked(n)
  <2>1. \A j \in rowsOf(n) : row'[j].poolAmount = row[j].poolAmount
    BY <1>5 DEF rowsOf, SameTerms
  <2>2. [j \in rowsOf(n) |-> row'[j].poolAmount] = [j \in rowsOf(n) |-> row[j].poolAmount]
    BY <2>1
  <2> QED
    BY <1>6, <2>2 DEF staked
<1>8. unresolvedStakes(n)' = unresolvedStakes(n) \ {k}
  BY <1>4, <1>5, <1>6 DEF unresolvedStakes, rowsOf
<1>9. \A j \in rowsOf(n) :
        /\ row[j].state = "accepted" \/ row[j].state = IF q.refundAll THEN "refunded" ELSE "paid"
        /\ j \notin entries[IF q.refundAll THEN "payout" ELSE "refund"]
        /\ j \in exits /\ row[j].state = "accepted" => j = k
        /\ j \in entries["payout"] => credited[j] = owed(q, j)
        /\ j \in Stake
  BY <1>2 DEF UnderWay, rowsOf, nextStake
<1>10. \A j \in rowsOf(n) :
         /\ row'[j].state = "accepted" \/ row'[j].state = IF q.refundAll THEN "refunded" ELSE "paid"
         /\ ~ (j \in exits /\ row'[j].state = "accepted")
         /\ row'[j].state = "accepted" => j # k /\ row[j].state = "accepted"
  BY <1>4, <1>5, <1>9
<1>11. /\ q.todo = unresolvedStakes(n) /\ n = leastOf(q.due)
       /\ ~ q.refundAll => SumFunction([j \in rowsOf(n) |-> owed(q, j)]) = staked(n)
  BY <1>2 DEF UnderWay
<1>12. exits' = exits
  BY <1>1 DEF exits
<1>13. CASE q.todo = {k}
  <2>1. PICK p : p = afterMark(w)
    OBVIOUS
  <2>2. p.pc = "pick"
    BY <1>13, <2>1 DEF afterMark, Idle
  <2>3. \A j \in rowsOf(n) : row'[j].state = IF q.refundAll THEN "refunded" ELSE "paid"
    BY <1>8, <1>10, <1>11, <1>13 DEF unresolvedStakes
  <2>4. ASSUME q.refundAll
        PROVE  Settled(n)'
    <3>1. \A j \in rowsOf(n)' : row'[j].state = "refunded" /\ j \notin entries'["payout"]
      BY <1>1, <1>6, <1>9, <2>3, <2>4
    <3> QED
      BY <3>1 DEF Settled
  <2>5. ASSUME ~ q.refundAll
        PROVE  Settled(n)'
    <3>1. market[n].status = "resolved"
      BY <1>1, <1>11, <2>5 DEF PassSound
    <3>2. \A j \in rowsOf(n) : j \in Stake /\ row'[j].state = "paid" /\ j \notin entries["refund"]
      BY <1>9, <2>3, <2>5
    <3>3. \A j \in rowsOf(n) : j \in entries["payout"] /\ credited'[j] = owed(q, j)
      BY <1>1, <1>9, <3>2 DEF IInv, MarkedRowsHaveEntries
    <3>4. [j \in rowsOf(n) |-> credited'[j]] = [j \in rowsOf(n) |-> owed(q, j)]
      BY <3>3
    <3>5. paid(n)' = staked(n)'
      BY <1>6, <1>7, <1>11, <2>5, <3>4 DEF paid
    <3>6. /\ market'[n].status = "resolved"
          /\ \A j \in rowsOf(n)' : row'[j].state = "paid" /\ j \notin entries'["refund"]
      BY <1>1, <1>6, <3>1, <3>2
    <3> QED
      BY <3>5, <3>6 DEF Settled
  <2>6. Settled(n)'
    BY <2>4, <2>5
  <2>7. \A j \in Stake : j # k => /\ row'[j] = row[j] /\ credited'[j] = credited[j]
                                  /\ j \in entries'["refund"] <=> j \in entries["refund"]
                                  /\ j \in entries'["payout"] <=> j \in entries["payout"]
    BY <1>1, <1>5
  <2>8. entries'["escrow"] = entries["escrow"] /\ row'[k].state # "deleted"
    BY <1>1, <1>4, <1>5
  <2>9. /\ job[w].pc \in {"post", "mark"} /\ n = nextDue(w) /\ k = nextStake(w)
        /\ job' = [job EXCEPT ![w] = p] /\ holder' = holder
        /\ UNCHANGED <<market, request>>
    BY <1>1, <1>3, <2>1
  <2>10. row'[k] \in Row /\ SameTerms(row[k], row'[k]) /\ p.pc = "pick"
    BY <1>5, <2>2
  <2> QED
    BY <2>6, <2>7, <2>8, <2>9, <2>10, OnePassOn
<1>14. CASE q.todo # {k}
  <2>1. PICK p : p = afterMark(w)
    OBVIOUS
  <2>2. p = [pc |-> "post", due |-> q.due, todo |-> q.todo \ {k},
             refundAll |-> q.refundAll, payouts |-> q.payouts]
    BY <1>1, <1>14, <2>1, Refielded DEF afterMark
  <2>3. /\ p.pc = "post" /\ n = leastOf(p.due) /\ p.todo = unresolvedStakes(n)'
        /\ p.refundAll = q.refundAll /\ \A j : owed(q, j) = owed(p, j)
    <3>1. /\ p.pc = "post" /\ p.due = q.due /\ p.todo = q.todo \ {k}
          /\ p.refundAll = q.refundAll /\ p.payouts = q.payouts
      BY <2>2
    <3>2. \A j : owed(q, j) = owed(p, j)
      BY <3>1 DEF owed
    <3>3. p.todo = unresolvedStakes(n)'
      BY <1>8, <1>11, <3>1
    <3>4. n = leastOf(p.due)
      BY <1>11, <3>1
    <3> QED
      BY <3>1, <3>2, <3>3, <3>4
  <2>4. ASSUME NEW j \in rowsOf(n)
        PROVE  /\ row'[j].state = "accepted" \/ row'[j].state = IF p.refundAll THEN "refunded" ELSE "paid"
               /\ j \notin entries'[IF p.refundAll THEN "payout" ELSE "refund"]
               /\ ~ (j \in exits' /\ row'[j].state = "accepted")
               /\ j \in entries'["payout"] => credited'[j] = owed(p, j)
    <3>1. p.refundAll = q.refundAll /\ owed(q, j) = owed(p, j)
      BY <2>3
    <3>2. row'[j].state = "accepted" \/ row'[j].state = IF p.refundAll THEN "refunded" ELSE "paid"
      BY <1>10, <3>1
    <3>3. j \notin entries'[IF p.refundAll THEN "payout" ELSE "refund"]
      BY <1>1, <1>9, <3>1
    <3>4. ~ (j \in exits' /\ row'[j].state = "accepted")
      BY <1>10, <1>12
    <3>5. j \in entries'["payout"] => credited'[j] = owed(p, j)
      BY <1>1, <1>9, <3>1
    <3> QED
      BY <3>2, <3>3, <3>4, <3>5
  <2>5. ~ p.refundAll => SumFunction([j \in rowsOf(n) |-> owed(p, j)]) = staked(n)'
    <3>1. [j \in rowsOf(n) |-> owed(p, j)] = [j \in rowsOf(n) |-> owed(q, j)]
      BY <2>3
    <3> QED
      BY <1>7, <1>11, <2>3, <3>1
  <2>6. UnderWay(n, p)'
    BY <1>6, <2>3, <2>4, <2>5 DEF UnderWay
  <2>7. \A j \in Stake : j # k => /\ row'[j] = row[j] /\ credited'[j] = credited[j]
                                  /\ j \in entries'["refund"] <=> j \in entries["refund"]
                                  /\ j \in entries'["payout"] <=> j \in entries["payout"]
    BY <1>1, <1>5
  <2>8. entries'["escrow"] = entries["escrow"] /\ row'[k].state # "deleted"
    BY <1>1, <1>4, <1>5
  <2>9. /\ job[w].pc \in {"post", "mark"} /\ n = nextDue(w) /\ k = nextStake(w)
        /\ job' = [job EXCEPT ![w] = p] /\ holder' = holder
        /\ UNCHANGED <<market, request>>
    BY <1>1, <1>3, <2>1
  <2>10. row'[k] \in Row /\ SameTerms(row[k], row'[k]) /\ p.pc \in {"post", "mark"}
    BY <1>5, <2>3
  <2> QED
    BY <2>6, <2>7, <2>8, <2>9, <2>10, OnePassOn
<1> QED
  BY <1>13, <1>14

\* So nothing is disturbed until something fails.
LEMMA CalmConsecution ==
  IInv /\ (Calm => Undisturbed) /\ Stable /\ IInv' /\ [Next]_vars => (Calm => Undisturbed)'
PROOF
<1> SUFFICES ASSUME IInv, Calm => Undisturbed, Stable, IInv', [Next]_vars, faults' = 0, ~ EndsInFlight
             PROVE  Undisturbed'
  BY DEF Calm
<1>1. faults \in Nat
  BY StakesAssumption DEF IInv, Types, StakesAssumption
<1>2. ~ fault
  BY <1>1 DEF fault
<1>3. CASE marketStep
  <2>1. faults = 0
    BY <1>3 DEF marketStep, closeMarket, voidMarket, markResolved
  <2> QED
    BY <1>3, <2>1, CalmMarket DEF Calm
<1>4. ASSUME NEW k \in Stake, requestStep(k) \/ \E t \in Term : acceptStake(k, t)
      PROVE  Undisturbed'
  <2>1. CASE postEscrow(k)
    <3>1. faults = 0
      BY <1>2, <2>1 DEF postEscrow, postEntry
    <3> QED
      BY <2>1, <3>1, CalmPost DEF Calm
  <2>2. CASE recordEscrowEntry(k)
    <3>1. faults = 0
      BY <2>2 DEF recordEscrowEntry
    <3> QED
      BY <2>2, <3>1, CalmRecord DEF Calm
  <2>3. ASSUME NEW t \in Term, acceptStake(k, t)
        PROVE  Undisturbed'
    <3>1. faults = 0
      BY <2>3 DEF acceptStake
    <3> QED
      BY <2>3, <3>1, CalmAccept DEF Calm
  <2> QED
    BY <1>4, <2>1, <2>2, <2>3 DEF requestStep
<1>5. ASSUME NEW w \in Worker, passStep(w)
      PROVE  Undisturbed'
  <2>1. CASE startPass(w)
    <3>1. faults = 0
      BY <2>1 DEF startPass
    <3> QED
      BY <2>1, <3>1, CalmStart DEF Calm
  <2>2. CASE pickMarket(w)
    <3>1. faults = 0
      BY <2>2 DEF pickMarket
    <3> QED
      BY <2>2, <3>1, CalmPick DEF Calm
  <2>3. CASE postExit(w)
    <3>1. faults = 0
      BY <1>2, <2>3 DEF postExit, postEntry
    <3> QED
      BY <2>3, <3>1, CalmExit DEF Calm
  <2>4. CASE markExit(w)
    <3>1. faults = 0
      BY <2>4 DEF markExit
    <3> QED
      BY <2>4, <3>1, CalmMark DEF Calm
  <2> QED
    BY <1>5, <2>1, <2>2, <2>3, <2>4 DEF passStep
<1>6. CASE faultStep
  BY <1>2, <1>6 DEF faultStep, crashRequest, crashWorker, leaseLapses
<1>7. CASE UNCHANGED vars
  <2>1. UNCHANGED <<market, row, request, entries, credited, bal, job, holder, attempts, faults>>
    BY <1>7 DEF vars, ledger, runner
  <2>2. Undisturbed
    BY <2>1 DEF Calm
  <2>3. \A m \in Market : Rests(m)
    BY <2>1, <2>2, NothingMoves
  <2>4. \A m \in Market : over(m)' => over(m) \/ Waiting(m)'
    BY <2>1 DEF over
  <2>5. \A k \in Stake : RequestCalm(k)'
    BY <2>1, <2>2, NothingMoves
  <2> QED
    BY <2>1, <2>2, <2>3, <2>4, <2>5, Aside
<1> QED
  BY <1>3, <1>4, <1>5, <1>6, <1>7 DEF Next

\* Until something fails nothing is disturbed.
LEMMA CalmInvariant == Spec => [](IInv /\ (Calm => Undisturbed))
PROOF
<1>1. Init => IInv /\ (Calm => Undisturbed)
  BY InitIInv, InitUndisturbed
<1>2. IInv /\ (Calm => Undisturbed) /\ [Next]_vars => (IInv /\ (Calm => Undisturbed))'
  BY Consecution, CalmConsecution
<1> QED
  BY <1>1, <1>2, PTL DEF Spec

\* Until something fails, a pool whose stakes are all out has paid what was staked on it, to
\* the unit, whoever won and however the dust fell.
THEOREM PoolsArePaidOut == Spec => [](Calm => PoolConserved)
PROOF
<1>1. IInv /\ (Calm => Undisturbed) => (Calm => PoolConserved)
  BY CalmPool
<1> QED
  BY <1>1, CalmInvariant, PTL

\* Until something fails, escrow holds what came in and has not gone out, of every user.
THEOREM EscrowIsAccounted == Spec => [](Calm => EscrowAccounted)
PROOF
<1>1. IInv /\ (Calm => Undisturbed) => (Calm => EscrowAccounted)
  BY CalmEscrow
<1> QED
  BY <1>1, CalmInvariant, PTL

\* Until something fails, when all is void and out every account is where it began.
THEOREM VoidIsFlat == Spec => [](Calm => VoidLeavesFlat)
PROOF
<1>1. IInv /\ (Calm => Undisturbed) => (Calm => VoidLeavesFlat)
  BY CalmVoid
<1> QED
  BY <1>1, CalmInvariant, PTL
==============================================================================
