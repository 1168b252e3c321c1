--------------------------- MODULE CustodialStakes ---------------------------
(***************************************************************************)
(* A custodial stake from the request to its exit: the stake route         *)
(* (src/src/server.ts), the rows and postings                              *)
(* (src/src/custodialstakes.ts), the settlement job (src/src/jobs.ts) and  *)
(* the ledger they talk to, which is another service and is modelled by    *)
(* what this code relies on: an entry is posted once per idempotency key,  *)
(* balances, and is refused when it would overdraw a user's account.       *)
(*                                                                         *)
(* A stake is named by a number, in order of creation.  Its key at the     *)
(* ledger is the phase and that number.  Amounts are in smallest units.    *)
(***************************************************************************)
EXTENDS SplitPayouts

CONSTANTS Stake,            \* stakes that may be taken: 1..N
          Market,           \* markets, numbered in the order of their ids
          Subject,          \* users with a balance at the ledger
          Asset,            \* enabled stake assets; "EMBER" is the pool's
          StakeAmounts, PoolAmounts,   \* what a quote may come to
          Funds,            \* what a user has available of each asset
          Worker, NoWorker, \* job runners that may hold custodial.settle
          MaxAttempts,      \* throws after which the runner gives the job up
          EndsInFlight,     \* may a market be over with a stake request in flight?
          MaxFaults         \* bound on crashes, lost answers and lapsed leases

POOL_ASSET == "EMBER"

ASSUME StakesAssumption ==
  /\ Stake \subseteq Nat \ {0} /\ IsFiniteSet(Stake)
  /\ Market \subseteq Nat /\ IsFiniteSet(Market)
  /\ Asset \subseteq STRING /\ POOL_ASSET \in Asset
  /\ "escrow" \notin Asset /\ "clearing" \notin Subject   \* names of accounts
  /\ StakeAmounts \subseteq Nat \ {0} /\ PoolAmounts \subseteq Nat \ {0}
  /\ EndsInFlight \in BOOLEAN /\ NoWorker \notin Worker
  /\ Funds \in Nat /\ MaxAttempts \in Nat \ {0} /\ MaxFaults \in Nat

VARIABLES
  market,    \* status and outcome of every market
  row,       \* custodial_stakes
  request,   \* where the route's handler of each stake is
  entries,   \* ledger: the stakes with an entry of each phase
  credited,  \* ledger: what each stake's payout entry credited
  bal,       \* ledger: the balance of every account
  job,       \* what each worker's pass over custodial.settle is doing
  holder,    \* who holds the job's lease
  attempts,  \* throws of the job since it last completed
  faults     \* faults so far

ledger == <<entries, credited, bal>>
runner == <<job, holder, attempts>>
vars == <<market, row, request, ledger, runner, faults>>

over(m) == market[m].status \in {"resolved", "void"}
rowsOf(m) == {k \in Stake : row[k].state \notin {"none", "deleted"} /\ row[k].market = m}
inFlight(k) == request[k] \in {"posting", "recording"}

------------------------------------------------------------------------------
(* The ledger.  An entry is the change it makes to every account.          *)

available(u, a) == <<u, a>>
escrow(u) == <<u, "escrow">>
clearing(a) == <<"clearing", a>>
UserAccount == {available(u, a) : u \in Subject, a \in Asset} \cup {escrow(u) : u \in Subject}
Account == UserAccount \cup {clearing(a) : a \in Asset}

InitialBalance ==
  [x \in Account |-> IF \E u \in Subject, a \in Asset : x = available(u, a) THEN Funds ELSE 0]

transfer(from, to, n) ==
  [x \in Account |-> IF x = from THEN -n ELSE IF x = to THEN n ELSE 0]
both(p, q) == [x \in Account |-> p[x] + q[x]]

escrowPostings(r) ==
  IF r.asset = POOL_ASSET
    THEN transfer(available(r.subject, POOL_ASSET), escrow(r.subject), r.poolAmount)
    ELSE both(transfer(available(r.subject, r.asset), clearing(r.asset), r.stakeAmount),
              transfer(clearing(POOL_ASSET), escrow(r.subject), r.poolAmount))

\* Wrong: the refund gives the pool amount back in EMBER.
refundPostings_inEmber(r) ==
  transfer(escrow(r.subject), available(r.subject, POOL_ASSET), r.poolAmount)

\* The exact reversal.
refundPostings(r) == [x \in Account |-> -escrowPostings(r)[x]]

poolPayoutPostings(r, payout) ==
  both(transfer(escrow(r.subject), clearing(POOL_ASSET), r.poolAmount),
       transfer(clearing(POOL_ASSET), available(r.subject, POOL_ASSET), payout))

overdraws(postings) == \E x \in UserAccount : bal[x] + postings[x] < 0

post(postings) == bal' = [x \in Account |-> bal[x] + postings[x]]

fault == faults < MaxFaults /\ faults' = faults + 1

\* One call of postEntry.  used: the key has an entry already.  recorded: it
\* has one after the call.  "unavailable" is no answer, whatever was done.
postEntry(used, postings, recorded, answer) ==
  \/ /\ used /\ recorded /\ answer = "ok"
     /\ UNCHANGED <<bal, faults>>
  \/ /\ ~used /\ ~overdraws(postings) /\ recorded /\ answer = "ok"
     /\ post(postings) /\ UNCHANGED faults
  \/ /\ ~used /\ overdraws(postings) /\ ~recorded /\ answer = "refused"
     /\ UNCHANGED <<bal, faults>>
  \/ /\ answer = "unavailable" /\ recorded = used
     /\ fault /\ UNCHANGED bal
  \/ /\ answer = "unavailable" /\ ~used /\ ~overdraws(postings) /\ recorded
     /\ fault /\ post(postings)

Answer == {"ok", "refused", "unavailable"}
Phase == {"escrow", "refund", "payout"}

------------------------------------------------------------------------------
(* The market, as far as a custodial stake sees it. *)

closeMarket(m) ==
  /\ market[m].status = "open"
  /\ market' = [market EXCEPT ![m].status = "closed"]
  /\ UNCHANGED <<row, request, ledger, runner, faults>>

\* Closing takes no notice of requests in flight, and nothing in the code keeps
\* one from outliving the market; a resolution is usually far slower.
mayEnd(m) == EndsInFlight \/ \A k \in rowsOf(m) : ~inFlight(k)

markResolved(m, o) ==
  /\ mayEnd(m)
  /\ market[m].status = "closed"
  /\ market' = [market EXCEPT ![m] = [status |-> "resolved", outcome |-> o]]
  /\ UNCHANGED <<row, request, ledger, runner, faults>>

voidMarket(m) ==
  /\ mayEnd(m)
  /\ market[m].status = "closed"
  /\ market' = [market EXCEPT ![m].status = "void"]
  /\ UNCHANGED <<row, request, ledger, runner, faults>>

------------------------------------------------------------------------------
(* POST /markets/:id/stakes: row, entry, entry id on the row. *)

NoRow == [state |-> "none"]

Term == [market : Market, subject : Subject, outcome : 0..1, asset : Asset,
         stakeAmount : StakeAmounts, poolAmount : PoolAmounts]

\* The row is committed before the ledger hears of it.  A stake in EMBER is its
\* own pool amount.  Keys are drawn in order.
acceptStake(k, t) ==
  /\ request[k] = "none"
  /\ \A j \in Stake : j < k => request[j] # "none"
  /\ market[t.market].status = "open"
  /\ t.asset = POOL_ASSET => t.stakeAmount = t.poolAmount
  /\ row' = [row EXCEPT ![k] =
       [market |-> t.market, subject |-> t.subject, outcome |-> t.outcome, asset |-> t.asset,
        stakeAmount |-> t.stakeAmount, poolAmount |-> t.poolAmount,
        state |-> "accepted", escrowed |-> FALSE]]
  /\ request' = [request EXCEPT ![k] = "posting"]
  /\ UNCHANGED <<market, ledger, runner, faults>>

\* The row of a refused stake goes, so the key is free for a fresh attempt.
afterRefusal(k) ==
  IF row[k].state = "accepted" THEN [row EXCEPT ![k].state = "deleted"] ELSE row

\* The terms stay with the handler when the row goes.
postEscrow(k) ==
  /\ request[k] = "posting"
  /\ \E recorded \in BOOLEAN, answer \in Answer :
       /\ postEntry(FALSE, escrowPostings(row[k]), recorded, answer)
       /\ entries' = [entries EXCEPT !.escrow = IF recorded THEN @ \cup {k} ELSE @]
       /\ request' = [request EXCEPT ![k] = IF answer = "ok" THEN "recording" ELSE "failed"]
       /\ row' = IF answer = "refused" THEN afterRefusal(k) ELSE row
  /\ UNCHANGED <<market, credited, runner>>

\* A row that has left accepted meanwhile answers the user with a conflict.
recordEscrowEntry(k) ==
  /\ request[k] = "recording"
  /\ IF row[k].state = "accepted" /\ ~row[k].escrowed
       THEN /\ row' = [row EXCEPT ![k].escrowed = TRUE]
            /\ request' = [request EXCEPT ![k] = "done"]
       ELSE /\ row' = row
            /\ request' = [request EXCEPT ![k] = "failed"]
  /\ UNCHANGED <<market, ledger, runner, faults>>

\* The process serving the request dies.
crashRequest(k) ==
  /\ inFlight(k)
  /\ fault
  /\ request' = [request EXCEPT ![k] = "failed"]
  /\ UNCHANGED <<market, row, ledger, runner>>

------------------------------------------------------------------------------
(* custodialSettleHandler.  A pass takes the markets that are due, reads    *)
(* each one's unresolved stakes, divides the pool among those, and then     *)
(* posts and marks one stake at a time.                                     *)

Idle == [pc |-> "idle", due |-> {}, todo |-> {}, refundAll |-> FALSE, payouts |-> << >>]

unresolvedStakes(m) == {k \in rowsOf(m) : row[k].state = "accepted"}

\* Wrong: a void market is not waited for.
marketsAwaitingCustodialSettlement_resolved ==
  {m \in Market : market[m].status = "resolved" /\ unresolvedStakes(m) # {}}

marketsAwaitingCustodialSettlement == {m \in Market : over(m) /\ unresolvedStakes(m) # {}}

\* The run ends without a throw: the job's row is deleted, whoever holds it by
\* now, and the re-arm puts a fresh one there.
complete(w) ==
  /\ job' = [job EXCEPT ![w] = Idle]
  /\ holder' = NoWorker /\ attempts' = 0

throw(w) ==
  /\ job' = [job EXCEPT ![w] = Idle]
  /\ IF holder = w THEN holder' = NoWorker /\ attempts' = attempts + 1
                   ELSE UNCHANGED <<holder, attempts>>

\* A retry after a throw waits out a backoff, which outlasts a request's
\* deadline; a job out of attempts is never claimed again.
startPass(w) ==
  /\ holder = NoWorker /\ job[w].pc = "idle"
  /\ attempts < MaxAttempts
  /\ attempts > 0 => \A k \in Stake : ~inFlight(k)
  /\ marketsAwaitingCustodialSettlement # {}
  /\ job' = [job EXCEPT ![w] = [Idle EXCEPT !.pc = "pick",
                                            !.due = marketsAwaitingCustodialSettlement]]
  /\ holder' = w
  /\ UNCHANGED <<market, row, request, ledger, attempts, faults>>

payoutsOf(m) ==
  LET S == unresolvedStakes(m)
  IN  splitPayouts(S, [k \in S |-> row[k].poolAmount], [k \in S |-> row[k].outcome],
                   market[m].outcome)

leastOf(S) == CHOOSE m \in S : \A n \in S : m <= n

\* Markets are taken in the order of their ids, stakes in that of their creation.
nextDue(w) == leastOf(job[w].due)
nextStake(w) == leastOf(job[w].todo)

\* The next market of the pass, or the end of it.
pickMarket(w) ==
  /\ job[w].pc = "pick"
  /\ IF job[w].due = {} THEN complete(w)
     ELSE LET m == nextDue(w)
              S == unresolvedStakes(m)
              payouts == IF market[m].status = "void" THEN [k \in {} |-> 0] ELSE payoutsOf(m)
          IN  /\ job' = [job EXCEPT ![w] =
                   IF S = {} THEN [job[w] EXCEPT !.due = @ \ {m}]
                   ELSE [job[w] EXCEPT !.pc = "post", !.todo = S,
                                       !.refundAll = DOMAIN payouts = {},
                                       !.payouts = payouts]]
              /\ UNCHANGED <<holder, attempts>>
  /\ UNCHANGED <<market, row, request, ledger, faults>>

payoutFor(w, k) == IF k \in DOMAIN job[w].payouts THEN job[w].payouts[k] ELSE 0

\* Wrong: the loser's escrow is left alone because there is nothing to pay.
exitPostings_skipsLosers(w, k) ==
  IF job[w].refundAll THEN refundPostings(row[k])
  ELSE IF payoutFor(w, k) = 0 THEN [x \in Account |-> 0]
  ELSE poolPayoutPostings(row[k], payoutFor(w, k))

exitPostings(w, k) ==
  IF job[w].refundAll THEN refundPostings(row[k])
  ELSE poolPayoutPostings(row[k], payoutFor(w, k))

exitPhase(w) == IF job[w].refundAll THEN "refund" ELSE "payout"

\* The entry of refundOne or payOne, from the terms read when the market was
\* picked; the terms of a row never change.
postExit(w) ==
  LET k == nextStake(w)
      phase == exitPhase(w)
      used == k \in entries[phase]
  IN  /\ job[w].pc = "post"
      /\ \E recorded \in BOOLEAN, answer \in Answer :
           /\ postEntry(used, exitPostings(w, k), recorded, answer)
           /\ entries' = IF recorded THEN [entries EXCEPT ![phase] = @ \cup {k}] ELSE entries
           /\ credited' = IF recorded /\ ~used /\ phase = "payout"
                             THEN [credited EXCEPT ![k] = payoutFor(w, k)] ELSE credited
           /\ \/ /\ answer = "ok"
                 /\ job' = [job EXCEPT ![w].pc = "mark"]
                 /\ UNCHANGED <<holder, attempts>>
              \/ answer = "refused" /\ throw(w)
              \/ answer = "unavailable" /\ complete(w)
      /\ UNCHANGED <<market, row, request>>

exitState(w) == IF job[w].refundAll THEN "refunded" ELSE "paid"

\* Wrong: the market is not left after its last stake.
afterMark_runsDry(w) == [job[w] EXCEPT !.pc = "post", !.todo = @ \ {nextStake(w)}]

\* The next stake of the market in hand, or the next market.
afterMark(w) ==
  IF job[w].todo = {nextStake(w)}
    THEN [Idle EXCEPT !.pc = "pick", !.due = job[w].due \ {nextDue(w)}]
    ELSE [job[w] EXCEPT !.pc = "post", !.todo = @ \ {nextStake(w)}]

\* Wrong: the row is marked whatever state it is in.
markExit_anyState(w) ==
  /\ job[w].pc = "mark"
  /\ row' = [row EXCEPT ![nextStake(w)].state = exitState(w)]
  /\ job' = [job EXCEPT ![w] = afterMark(w)]
  /\ UNCHANGED <<market, request, ledger, holder, attempts, faults>>

\* Wrong: the row is marked before the entry is posted.
markExit_beforePost(w) ==
  /\ job[w].pc = "post"
  /\ row' = [row EXCEPT ![nextStake(w)].state = exitState(w)]
  /\ job' = [job EXCEPT ![w] = afterMark(w)]
  /\ UNCHANGED <<market, request, ledger, holder, attempts, faults>>

\* markRefunded and markPaid: only from accepted; a conflict is thrown.
markExit(w) ==
  LET k == nextStake(w)
  IN  /\ job[w].pc = "mark"
      /\ \/ /\ row[k].state = "accepted"
            /\ row' = [row EXCEPT ![k].state = exitState(w)]
            /\ job' = [job EXCEPT ![w] = afterMark(w)]
            /\ UNCHANGED <<holder, attempts>>
         \/ row[k].state # "accepted" /\ throw(w) /\ UNCHANGED row
      /\ UNCHANGED <<market, request, ledger, faults>>

\* The worker dies, or its lease lapses under it: a pass renews the lease
\* only between two markets, and a lapsed pass goes on to its end.
crashWorker(w) ==
  /\ job[w].pc # "idle"
  /\ fault
  /\ job' = [job EXCEPT ![w] = Idle]
  /\ holder' = IF holder = w THEN NoWorker ELSE holder
  /\ UNCHANGED <<market, row, request, ledger, attempts>>

leaseLapses(w) ==
  /\ holder = w /\ Cardinality(Worker) > 1
  /\ fault
  /\ holder' = NoWorker
  /\ UNCHANGED <<market, row, request, ledger, job, attempts>>

------------------------------------------------------------------------------

Init ==
  /\ market = [m \in Market |-> [status |-> "open", outcome |-> 0]]
  /\ row = [k \in Stake |-> NoRow]
  /\ request = [k \in Stake |-> "none"]
  /\ entries = [phase \in Phase |-> {}]
  /\ credited = [k \in Stake |-> 0]
  /\ bal = InitialBalance
  /\ job = [w \in Worker |-> Idle]
  /\ holder = NoWorker /\ attempts = 0 /\ faults = 0

marketStep ==
  \E m \in Market : closeMarket(m) \/ voidMarket(m) \/ \E o \in 0..1 : markResolved(m, o)

requestStep(k) == postEscrow(k) \/ recordEscrowEntry(k)
passStep(w) == startPass(w) \/ pickMarket(w) \/ postExit(w) \/ markExit(w)
faultStep ==
  \/ \E k \in Stake : crashRequest(k)
  \/ \E w \in Worker : crashWorker(w) \/ leaseLapses(w)

Next ==
  \/ marketStep
  \/ \E k \in Stake : requestStep(k) \/ \E t \in Term : acceptStake(k, t)
  \/ \E w \in Worker : passStep(w)
  \/ faultStep

Spec == Init /\ [][Next]_vars

\* A handler that can go on does, and the runner claims a job that is due.
FairSpec ==
  /\ Spec
  /\ \A k \in Stake : WF_vars(requestStep(k))
  /\ \A w \in Worker : WF_vars(passStep(w))

------------------------------------------------------------------------------
(* What must hold. *)

RowState == {"none", "deleted", "accepted", "refunded", "paid"}

\* The states of rows, requests and passes are the ones the code names, no
\* user's account is overdrawn, and a pass at a stake has one in hand.
TypeOK ==
  /\ \A m \in Market : market[m].status \in {"open", "closed", "resolved", "void"}
  /\ \A k \in Stake : row[k].state \in RowState
  /\ request \in [Stake -> {"none", "posting", "recording", "done", "failed"}]
  /\ entries \in [Phase -> SUBSET Stake]
  /\ credited \in [Stake -> Nat]
  /\ bal \in [Account -> Int]
  /\ \A x \in UserAccount : bal[x] >= 0
  /\ \A w \in Worker : job[w].pc \in {"idle", "pick", "post", "mark"}
  /\ \A w \in Worker : job[w].pc \in {"post", "mark"} => job[w].todo # {}
  /\ holder \in Worker \cup {NoWorker}
  /\ attempts \in 0..MaxAttempts /\ faults \in 0..MaxFaults

paidRows(m) == {k \in rowsOf(m) : row[k].state = "paid"}
poolAmount == [k \in Stake |-> IF row[k].state = "none" THEN 0 ELSE row[k].poolAmount]

\* Nothing is under way for a market and nothing of it is left to do.
quiet(m) ==
  /\ unresolvedStakes(m) = {}
  /\ \A k \in rowsOf(m) : ~inFlight(k)
  /\ \A w \in Worker : job[w].pc = "idle"

\* splitPayouts and payOne: a resolved market whose stakes are all out has paid
\* what was staked on it, to the unit.
PoolConserved ==
  \A m \in Market : over(m) /\ quiet(m)
    => poolOf(paidRows(m), credited) = poolOf(paidRows(m), poolAmount)

\* postEntry before markRefunded and markPaid: a row that says the money went
\* out, or came in, has the entry that moved it.
MarkedRowsHaveEntries ==
  \A k \in Stake :
    /\ row[k].state = "refunded" => k \in entries["refund"]
    /\ row[k].state = "paid" => k \in entries["payout"]
    /\ row[k].state # "none" /\ row[k].escrowed => k \in entries["escrow"]

\* splitPayouts: whatever passes it took, a winner is paid the stake back at
\* least, and a loser nothing.
WinnersKeepStake ==
  \A k \in entries["payout"] :
    IF row[k].outcome = market[row[k].market].outcome
      THEN credited[k] >= row[k].poolAmount ELSE credited[k] = 0

\* refundPostings reverses escrowPostings exactly: when every market was
\* voided and every stake is out, every account is where it began.
VoidLeavesFlat ==
  (\A m \in Market : market[m].status = "void" /\ quiet(m)) => bal = InitialBalance

\* The stake route against the job: escrow holds the stakes that came in and
\* have not gone out, of one user at a time, once nothing is in flight.
EscrowAccounted ==
  \A u \in Subject :
    LET mine == {k \in Stake : row[k].state # "none" /\ row[k].subject = u}
        out == entries["refund"] \cup entries["payout"]
    IN  (\A k \in mine : ~inFlight(k))
          => bal[escrow(u)] = poolOf((mine \cap entries["escrow"]) \ out, poolAmount)

\* markRefunded and markPaid, with two passes and the route at work: a stake
\* that is out stays as it went, and a deleted row is not marked.
TerminalRowsStay ==
  [][\A k \in Stake : row[k].state \in {"refunded", "paid", "deleted"} => row'[k].state = row[k].state]_vars

\* custodialSettleHandler: a stake on a market that is over gets out of escrow.
ExitReached ==
  \A m \in Market : over(m) ~> unresolvedStakes(m) = {}
==============================================================================
