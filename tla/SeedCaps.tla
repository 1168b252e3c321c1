------------------------------ MODULE SeedCaps -------------------------------
(***************************************************************************)
(* How large a house seed may be: POST /markets/:id/approve                *)
(* (src/src/server.ts), the policy read from admin-api                     *)
(* (src/src/adminapiclient.ts), seedsPlannedTodayWei and planHouseSeed     *)
(* (src/src/houseseed.ts), and the ceilings of the schema                  *)
(* (src/src/migrations.ts, version 8).  Amounts are per outcome side.      *)
(*                                                                         *)
(* Transactions are READ COMMITTED: one sees what others have committed    *)
(* before its statement, and its own rows; a row it updates is locked      *)
(* until it ends, which for a market is from the approval on.              *)
(***************************************************************************)
EXTENDS Integers, FiniteSets, Functions

CONSTANTS
  Market,
  Approval,                    \* requests to approve with a seed
  Sizes,                       \* amounts asked for
  SEED_PER_MARKET_CEILING_WEI,
  SEED_PER_DAY_CEILING_WEI,
  Policies,                    \* what admin-api may say: [perMarketWei, perDayWei], or NoPolicy
  NoPolicy,
  MaxDay                       \* bound on the days that pass

SeedAssumption ==
  /\ Sizes \subseteq Nat /\ MaxDay \in Nat
  /\ \A p \in Policies \ {NoPolicy} : p.perMarketWei \in Nat /\ p.perDayWei \in Nat
  /\ SEED_PER_MARKET_CEILING_WEI \in Nat /\ SEED_PER_DAY_CEILING_WEI \in Nat

VARIABLES
  status,      \* of each market: draft, approved
  house_seeds, \* rows: [market, amount, day]
  day,         \* the UTC day
  request,     \* per approval: its step, market, amount, and the policy it has read
  tx,          \* the rows that open transactions have written: [by, market, amount, day]
  overlapped   \* has an approval ever begun while another was between its read and its commit?

vars == <<status, house_seeds, day, request, tx, overlapped>>

Idle == [step |-> "idle", market |-> "none", amount |-> 0, policy |-> NoPolicy]
amountOn(rows, d) == SumFunction([s \in {t \in rows : t.day = d} |-> s.amount])
running == {r \in Approval : request[r].step \in {"caps", "approve", "inTx"}}

goto(r, step) == request' = [request EXCEPT ![r].step = step]
end(r, how) == request' = [request EXCEPT ![r] = [Idle EXCEPT !.step = how]]

------------------------------------------------------------------------------
(* Before the transaction: the size, and the caps of the policy.           *)

sizeAllowed(n) == n > 0 /\ n <= SEED_PER_MARKET_CEILING_WEI

\* A size within the schema's ceiling, and a policy that could be read (no policy
\* client, an outage and a policy nobody has set are all refusals).
foresightSeedPolicy(r) ==
  /\ request[r].step = "idle"
  /\ \E n \in Sizes, p \in Policies :
       IF ~ sizeAllowed(n) \/ (IF p = NoPolicy THEN TRUE ELSE n > p.perMarketWei)
       THEN end(r, "refused")
       ELSE \E m \in Market : request' = [request EXCEPT ![r] =
              [step |-> "caps", market |-> m, amount |-> n, policy |-> p]]
  /\ overlapped' = (overlapped \/ running # {})
  /\ UNCHANGED <<status, house_seeds, day, tx>>

\* Wrong: what is planned today is compared without the seed at hand.
seedsPlannedTodayWei_before(r) ==
  /\ request[r].step = "caps"
  /\ IF amountOn(house_seeds, day) > request[r].policy.perDayWei
     THEN end(r, "refused") ELSE goto(r, "approve")
  /\ UNCHANGED <<status, house_seeds, day, tx, overlapped>>

\* The day's total, read outside the transaction that will add to it.
seedsPlannedTodayWei(r) ==
  /\ request[r].step = "caps"
  /\ IF amountOn(house_seeds, day) + request[r].amount > request[r].policy.perDayWei
     THEN end(r, "refused") ELSE goto(r, "approve")
  /\ UNCHANGED <<status, house_seeds, day, tx, overlapped>>

------------------------------------------------------------------------------
(* The transaction.                                                        *)

\* Wrong: nobody waits for the market's row.
locked_never(m) == FALSE

locked(m) == \E s \in tx : s.market = m

\* The trigger sums the rows it can see, which are those that have been committed.
house_seeds_daily_ceiling(n) == amountOn(house_seeds, day) + n <= SEED_PER_DAY_CEILING_WEI

\* approveMarket and planHouseSeed.  Another transaction that holds the market's row
\* is waited for; then the market is no longer a draft.
approveMarket(r) ==
  /\ request[r].step = "approve"
  /\ ~ locked(request[r].market)
  /\ IF status[request[r].market] # "draft" \/ ~ house_seeds_daily_ceiling(request[r].amount)
     THEN end(r, "refused") /\ tx' = tx
     ELSE /\ goto(r, "inTx")
          /\ tx' = tx \cup {[by |-> r, market |-> request[r].market,
                             amount |-> request[r].amount, day |-> day]}
  /\ UNCHANGED <<status, house_seeds, day, overlapped>>

written(r) == CHOOSE s \in tx : s.by = r

commit(r) ==
  /\ request[r].step = "inTx"
  /\ status' = [status EXCEPT ![written(r).market] = "approved"]
  /\ house_seeds' = house_seeds \cup {[market |-> written(r).market, amount |-> written(r).amount,
                                       day |-> written(r).day]}
  /\ tx' = tx \ {written(r)}
  /\ end(r, "done")
  /\ UNCHANGED <<day, overlapped>>

\* The replica or its connection dies: the transaction never was.
rollback(r) ==
  /\ request[r].step \in {"caps", "approve", "inTx"}
  /\ tx' = {s \in tx : s.by # r}
  /\ end(r, "lost")
  /\ UNCHANGED <<status, house_seeds, day, overlapped>>

midnight ==
  /\ day < MaxDay
  /\ day' = day + 1
  /\ UNCHANGED <<status, house_seeds, request, tx, overlapped>>

Init ==
  /\ status = [m \in Market |-> "draft"]
  /\ house_seeds = {} /\ day = 0 /\ tx = {}
  /\ request = [r \in Approval |-> Idle]
  /\ overlapped = FALSE

Next ==
  \/ \E r \in Approval : \/ foresightSeedPolicy(r) \/ seedsPlannedTodayWei(r)
                         \/ approveMarket(r) \/ commit(r) \/ rollback(r)
  \/ midnight

Spec == Init /\ [][Next]_vars

------------------------------------------------------------------------------

TypeOK ==
  /\ status \in [Market -> {"draft", "approved"}]
  /\ day \in 0..MaxDay /\ overlapped \in BOOLEAN
  /\ house_seeds \subseteq [market : Market, amount : Sizes, day : 0..MaxDay]
  /\ tx \subseteq [by : Approval, market : Market, amount : Sizes, day : 0..MaxDay]
  /\ \A s, t \in house_seeds : s.market = t.market => s = t

\* Approvals that never overlap keep to all the caps: each seed to its market's
\* ceiling, each day to the schema's ceiling, and the day a seed is planned on to the
\* policy as its approval read it.
UncontendedSeedsFit ==
  ~ overlapped =>
    /\ \A d \in 0..day : amountOn(house_seeds, d) <= SEED_PER_DAY_CEILING_WEI
    /\ \A s \in house_seeds : s.amount <= SEED_PER_MARKET_CEILING_WEI
    /\ \A s \in tx : amountOn(house_seeds, s.day) + s.amount <= request[s.by].policy.perDayWei
==============================================================================
