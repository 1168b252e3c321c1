----------------------------- MODULE StakeRoute ------------------------------
(***************************************************************************)
(* The routes a bettor stakes through (src/src/server.ts): stake-quote,    *)
(* stake-intent and stakes, from the bearer token to the answer, with the  *)
(* policy, pricing and ledger clients they call on the way.  Any number of *)
(* requests are under way at once, in as many replicas, and a client sends *)
(* the same request again when it got no answer: such attempts differ in   *)
(* nothing, so a retry is another member of Attempt with the same body.    *)
(*                                                                         *)
(* What settles a stake later is in CustodialStakes.  The bodies of replies*)
(* and the text of refusals are left out: an answer is its status, and the *)
(* stake it speaks of.                                                     *)
(***************************************************************************)
EXTENDS StakeRates, FiniteSets

CONSTANTS
  Attempt,
  Bodies,      \* requests: route, kind of principal, subject, key, market, asset, amount
  Market,
  Opening,     \* the markets that are open at first; the others are drafts
  RateOf,      \* the rates pricing may publish; 0 is one that is not usable
  Funds,       \* what each subject has of each asset at the ledger
  MaxStakeRows \* bound on the ids of rows

RouteAssumption ==
  /\ RatesAssumption
  /\ Opening \subseteq Market /\ MaxStakeRows \in Nat
  /\ \A b \in Bodies : b.route \in {"quote", "intent", "stake"} /\ b.amount \in Int
  /\ RateOf \subseteq Nat

VARIABLES
  body,      \* what each attempt asks
  open,      \* the markets that take stakes
  enabled,   \* stake_assets: the assets that are on
  stakes,    \* custodial_stakes: rows, with their idempotency_key and escrow_entry_id
  made,      \* how many rows there have been: the next id
  posted,    \* the ids of stakes with an escrow entry at the ledger
  limbo,     \* postings the ledger has not seen yet, and nobody waits for
  held,      \* the `available' balance per subject and asset
  at,        \* per attempt: the step it is at
  read,      \* per attempt: the rates it has read and the id of its row
  answer     \* per attempt: the status it was answered with, and the stake it was told of

rows == <<stakes, made>>
ledger == <<posted, limbo, held>>
world == <<body, open, enabled>>
progress == <<at, read, answer>>
vars == <<world, rows, ledger, progress>>

NoRates == [stake |-> 0, pool |-> 0]
NoAnswer == [status |-> 0, told |-> 0]
statuses == {200, 201, 400, 401, 403, 404, 409, 422, 500, 503}

\* Namespaced by subject: two users may send the same key.
key(a) == <<body[a].subject, body[a].key>>
findStakeByKey(k) == {s \in stakes : s.key = k}
userKind(a) == body[a].kind = "user"

reply(a, status, told) ==
  /\ answer' = [answer EXCEPT ![a] = [status |-> status, told |-> told]]
  /\ at' = [at EXCEPT ![a] = "answered"]
  /\ read' = [read EXCEPT ![a].rates = NoRates]

goto(a, step) ==
  /\ at' = [at EXCEPT ![a] = step]
  /\ UNCHANGED <<read, answer>>

\* The status an error is answered with.
handle(err) ==
  CASE err = "unauthenticated" -> 401
    [] err \in {"forbidden", "not_a_user", "policy_denied"} -> 403
    [] err \in {"not_found", "unknown_asset"} -> 404
    [] err \in {"not_open", "asset_disabled", "ledger_refused"} -> 409
    [] err \in {"bad_request", "bad_asset"} -> 400
    [] err = "amount_too_small" -> 422
    [] err \in {"policy_unavailable", "rate_unavailable", "ledger_unavailable",
                "verifier_unavailable"} -> 503
    [] OTHER -> 500      \* a constraint or a trigger of the schema

refuse(a, err) == reply(a, handle(err), 0)

------------------------------------------------------------------------------
(* Who asks, and has this been asked before?                               *)

\* A path, a key or a field that is not of the form the route asks for: an amount that
\* is no string of digits stands for all of them.
malformed(a) == body[a].amount < 0

\* The bearer token: none or a bad one, a verifier that cannot say, or a principal.
authenticate(a) ==
  /\ at[a] = "arriving"
  /\ \/ body[a].kind = "none" /\ refuse(a, "unauthenticated")
     \/ body[a].kind # "none" /\ refuse(a, "verifier_unavailable")
     \/ /\ body[a].kind # "none"
        /\ IF body[a].route = "stake" /\ ~ userKind(a) THEN refuse(a, "not_a_user")
           ELSE IF malformed(a) THEN refuse(a, "bad_request")
           ELSE IF body[a].route # "intent" /\ ~ parseStakeAssetCode(body[a].asset)
           THEN refuse(a, "bad_asset")
           ELSE goto(a, IF body[a].route = "stake" THEN "replay" ELSE "market")
  /\ UNCHANGED <<world, rows, ledger>>

\* A retry replays the row its key has, whatever else its body says.
replay(a) ==
  /\ at[a] = "replay"
  /\ IF findStakeByKey(key(a)) = {} THEN goto(a, "market")
     ELSE \E s \in findStakeByKey(key(a)) : reply(a, 200, s.id)
  /\ UNCHANGED <<world, rows, ledger>>

------------------------------------------------------------------------------
(* May it be taken, and at what price?                                     *)

findMarket(a) ==
  /\ at[a] = "market"
  /\ IF body[a].market \notin Market THEN refuse(a, "not_found")
     ELSE IF body[a].market \notin open THEN refuse(a, "not_open")
     ELSE goto(a, IF body[a].route = "intent" THEN "policy" ELSE "asset")
  /\ UNCHANGED <<world, rows, ledger>>

findStakeAsset(a) ==
  /\ at[a] = "asset"
  /\ IF body[a].asset \notin Asset THEN refuse(a, "unknown_asset")
     ELSE IF body[a].asset \notin enabled THEN refuse(a, "asset_disabled")
     ELSE goto(a, IF body[a].route = "quote" THEN "stakeLeg" ELSE "policy")
  /\ UNCHANGED <<world, rows, ledger>>

\* httpPolicyClient: a verdict, or none that can be read, which is a refusal too.
evaluateStake(a) ==
  /\ at[a] = "policy"
  /\ \/ refuse(a, "policy_denied")
     \/ refuse(a, "policy_unavailable")
     \/ IF body[a].route = "intent" THEN reply(a, 200, 0) ELSE goto(a, "stakeLeg")
  /\ UNCHANGED <<world, rows, ledger>>

\* What the pricing client may make of an asset's rate: 0 is any of its failures, a
\* flag, another scale, a number it cannot read.  It has no route for a token.
leg(code) == IF isTokenStakeAsset(code) THEN {0} ELSE RateOf

withRate(a, r, step, rates) ==
  IF r = 0 THEN refuse(a, "rate_unavailable")
  ELSE /\ at' = [at EXCEPT ![a] = step]
       /\ read' = [read EXCEPT ![a].rates = rates]
       /\ answer' = answer

\* The identity needs no rate, so none is read for it (both are RATE_SCALE).
stakeRates(a) ==
  /\ at[a] = "stakeLeg"
  /\ IF body[a].asset = POOL_ASSET THEN withRate(a, 1, "accept", [stake |-> 1, pool |-> 1])
     ELSE \E r \in leg(body[a].asset) : withRate(a, r, "poolLeg", [stake |-> r, pool |-> 0])
  /\ UNCHANGED <<world, rows, ledger>>

\* The two legs are read one after the other: the rates may move in between.
poolLeg(a) ==
  /\ at[a] = "poolLeg"
  /\ \E r \in leg(POOL_ASSET) : withRate(a, r, "accept", [read[a].rates EXCEPT !.pool = r])
  /\ UNCHANGED <<world, rows, ledger>>

quoteOf(a) == quoteStake(body[a].asset, body[a].amount, read[a].rates)
refusedQuote(a) == quoteOf(a).pool = Refused /\ body[a].asset # POOL_ASSET

\* A quote is an answer and nothing else.
stakeQuote(a) ==
  /\ at[a] = "accept" /\ body[a].route = "quote"
  /\ IF refusedQuote(a) THEN refuse(a, "amount_too_small") ELSE reply(a, 200, 0)
  /\ UNCHANGED <<world, rows, ledger>>

------------------------------------------------------------------------------
(* The row, then the entry.                                                *)

\* What the schema admits: a positive amount, an open market, an asset that is on
\* and a key nobody has used, all as they are when the row is written.
admitted(a) ==
  /\ quoteOf(a).pool > 0
  /\ body[a].market \in open
  /\ body[a].asset \in enabled
  /\ findStakeByKey(key(a)) = {}

acceptStake(a) ==
  /\ at[a] = "accept" /\ body[a].route = "stake"
  /\ \/ refusedQuote(a) /\ refuse(a, "amount_too_small") /\ UNCHANGED rows
     \/ ~ refusedQuote(a) /\ ~ admitted(a) /\ refuse(a, "constraint") /\ UNCHANGED rows
     \/ /\ ~ refusedQuote(a) /\ admitted(a) /\ made < MaxStakeRows
        /\ made' = made + 1
        /\ stakes' = stakes \cup {[id |-> made', key |-> key(a), by |-> a,
                                   quote |-> quoteOf(a), booked |-> FALSE]}
        /\ at' = [at EXCEPT ![a] = "post"]
        /\ read' = [read EXCEPT ![a].row = made']
        /\ answer' = answer
  /\ UNCHANGED <<world, ledger>>

rowOf(a) == CHOOSE s \in stakes : s.id = read[a].row
covered(a) == held[body[a].subject][body[a].asset] >= body[a].amount
debit(a) ==
  /\ posted' = posted \cup {read[a].row}
  /\ held' = [held EXCEPT ![body[a].subject][body[a].asset] = @ - body[a].amount]

\* Wrong: silence is taken for a refusal, and the row goes.
postEntry_silenceIsRefusal(a) ==
  /\ at[a] = "post"
  /\ \/ covered(a) /\ debit(a) /\ limbo' = limbo /\ goto(a, "record")
     \/ ~ covered(a) /\ goto(a, "delete") /\ UNCHANGED ledger
     \/ covered(a) /\ debit(a) /\ limbo' = limbo /\ goto(a, "delete")
     \/ limbo' = limbo \cup {a} /\ goto(a, "delete") /\ UNCHANGED <<posted, held>>
  /\ UNCHANGED <<world, rows>>

\* The ledger posts the entry, refuses to overdraw the account, or is silent: having
\* posted it, or still to see it.
postEntry(a) ==
  /\ at[a] = "post"
  /\ \/ covered(a) /\ debit(a) /\ limbo' = limbo /\ goto(a, "record")
     \/ ~ covered(a) /\ goto(a, "delete") /\ UNCHANGED ledger
     \/ covered(a) /\ debit(a) /\ limbo' = limbo /\ refuse(a, "ledger_unavailable")
     \/ limbo' = limbo \cup {a} /\ refuse(a, "ledger_unavailable") /\ UNCHANGED <<posted, held>>
  /\ UNCHANGED <<world, rows>>

\* A posting nobody waits for any more reaches the ledger, or never does.
postLate(a) ==
  /\ a \in limbo
  /\ limbo' = limbo \ {a}
  /\ IF covered(a) THEN debit(a) ELSE UNCHANGED <<posted, held>>
  /\ UNCHANGED <<world, rows, progress>>

\* The row of a stake the ledger refused goes, and frees its key.
deleteRefused(a) ==
  /\ at[a] = "delete"
  /\ stakes' = stakes \ {rowOf(a)}
  /\ refuse(a, "ledger_refused")
  /\ UNCHANGED <<world, made, ledger>>

recordEscrowEntry(a) ==
  /\ at[a] = "record"
  /\ ~ rowOf(a).booked
  /\ stakes' = (stakes \ {rowOf(a)}) \cup {[rowOf(a) EXCEPT !.booked = TRUE]}
  /\ reply(a, 201, read[a].row)
  /\ UNCHANGED <<world, made, ledger>>

\* The replica goes down, or the client does: nobody is answered.
crash(a) ==
  /\ at[a] \notin {"arriving", "answered", "lost"}
  /\ goto(a, "lost")
  /\ UNCHANGED <<world, rows, ledger>>

------------------------------------------------------------------------------
(* Meanwhile.                                                              *)

closeMarket(m) ==
  /\ m \in open
  /\ open' = open \ {m}
  /\ UNCHANGED <<body, enabled, rows, ledger, progress>>

\* An operator updates the asset's row.
disable(code) ==
  /\ code \in enabled
  /\ enabled' = enabled \ {code}
  /\ UNCHANGED <<body, open, rows, ledger, progress>>

Init ==
  /\ body \in [Attempt -> Bodies]
  /\ open = Opening
  /\ enabled = {code \in Asset : isDeclaredStakeable(code)}
  /\ stakes = {} /\ made = 0
  /\ posted = {} /\ limbo = {} /\ held = Funds
  /\ at = [a \in Attempt |-> "arriving"]
  /\ read = [a \in Attempt |-> [rates |-> NoRates, row |-> 0]]
  /\ answer = [a \in Attempt |-> NoAnswer]

attempt(a) ==
  \/ authenticate(a) \/ replay(a) \/ findMarket(a) \/ findStakeAsset(a)
  \/ evaluateStake(a) \/ stakeRates(a) \/ poolLeg(a) \/ stakeQuote(a)
  \/ acceptStake(a) \/ postEntry(a) \/ postLate(a) \/ deleteRefused(a)
  \/ recordEscrowEntry(a) \/ crash(a)

Next ==
  \/ \E a \in Attempt : attempt(a)
  \/ \E m \in Market : closeMarket(m)
  \/ \E code \in Asset : disable(code)

Spec == Init /\ [][Next]_vars

------------------------------------------------------------------------------

TypeOK ==
  /\ body \in [Attempt -> Bodies]
  /\ open \subseteq Market /\ enabled \subseteq Asset
  /\ made \in 0..MaxStakeRows /\ posted \subseteq 1..made /\ limbo \subseteq Attempt
  /\ \A s \in stakes : s.id \in 1..made /\ s.by \in Attempt /\ s.booked \in BOOLEAN
  /\ \A a \in Attempt : answer[a].status \in statuses \cup {0} /\ answer[a].told \in 0..made

\* POST stakes, its retries and the ledger: every entry that took somebody's money
\* has the row that says why, and one key has taken it once, however many attempts
\* were made and whichever of them were refused, lost or answered late.
DebitsAreExplained ==
  /\ \A id \in posted : \E s \in stakes : s.id = id
  /\ \A s, t \in stakes : s.id \in posted /\ t.id \in posted /\ s.key = t.key => s = t

\* An answer is true of the money: 201 is a stake of the caller whose entry is
\* recorded, a replay is a stake of the caller's subject unless it was being
\* refused at that moment, and any other refusal than 503 took nothing.
AnswersAreTrue ==
  \A a \in Attempt :
    LET told == {s \in stakes : s.id = answer[a].told}
    IN  /\ answer[a].status = 201 => /\ answer[a].told \in posted
                                     /\ \E s \in told : s.booked /\ s.by = a
        /\ \A s \in told : body[s.by].subject = body[a].subject
        /\ answer[a].status \in {400, 401, 403, 404, 409, 422, 500} =>
             read[a].row \notin posted /\ a \notin limbo

\* What the stake route owes its bettors: no debit without its one stake, and no
\* answer that is not true of the money.
StakesAreExplained == DebitsAreExplained /\ AnswersAreTrue
==============================================================================
