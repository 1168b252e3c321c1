---------------------------- MODULE ServiceProofs ----------------------------
(***************************************************************************)
(* What always holds of the parts of Service, and so of the service, for   *)
(* all values of the constants.  Of the keys, planes and explained stakes  *)
(* nothing is assumed of them.  The money, the seeds, the proposals and    *)
(* the types need ServiceAssumption: amounts and rates are numbers, a unit *)
(* of an asset is a positive number of its smallest parts, and bounds are  *)
(* numbers.                                                                *)
(*                                                                         *)
(* The stake routes.  StakesAreExplained is not inductive: that the row a  *)
(* refusal deletes has no entry holds because an attempt is alone with its *)
(* row from the moment it wrote it (OwnRow, Apart), and that no answer     *)
(* comes to speak of another stake holds because ids are never used again  *)
(* (RouteTyped).                                                           *)
(*                                                                         *)
(* The money.  NoMoneyIsMade looks at the quotes of rows, and a row is     *)
(* written from what its attempt read before.  So it says first that every *)
(* quote is a priced one: made of an asset of the registry and of rates    *)
(* quoteStake takes (RowsPriced), which holds because an attempt that got  *)
(* that far met them on its way (PricedAt).  Then it is arithmetic: a      *)
(* stake bought and changed back loses at most a unit of each              *)
(* (ThereAndBack), a stake sent in two parts buys no more than sent as one *)
(* (FloorsAdd), and the division of a pool is the one SplitPayoutsProofs   *)
(* speaks of.                                                              *)
(*                                                                         *)
(* The keys.  OneEffectPerKey says how often the work of a key was done,   *)
(* not why it is not done again.  That is because whoever is at work on a  *)
(* key is alone (Exclusive), finds no row of it (Unrecorded), and the work *)
(* that was done and not lost is either in the row or in the hands of that *)
(* one request (Counted).                                                  *)
(*                                                                         *)
(* The estates.  EstatesStayApart is inductive once it is said of every    *)
(* phase that the schema was found (Asserted), and that rows and jobs are  *)
(* of their types (EstatesTyped).  It rests on one fact about the          *)
(* environment: of the databases a process holds, no two are of the same   *)
(* network (OneHandle), so that the handle of a request and its queue are  *)
(* of one plane.                                                           *)
(*                                                                         *)
(* The seeds.  UncontendedSeedsFit is kept because, while approvals do not *)
(* overlap, at most one of them runs (OneByOne), so that the total it read *)
(* is the total it adds to; and a day that begins has no rows yet          *)
(* (SeedRows).                                                             *)
(*                                                                         *)
(* The proposals.  DecisionsStand is about one step, and holds of it       *)
(* because what an operator is about to write was looked at and is for a   *)
(* row that is there (Edits), because a row keeps the CHECKs (SoundRow),   *)
(* and because the write asks again whether the row was decided.  Text is  *)
(* taken to be records with the fields of a text (ProposalsAssumption).    *)
(*                                                                         *)
(* The types.  TypeOK follows from all of these, once it is added that     *)
(* counts and ids keep to their bounds (RouteBounded, RunsBounded), and    *)
(* that a runner works only at jobs that are there (ProcessTyped).         *)
(***************************************************************************)
EXTENDS Service, SplitPayoutsProofs

------------------------------------------------------------------------------
(* A step of the service is a step of one part, and of the others none.    *)

\* Whatever the service does, its stake routes take a step of theirs or none.
LEMMA StepOfRoute == ASSUME [Next]_vars PROVE [Route!Next]_(Route!vars)
PROOF
  BY DEF Next, vars, routeVars, Route!vars, Route!world, Route!rows, Route!ledger, Route!progress

\* So do its idempotency keys.
LEMMA StepOfKeys == ASSUME [Next]_vars PROVE [Keys!Next]_(Keys!vars)
PROOF
  BY DEF Next, vars, keysVars, Keys!vars

\* And its planes.
LEMMA StepOfEstates == ASSUME [Next]_vars PROVE [Estates!Next]_(Estates!vars)
PROOF
  BY DEF Next, vars, estatesVars, Estates!vars

\* And its house seeds.
LEMMA StepOfSeeds == ASSUME [Next]_vars PROVE [Seeds!Next]_(Seeds!vars)
PROOF
  BY DEF Next, vars, seedsVars, Seeds!vars

\* And its proposals.
LEMMA StepOfIdeas == ASSUME [Next]_vars PROVE [Ideas!Next]_(Ideas!vars)
PROOF
  BY DEF Next, vars, ideasVars, Ideas!vars

------------------------------------------------------------------------------
(* POST stakes and its retries.                                            *)

\* The steps before an attempt has a row, and those at which it works on it.
Before == {"arriving", "replay", "market", "asset", "policy", "stakeLeg", "poolLeg", "accept"}
Working == {"post", "delete", "record"}
RouteSteps == Before \cup Working \cup {"answered", "lost"}

Rates == [stake : RateOf \cup {0, 1}, pool : RateOf \cup {0, 1}]
RowFields(s) == s = [id |-> s.id, key |-> s.key, by |-> s.by, quote |-> s.quote,
                     booked |-> s.booked]

RouteTyped ==
  /\ made \in Nat /\ posted \subseteq 1..made /\ limbo \subseteq Attempt
  /\ at \in [Attempt -> RouteSteps]
  /\ read \in [Attempt -> [rates : Rates, row : 0..made]]
  /\ answer \in [Attempt -> [status : Nat, told : 0..made]]

\* A row is of the attempt that wrote it, under its key; an id or a key has one row.
RowsTyped ==
  \A s \in stakes : /\ RowFields(s) /\ s.id \in 1..made /\ s.by \in Attempt
                    /\ s.key = Route!key(s.by)
RowsUnique == \A s, t \in stakes : s.id = t.id \/ s.key = t.key => s = t

\* The row of an attempt at work, or whose posting is still on its way, is there.
OwnRow ==
  \A a \in Attempt :
    /\ at[a] \in Before => read[a].row = 0
    /\ at[a] \in Working \/ a \in limbo => \E s \in stakes : s.id = read[a].row /\ s.by = a
    /\ at[a] \in {"post", "delete"} => read[a].row \notin posted
    /\ at[a] = "record" => read[a].row \in posted

\* No two attempts have the same row.
Apart == \A a, b \in Attempt : read[a].row = read[b].row /\ read[a].row # 0 => a = b

\* Who is not answered yet has no answer, and only who is waits for nothing.
Unanswered ==
  \A a \in Attempt : /\ at[a] # "answered" => answer[a] = Route!NoAnswer
                     /\ a \in limbo => at[a] = "answered"

EntriesHaveRows == \A id \in posted : \E s \in stakes : s.id = id

RouteIInv ==
  /\ RouteTyped /\ RowsTyped /\ RowsUnique /\ OwnRow /\ Apart /\ Unanswered
  /\ EntriesHaveRows /\ Route!AnswersAreTrue

------------------------------------------------------------------------------
(* What the invariant says, and what an error is answered with.            *)

\* The invariant is strong enough.
LEMMA Explained ==
  ASSUME RouteIInv
  PROVE  Route!StakesAreExplained
PROOF
<1>1. Route!DebitsAreExplained
  BY DEF RouteIInv, EntriesHaveRows, RowsUnique, Route!DebitsAreExplained
<1> QED
  BY <1>1 DEF RouteIInv, Route!StakesAreExplained

\* No error is answered like a success.
LEMMA Handled ==
  ASSUME NEW err
  PROVE  Route!handle(err) \in {400, 401, 403, 404, 409, 422, 500, 503}
PROOF
  BY DEF Route!handle

\* The row of an attempt at work.
LEMMA RowOf ==
  ASSUME RouteIInv, NEW a \in Attempt, at[a] \in Working
  PROVE  Route!rowOf(a) \in stakes /\ Route!rowOf(a).id = read[a].row /\ Route!rowOf(a).by = a
PROOF
<1>1. PICK s \in stakes : s.id = read[a].row /\ s.by = a
  BY DEF RouteIInv, OwnRow
<1>2. Route!rowOf(a) \in stakes /\ Route!rowOf(a).id = read[a].row
  BY <1>1 DEF Route!rowOf
<1> QED
  BY <1>1, <1>2 DEF RouteIInv, RowsUnique

\* Nobody has asked for anything: there is nothing to explain.
LEMMA RouteInitially == Route!Init => RouteIInv
PROOF
<1> SUFFICES ASSUME Route!Init
             PROVE  RouteIInv
  OBVIOUS
<1>1. RouteTyped
  BY DEF Route!Init, RouteTyped, RouteSteps, Before, Rates, Route!NoRates, Route!NoAnswer
<1>2. RowsTyped /\ RowsUnique /\ EntriesHaveRows
  BY DEF Route!Init, RowsTyped, RowsUnique, EntriesHaveRows
<1>3. OwnRow /\ Apart /\ Unanswered
  BY DEF Route!Init, OwnRow, Apart, Unanswered, Before, Working
<1>4. Route!AnswersAreTrue
  BY DEF Route!Init, Route!AnswersAreTrue, Route!NoAnswer
<1> QED
  BY <1>1, <1>2, <1>3, <1>4 DEF RouteIInv

------------------------------------------------------------------------------
(* The steps.  Most of them move one attempt and nothing else.             *)

\* Attempt a goes on to a step before it has a row, or is lost.
Moves(a) ==
  /\ \E step \in Before \cup {"lost"} : at' = [at EXCEPT ![a] = step]
  /\ \/ read' = read
     \/ \E rates \in Rates : read' = [read EXCEPT ![a].rates = rates]
  /\ answer' = answer

\* Attempt a is told nothing but that it was refused.
Refusal(a) == \E err : Route!refuse(a, err)

\* What neither stakes nor the ledger nor the requests change by.
Still == UNCHANGED <<body, Route!rows, Route!ledger>>

\* An attempt that goes on, or is lost, without touching rows or money.
LEMMA MovesKeeps ==
  ASSUME RouteIInv, Still, NEW a \in Attempt,
         \/ at[a] \in Before /\ Moves(a)
         \/ at[a] \in Working /\ Route!goto(a, "lost")
  PROVE  RouteIInv'
PROOF
<1> USE DEF RouteIInv, Still, Route!rows, Route!ledger
<1>1. PICK step \in Before \cup {"lost"} :
        at' = [at EXCEPT ![a] = step] /\ (at[a] \in Working => step = "lost")
  BY DEF Moves, Route!goto, Before, Working
<1>2. answer' = answer
  BY DEF Moves, Route!goto
<1>3. \A b \in Attempt : read'[b].row = read[b].row
  BY DEF Moves, Route!goto, RouteTyped
<1>4. RouteTyped'
  <2>1. read' \in [Attempt -> [rates : Rates, row : 0..made]]
    BY DEF Moves, Route!goto, RouteTyped
  <2> QED
    BY <1>1, <1>2, <2>1 DEF RouteTyped, RouteSteps
<1>5. RowsTyped' /\ RowsUnique' /\ EntriesHaveRows'
  BY DEF RowsTyped, RowsUnique, EntriesHaveRows, Route!key
<1>6. OwnRow'
  BY <1>1, <1>3 DEF OwnRow, RouteTyped, Before, Working
<1>7. Apart'
  BY <1>3 DEF Apart
<1>8. Unanswered'
  BY <1>1, <1>2 DEF Unanswered, RouteTyped, Before, Working
<1>9. Route!AnswersAreTrue'
  BY <1>2, <1>3 DEF Route!AnswersAreTrue
<1> QED
  BY <1>4, <1>5, <1>6, <1>7, <1>8, <1>9

\* An attempt with no row is refused, is quoted a price, or is told of the row its key has.
LEMMA EarlyReplyKeeps ==
  ASSUME RouteIInv, Still, NEW a \in Attempt, at[a] \in Before,
         NEW status \in Nat \ {201}, NEW told, Route!reply(a, status, told),
         \/ told = 0
         \/ status = 200 /\ \E s \in Route!findStakeByKey(Route!key(a)) : told = s.id
  PROVE  RouteIInv'
PROOF
<1> USE DEF RouteIInv, Still, Route!rows, Route!ledger
<1>1. told \in 0..made
  BY DEF Route!findStakeByKey, RowsTyped, RouteTyped
<1>2. /\ at' = [at EXCEPT ![a] = "answered"]
      /\ answer' = [answer EXCEPT ![a] = [status |-> status, told |-> told]]
  BY DEF Route!reply
<1>3. \A b \in Attempt : read'[b].row = read[b].row
  BY DEF Route!reply, RouteTyped
<1>4. RouteTyped'
  <2>1. read' \in [Attempt -> [rates : Rates, row : 0..made]]
    BY DEF Route!reply, RouteTyped, Rates, Route!NoRates
  <2> QED
    BY <1>1, <1>2, <2>1 DEF RouteTyped, RouteSteps
<1>5. RowsTyped' /\ RowsUnique' /\ EntriesHaveRows'
  BY DEF RowsTyped, RowsUnique, EntriesHaveRows, Route!key
<1>6. OwnRow'
  BY <1>2, <1>3 DEF OwnRow, RouteTyped, Before, Working
<1>7. Apart'
  BY <1>3 DEF Apart
<1>8. Unanswered'
  BY <1>2 DEF Unanswered, RouteTyped, Before, Working
<1>9. Route!AnswersAreTrue'
  <2> SUFFICES ASSUME NEW b \in Attempt
               PROVE  LET told1 == {s \in stakes' : s.id = answer'[b].told}
                      IN  /\ answer'[b].status = 201 =>
                                /\ answer'[b].told \in posted'
                                /\ \E s \in told1 : s.booked /\ s.by = b
                          /\ \A s \in told1 : body'[s.by].subject = body'[b].subject
                          /\ answer'[b].status \in {400, 401, 403, 404, 409, 422, 500} =>
                               read'[b].row \notin posted' /\ b \notin limbo'
    BY DEF Route!AnswersAreTrue
  <2>1. CASE b # a
    <3>1. answer'[b] = answer[b]
      BY <1>2, <2>1 DEF RouteTyped
    <3> QED
      BY <3>1, <1>3 DEF Route!AnswersAreTrue
  <2>2. CASE b = a
    <3>1. answer'[a].status = status /\ answer'[a].told = told
      BY <1>2 DEF RouteTyped
    <3>2. read'[a].row \notin posted' /\ a \notin limbo'
      BY <1>3 DEF OwnRow, RouteTyped, Unanswered, Before
    <3>3. \A s \in stakes : s.id = told => body[s.by].subject = body[a].subject
      <4> SUFFICES ASSUME NEW s \in stakes, s.id = told
                   PROVE  body[s.by].subject = body[a].subject
        OBVIOUS
      <4>1. s.key = Route!key(a)
        BY DEF Route!findStakeByKey, RowsTyped, RowsUnique
      <4>2. Route!key(s.by) = Route!key(a)
        BY <4>1 DEF RowsTyped
      <4> QED
        BY <4>2 DEF Route!key
    <3> QED
      BY <2>2, <3>1, <3>2, <3>3
  <2> QED
    BY <2>1, <2>2
<1> QED
  BY <1>4, <1>5, <1>6, <1>7, <1>8, <1>9

\* The steps of an attempt that has no row, but for the one that writes it.
LEMMA EarlyKeeps ==
  ASSUME RouteIInv, NEW a \in Attempt,
         \/ Route!authenticate(a) \/ Route!replay(a) \/ Route!findMarket(a)
         \/ Route!findStakeAsset(a) \/ Route!evaluateStake(a) \/ Route!stakeRates(a)
         \/ Route!poolLeg(a) \/ Route!stakeQuote(a)
  PROVE  RouteIInv'
PROOF
<1>1. Still /\ at[a] \in Before
  BY DEF Still, Before, Route!world, Route!authenticate, Route!replay, Route!findMarket,
         Route!findStakeAsset, Route!evaluateStake, Route!stakeRates, Route!poolLeg,
         Route!stakeQuote
<1>2. ASSUME NEW err, Route!refuse(a, err)
      PROVE  RouteIInv'
  <2>1. Route!handle(err) \in Nat \ {201}
    BY Handled
  <2> QED
    BY <1>1, <1>2, <2>1, EarlyReplyKeeps DEF Route!refuse
<1>3. ASSUME Route!reply(a, 200, 0)
      PROVE  RouteIInv'
  BY <1>1, <1>3, EarlyReplyKeeps
<1>4. ASSUME NEW s \in Route!findStakeByKey(Route!key(a)), Route!reply(a, 200, s.id)
      PROVE  RouteIInv'
  BY <1>1, <1>4, EarlyReplyKeeps
<1>5. ASSUME NEW step \in Before, Route!goto(a, step)
      PROVE  RouteIInv'
  BY <1>1, <1>5, MovesKeeps DEF Moves, Route!goto
<1>6. ASSUME NEW r, NEW step \in Before, NEW rates \in Rates, Route!withRate(a, r, step, rates)
      PROVE  RouteIInv'
  <2>1. CASE r = 0
    BY <1>2, <1>6, <2>1 DEF Route!withRate
  <2>2. CASE r # 0
    BY <1>1, <1>6, <2>2, MovesKeeps DEF Route!withRate, Moves
  <2> QED
    BY <2>1, <2>2
<1>7. CASE Route!authenticate(a)
  BY <1>2, <1>5, <1>7 DEF Route!authenticate, Before
<1>8. CASE Route!replay(a)
  BY <1>4, <1>5, <1>8 DEF Route!replay, Before
<1>9. CASE Route!findMarket(a)
  BY <1>2, <1>5, <1>9 DEF Route!findMarket, Before
<1>10. CASE Route!findStakeAsset(a)
  BY <1>2, <1>5, <1>10 DEF Route!findStakeAsset, Before
<1>11. CASE Route!evaluateStake(a)
  BY <1>2, <1>3, <1>5, <1>11 DEF Route!evaluateStake, Before
<1>12. CASE Route!stakeRates(a)
  BY <1>6, <1>12 DEF Route!stakeRates, Route!leg, Before, Rates
<1>13. CASE Route!poolLeg(a)
  BY <1>6, <1>13 DEF Route!poolLeg, Route!leg, Before, Rates, RouteIInv, RouteTyped
<1>14. CASE Route!stakeQuote(a)
  BY <1>2, <1>3, <1>14 DEF Route!stakeQuote
<1> QED
  BY <1>7, <1>8, <1>9, <1>10, <1>11, <1>12, <1>13, <1>14

------------------------------------------------------------------------------
(* The steps that write a row or an entry.                                 *)

\* A new row has an id and a key nobody has.
LEMMA AcceptKeeps ==
  ASSUME RouteIInv, NEW a \in Attempt, Route!acceptStake(a)
  PROVE  RouteIInv'
PROOF
<1>1. at[a] \in Before
  BY DEF Route!acceptStake, Before
<1>2. ASSUME NEW err, Route!refuse(a, err), UNCHANGED <<body, Route!rows, Route!ledger>>
      PROVE  RouteIInv'
  <2>1. Route!handle(err) \in Nat \ {201}
    BY Handled
  <2> QED
    BY <1>1, <1>2, <2>1, EarlyReplyKeeps DEF Route!refuse, Still
<1>3. CASE /\ Route!admitted(a) /\ made' = made + 1
           /\ stakes' = stakes \cup {[id |-> made', key |-> Route!key(a), by |-> a,
                                      quote |-> Route!quoteOf(a), booked |-> FALSE]}
           /\ at' = [at EXCEPT ![a] = "post"]
           /\ read' = [read EXCEPT ![a].row = made']
           /\ answer' = answer /\ UNCHANGED <<Route!world, Route!ledger>>
  <2> USE DEF RouteIInv, Route!world, Route!ledger
  <2>1. PICK new : /\ new = [id |-> made + 1, key |-> Route!key(a), by |-> a,
                              quote |-> Route!quoteOf(a), booked |-> FALSE]
                   /\ stakes' = stakes \cup {new}
    BY <1>3
  <2>2. /\ RowFields(new) /\ new.id = made + 1 /\ new.key = Route!key(a) /\ new.by = a
        /\ \A s \in stakes : s.id # new.id /\ s.key # new.key
    BY <1>3, <2>1 DEF RowFields, Route!admitted, Route!findStakeByKey, RowsTyped, RouteTyped
  <2>3. /\ read'[a].row = made + 1 /\ \A b \in Attempt \ {a} : read'[b].row = read[b].row
        /\ \A b \in Attempt : read[b].row \in 0..made
    BY <1>3 DEF RouteTyped
  <2>4. RouteTyped'
    <3>1. read' \in [Attempt -> [rates : Rates, row : 0..made']]
      BY <1>3 DEF RouteTyped
    <3> QED
      BY <1>3, <3>1 DEF RouteTyped, RouteSteps, Working
  <2>5. RowsTyped'
    <3>1. \A b : Route!key(b)' = Route!key(b)
      BY <1>3 DEF Route!key
    <3> QED
      BY <1>3, <2>1, <2>2, <3>1 DEF RowsTyped, RowFields, RouteTyped
  <2>6. RowsUnique' /\ EntriesHaveRows'
    BY <1>3, <2>1, <2>2 DEF RowsUnique, EntriesHaveRows
  <2>7. OwnRow'
    <3>1. read'[a].row \notin posted'
      BY <1>3, <2>3 DEF RouteTyped
    <3> QED
      BY <1>1, <1>3, <2>1, <2>2, <2>3, <3>1 DEF OwnRow, RouteTyped, Before, Working
  <2>8. Apart'
    BY <2>3 DEF Apart, RouteTyped
  <2>9. Unanswered'
    BY <1>1, <1>3 DEF Unanswered, RouteTyped, Before
  <2>10. Route!AnswersAreTrue'
    <3>1. \A b \in Attempt : answer[b].told # new.id
      BY <2>2 DEF RouteTyped
    <3>2. answer[a].status = 0
      BY <1>1 DEF Unanswered, Before, Route!NoAnswer
    <3> QED
      BY <1>3, <2>1, <2>3, <3>1, <3>2 DEF Route!AnswersAreTrue
  <2> QED
    BY <2>4, <2>5, <2>6, <2>7, <2>8, <2>9, <2>10
<1> QED
  BY <1>2, <1>3 DEF Route!acceptStake, Route!world

\* An entry for a row that is there; whose it is is not told anything else by it.
LEMMA DebitKeeps ==
  ASSUME RouteIInv, NEW a \in Attempt, UNCHANGED <<body, Route!rows>>,
         limbo' \in SUBSET limbo, posted' = posted \cup {read[a].row},
         \/ /\ at[a] = "post" /\ limbo' = limbo
            /\ Route!goto(a, "record") \/ Route!refuse(a, "ledger_unavailable")
         \/ a \in limbo /\ UNCHANGED Route!progress
  PROVE  RouteIInv'
PROOF
<1> USE DEF RouteIInv, Route!rows, Route!progress
<1>1. PICK own \in stakes : own.id = read[a].row /\ own.by = a
  BY DEF OwnRow, Working
<1>2. Route!handle("ledger_unavailable") = 503
  BY DEF Route!handle
<1>3. /\ \A b \in Attempt : read'[b].row = read[b].row
      /\ \A b \in Attempt \ {a} : at'[b] = at[b] /\ answer'[b] = answer[b]
      /\ \/ at'[a] = "record" /\ answer'[a] = answer[a] /\ at[a] = "post"
         \/ at'[a] = "answered" /\ answer'[a].status = 503 /\ answer'[a].told = 0 /\ at[a] = "post"
         \/ at'[a] = at[a] /\ answer'[a] = answer[a] /\ a \in limbo
  <2>1. CASE at[a] = "post" /\ Route!goto(a, "record")
    BY <2>1 DEF Route!goto, RouteTyped
  <2>2. CASE at[a] = "post" /\ Route!refuse(a, "ledger_unavailable")
    <3>1. Route!reply(a, 503, 0)
      BY <1>2, <2>2 DEF Route!refuse
    <3> QED
      BY <2>2, <3>1 DEF Route!reply, RouteTyped
  <2>3. CASE a \in limbo /\ UNCHANGED Route!progress
    BY <2>3
  <2> QED
    BY <2>1, <2>2, <2>3
<1>4. RouteTyped'
  <2>1. read' \in [Attempt -> [rates : Rates, row : 0..made]]
    BY DEF Route!goto, Route!refuse, Route!reply, RouteTyped, Rates, Route!NoRates
  <2>2. at' \in [Attempt -> RouteSteps]
    BY DEF Route!goto, Route!refuse, Route!reply, RouteTyped, RouteSteps, Working
  <2>3. answer' \in [Attempt -> [status : Nat, told : 0..made]]
    BY <1>2 DEF Route!goto, Route!refuse, Route!reply, RouteTyped
  <2>4. posted' \subseteq 1..made
    BY <1>1 DEF RouteTyped, RowsTyped
  <2> QED
    BY <2>1, <2>2, <2>3, <2>4 DEF RouteTyped
<1>5. RowsTyped' /\ RowsUnique' /\ EntriesHaveRows'
  BY <1>1 DEF RowsTyped, RowsUnique, EntriesHaveRows, Route!key
<1>6. \A b \in Attempt : at[b] \in {"post", "delete"} /\ b # a => read[b].row # read[a].row
  BY <1>1 DEF OwnRow, Working, RowsUnique
<1>7. OwnRow'
  <2> SUFFICES ASSUME NEW b \in Attempt
               PROVE  /\ at'[b] \in Before => read'[b].row = 0
                      /\ at'[b] \in Working \/ b \in limbo' =>
                           \E s \in stakes' : s.id = read'[b].row /\ s.by = b
                      /\ at'[b] \in {"post", "delete"} => read'[b].row \notin posted'
                      /\ at'[b] = "record" => read'[b].row \in posted'
    BY DEF OwnRow
  <2>1. CASE b = a
    BY <1>1, <1>3, <2>1 DEF Before, Working, Unanswered
  <2>2. CASE b # a
    BY <1>3, <1>6, <2>2 DEF OwnRow
  <2> QED
    BY <2>1, <2>2
<1>8. Apart'
  BY <1>3 DEF Apart
<1>9. Unanswered'
  BY <1>3 DEF Unanswered
<1>10. Route!AnswersAreTrue'
  <2>1. \A b \in Attempt : read[b].row = read[a].row => b = a
    BY <1>1 DEF Apart, RowsTyped
  <2>2. answer[a].status \notin {201, 400, 401, 403, 404, 409, 422, 500} \/ at'[a] = at[a]
    BY <1>3 DEF Unanswered, Route!NoAnswer
  <2>3. a \in limbo => answer[a].status \notin {400, 401, 403, 404, 409, 422, 500}
    BY DEF Route!AnswersAreTrue
  <2>4. \A b \in Attempt :
          answer'[b] = answer[b] \/ (answer'[b].status = 503 /\ answer'[b].told = 0)
    <3>1. \A b \in Attempt \ {a} : answer'[b] = answer[b]
      BY <1>3
    <3>2. answer'[a] = answer[a] \/ (answer'[a].status = 503 /\ answer'[a].told = 0)
      BY <1>3
    <3> QED
      BY <3>1, <3>2
  <2>5. \A s \in stakes : s.id # 0
    BY DEF RowsTyped, RouteTyped
  <2> SUFFICES ASSUME NEW b \in Attempt
               PROVE  /\ answer'[b].status = 201 =>
                            /\ answer'[b].told \in posted'
                            /\ \E s \in stakes' : s.id = answer'[b].told /\ s.booked /\ s.by = b
                      /\ \A s \in stakes' : s.id = answer'[b].told =>
                           body'[s.by].subject = body'[b].subject
                      /\ answer'[b].status \in {400, 401, 403, 404, 409, 422, 500} =>
                           read'[b].row \notin posted' /\ b \notin limbo'
    BY DEF Route!AnswersAreTrue
  <2>6. CASE answer'[b].status = 503 /\ answer'[b].told = 0
    BY <2>5, <2>6
  <2>7. CASE answer'[b] = answer[b]
    <3>1. answer[b].status \in {400, 401, 403, 404, 409, 422, 500} => b # a
      BY <1>3, <2>3, <2>7, <2>2
    <3>2. answer[b].status \in {400, 401, 403, 404, 409, 422, 500} =>
            read[b].row \notin posted' /\ b \notin limbo'
      BY <2>1, <3>1 DEF Route!AnswersAreTrue
    <3>3. /\ answer[b].status = 201 =>
               /\ answer[b].told \in posted'
               /\ \E s \in stakes : s.id = answer[b].told /\ s.booked /\ s.by = b
          /\ \A s \in stakes : s.id = answer[b].told => body[s.by].subject = body[b].subject
      BY DEF Route!AnswersAreTrue
    <3> QED
      BY <1>3, <2>7, <3>2, <3>3
  <2> QED
    BY <2>4, <2>6, <2>7
<1> QED
  BY <1>4, <1>5, <1>7, <1>8, <1>9, <1>10

\* Silence: the posting is on its way, or will never be seen, and 503 says neither.
LEMMA SilenceKeeps ==
  ASSUME RouteIInv, NEW a \in Attempt, UNCHANGED <<body, Route!rows, posted>>, at[a] = "post",
         limbo' = limbo \cup {a}, Route!refuse(a, "ledger_unavailable")
  PROVE  RouteIInv'
PROOF
<1> USE DEF RouteIInv, Route!rows
<1>1. Route!reply(a, 503, 0)
  BY DEF Route!refuse, Route!handle
<1>2. /\ \A b \in Attempt : read'[b].row = read[b].row
      /\ \A b \in Attempt \ {a} : at'[b] = at[b] /\ answer'[b] = answer[b]
      /\ at'[a] = "answered" /\ answer'[a].status = 503 /\ answer'[a].told = 0
  BY <1>1 DEF Route!reply, RouteTyped
<1>3. RouteTyped'
  <2>1. read' \in [Attempt -> [rates : Rates, row : 0..made]]
    BY <1>1 DEF Route!reply, RouteTyped, Rates, Route!NoRates
  <2> QED
    BY <1>1, <2>1 DEF Route!reply, RouteTyped, RouteSteps
<1>4. RowsTyped' /\ RowsUnique' /\ EntriesHaveRows'
  BY DEF RowsTyped, RowsUnique, EntriesHaveRows, Route!key
<1>5. OwnRow'
  <2>1. \E s \in stakes : s.id = read[a].row /\ s.by = a
    BY DEF OwnRow, Working
  <2> QED
    BY <1>2, <2>1 DEF OwnRow, Before, Working
<1>6. Apart'
  BY <1>2 DEF Apart
<1>7. Unanswered'
  BY <1>2 DEF Unanswered
<1>8. Route!AnswersAreTrue'
  <2>1. \A s \in stakes : s.id # 0
    BY DEF RowsTyped, RouteTyped
  <2> QED
    BY <1>2, <2>1 DEF Route!AnswersAreTrue
<1> QED
  BY <1>3, <1>4, <1>5, <1>6, <1>7, <1>8

\* A posting that is lost, or that the account does not cover, changes nothing but
\* that it is not on its way any more; the attempt at "post" goes on to "delete".
LEMMA UncoveredKeeps ==
  ASSUME RouteIInv, NEW a \in Attempt, UNCHANGED <<body, Route!rows, posted>>,
         \/ at[a] = "post" /\ limbo' = limbo /\ Route!goto(a, "delete")
         \/ limbo' = limbo \ {a} /\ UNCHANGED Route!progress
  PROVE  RouteIInv'
PROOF
<1> USE DEF RouteIInv, Route!rows, Route!progress
<1>1. read' = read /\ answer' = answer /\ limbo' \subseteq limbo
  BY DEF Route!goto
<1>2. /\ \A b \in Attempt \ {a} : at'[b] = at[b]
      /\ at'[a] = at[a] \/ (at[a] = "post" /\ at'[a] = "delete")
  BY DEF Route!goto, RouteTyped
<1>3. RouteTyped'
  BY <1>1 DEF Route!goto, RouteTyped, RouteSteps, Working
<1>4. RowsTyped' /\ RowsUnique' /\ EntriesHaveRows'
  BY DEF RowsTyped, RowsUnique, EntriesHaveRows, Route!key
<1>5. OwnRow'
  BY <1>1, <1>2 DEF OwnRow, Before, Working
<1>6. Apart'
  BY <1>1 DEF Apart
<1>7. Unanswered'
  BY <1>1, <1>2 DEF Unanswered
<1>8. Route!AnswersAreTrue'
  BY <1>1 DEF Route!AnswersAreTrue
<1> QED
  BY <1>3, <1>4, <1>5, <1>6, <1>7, <1>8

\* The row that goes has no entry, and no answer but a replay's spoke of it.
LEMMA DeleteKeeps ==
  ASSUME RouteIInv, NEW a \in Attempt, Route!deleteRefused(a)
  PROVE  RouteIInv'
PROOF
<1> USE DEF RouteIInv
<1>1. /\ at[a] = "delete" /\ stakes' = stakes \ {Route!rowOf(a)}
      /\ Route!reply(a, 409, 0) /\ UNCHANGED <<body, made, posted, limbo>>
  BY DEF Route!deleteRefused, Route!refuse, Route!handle, Route!world, Route!ledger
<1>2. Route!rowOf(a) \in stakes /\ Route!rowOf(a).id = read[a].row /\ Route!rowOf(a).by = a
  BY <1>1, RowOf DEF Working
<1>3. /\ \A b \in Attempt : read'[b].row = read[b].row
      /\ \A b \in Attempt \ {a} : at'[b] = at[b] /\ answer'[b] = answer[b]
      /\ at'[a] = "answered" /\ answer'[a].status = 409 /\ answer'[a].told = 0
  BY <1>1 DEF Route!reply, RouteTyped
<1>4. read[a].row \notin posted /\ a \notin limbo
  BY <1>1 DEF OwnRow, Unanswered
<1>5. \A s \in stakes : s.id \in posted \/ s.by # a => s \in stakes'
  BY <1>1, <1>2, <1>4
<1>6. RouteTyped'
  <2>1. read' \in [Attempt -> [rates : Rates, row : 0..made]]
    BY <1>1 DEF Route!reply, RouteTyped, Rates, Route!NoRates
  <2> QED
    BY <1>1, <2>1 DEF Route!reply, RouteTyped, RouteSteps
<1>7. RowsTyped' /\ RowsUnique' /\ EntriesHaveRows'
  BY <1>1, <1>5 DEF RowsTyped, RowsUnique, EntriesHaveRows, Route!key
<1>8. OwnRow'
  BY <1>1, <1>3, <1>4, <1>5 DEF OwnRow, Before, Working
<1>9. Apart'
  BY <1>3 DEF Apart
<1>10. Unanswered'
  BY <1>1, <1>3 DEF Unanswered
<1>11. Route!AnswersAreTrue'
  <2>1. \A s \in stakes : s.id # 0
    BY DEF RowsTyped, RouteTyped
  <2>2. /\ 409 \in {400, 401, 403, 404, 409, 422, 500}
        /\ \A s \in stakes' : s \in stakes
    BY <1>1
  <2> SUFFICES ASSUME NEW b \in Attempt
               PROVE  /\ answer'[b].status = 201 =>
                            /\ answer'[b].told \in posted'
                            /\ \E s \in stakes' : s.id = answer'[b].told /\ s.booked /\ s.by = b
                      /\ \A s \in stakes' : s.id = answer'[b].told =>
                           body'[s.by].subject = body'[b].subject
                      /\ answer'[b].status \in {400, 401, 403, 404, 409, 422, 500} =>
                           read'[b].row \notin posted' /\ b \notin limbo'
    BY DEF Route!AnswersAreTrue
  <2>3. CASE b = a
    BY <1>1, <1>3, <1>4, <2>1, <2>2, <2>3
  <2>4. CASE b # a
    <3>1. answer[b].status = 201 =>
            \E s \in stakes' : s.id = answer[b].told /\ s.booked /\ s.by = b
      BY <1>5 DEF Route!AnswersAreTrue
    <3> QED
      BY <1>1, <1>3, <2>2, <2>4, <3>1 DEF Route!AnswersAreTrue
  <2> QED
    BY <2>3, <2>4
<1> QED
  BY <1>6, <1>7, <1>8, <1>9, <1>10, <1>11

\* The row that is recorded is the same row, and its entry is at the ledger.
LEMMA RecordKeeps ==
  ASSUME RouteIInv, NEW a \in Attempt, Route!recordEscrowEntry(a)
  PROVE  RouteIInv'
PROOF
<1> USE DEF RouteIInv
<1>1. /\ at[a] = "record" /\ Route!reply(a, 201, read[a].row)
      /\ UNCHANGED <<body, made, posted, limbo>>
  BY DEF Route!recordEscrowEntry, Route!world, Route!ledger
<1>2. Route!rowOf(a) \in stakes /\ Route!rowOf(a).id = read[a].row /\ Route!rowOf(a).by = a
  BY <1>1, RowOf DEF Working
<1>3. PICK new : /\ new = [Route!rowOf(a) EXCEPT !.booked = TRUE]
                 /\ stakes' = (stakes \ {Route!rowOf(a)}) \cup {new}
  BY DEF Route!recordEscrowEntry
<1>4. /\ RowFields(new) /\ new.id = Route!rowOf(a).id /\ new.key = Route!rowOf(a).key /\ new.by = a
      /\ new.booked
  <2>1. PICK i, k, b, q, f :
          Route!rowOf(a) = [id |-> i, key |-> k, by |-> b, quote |-> q, booked |-> f]
    BY <1>2 DEF RowsTyped, RowFields
  <2>2. new = [id |-> i, key |-> k, by |-> b, quote |-> q, booked |-> TRUE]
    <3>1. new = [[id |-> i, key |-> k, by |-> b, quote |-> q, booked |-> f] EXCEPT !.booked = TRUE]
      BY <1>3, <2>1
    <3> QED
      BY <3>1
  <2> QED
    BY <1>2, <2>1, <2>2 DEF RowFields
<1>5. /\ \A b \in Attempt : read'[b].row = read[b].row
      /\ \A b \in Attempt \ {a} : at'[b] = at[b] /\ answer'[b] = answer[b]
      /\ at'[a] = "answered" /\ answer'[a].status = 201 /\ answer'[a].told = read[a].row
  BY <1>1 DEF Route!reply, RouteTyped
\* Every row has a successor, and every row now had a predecessor.
<1>6. /\ \A s \in stakes : \E t \in stakes' : /\ t.id = s.id /\ t.by = s.by
                                              /\ t = s \/ t.booked
      /\ \A t \in stakes' : \E s \in stakes : t.id = s.id /\ t.key = s.key /\ t.by = s.by
  BY <1>2, <1>3, <1>4
<1>7. RouteTyped'
  <2>1. read' \in [Attempt -> [rates : Rates, row : 0..made]]
    BY <1>1 DEF Route!reply, RouteTyped, Rates, Route!NoRates
  <2>2. read[a].row \in 0..made
    BY DEF RouteTyped
  <2> QED
    BY <1>1, <2>1, <2>2 DEF Route!reply, RouteTyped, RouteSteps
<1>8. RowsTyped'
  BY <1>1, <1>2, <1>3, <1>4 DEF RowsTyped, RowFields, Route!key
<1>9. RowsUnique'
  <2>1. \A s \in stakes' : s = new \/ (s \in stakes /\ s # Route!rowOf(a))
    BY <1>3
  <2>2. \A s \in stakes : s # Route!rowOf(a) => s.id # new.id /\ s.key # new.key
    BY <1>2, <1>4 DEF RowsUnique
  <2> QED
    BY <2>1, <2>2 DEF RowsUnique
<1>10. EntriesHaveRows'
  BY <1>1, <1>6 DEF EntriesHaveRows
<1>11. OwnRow'
  BY <1>1, <1>5, <1>6 DEF OwnRow, Before, Working, Unanswered
<1>12. Apart'
  BY <1>5 DEF Apart
<1>13. Unanswered'
  BY <1>1, <1>5 DEF Unanswered
<1>14. Route!AnswersAreTrue'
  <2> SUFFICES ASSUME NEW b \in Attempt
               PROVE  /\ answer'[b].status = 201 =>
                            /\ answer'[b].told \in posted'
                            /\ \E s \in stakes' : s.id = answer'[b].told /\ s.booked /\ s.by = b
                      /\ \A s \in stakes' : s.id = answer'[b].told =>
                           body'[s.by].subject = body'[b].subject
                      /\ answer'[b].status \in {400, 401, 403, 404, 409, 422, 500} =>
                           read'[b].row \notin posted' /\ b \notin limbo'
    BY DEF Route!AnswersAreTrue
  <2>1. CASE b = a
    <3>1. read[a].row \in posted
      BY <1>1 DEF OwnRow
    <3>2. \A t \in stakes' : t.id = read[a].row => t.by = a
      BY <1>2, <1>6 DEF RowsUnique
    <3>3. new \in stakes' /\ new.id = read[a].row
      BY <1>2, <1>3, <1>4
    <3> QED
      BY <1>1, <1>4, <1>5, <2>1, <3>1, <3>2, <3>3
  <2>2. CASE b # a
    <3>1. answer[b].status = 201 =>
            \E s \in stakes' : s.id = answer[b].told /\ s.booked /\ s.by = b
      BY <1>6 DEF Route!AnswersAreTrue
    <3>2. \A s \in stakes' : s.id = answer[b].told => body[s.by].subject = body[b].subject
      BY <1>6 DEF Route!AnswersAreTrue
    <3> QED
      BY <1>1, <1>5, <2>2, <3>1, <3>2 DEF Route!AnswersAreTrue
  <2> QED
    BY <2>1, <2>2
<1> QED
  BY <1>7, <1>8, <1>9, <1>10, <1>11, <1>12, <1>13, <1>14

------------------------------------------------------------------------------
(* What always holds of the routes.                                        *)

\* No step of an attempt, of the ledger, of a market or of an operator breaks it.
LEMMA RouteStepKeeps == RouteIInv /\ [Route!Next]_(Route!vars) => RouteIInv'
PROOF
<1> SUFFICES ASSUME RouteIInv, [Route!Next]_(Route!vars)
             PROVE  RouteIInv'
  OBVIOUS
<1>1. ASSUME UNCHANGED <<body, Route!rows, Route!ledger, Route!progress>>
      PROVE  RouteIInv'
  BY <1>1 DEF RouteIInv, Route!rows, Route!ledger, Route!progress, RouteTyped, RowsTyped,
              RowsUnique, OwnRow, Apart, Unanswered, EntriesHaveRows, Route!AnswersAreTrue,
              Route!key
<1>2. ASSUME NEW a \in Attempt, Route!attempt(a)
      PROVE  RouteIInv'
  <2>1. CASE \/ Route!authenticate(a) \/ Route!replay(a) \/ Route!findMarket(a)
             \/ Route!findStakeAsset(a) \/ Route!evaluateStake(a) \/ Route!stakeRates(a)
             \/ Route!poolLeg(a) \/ Route!stakeQuote(a)
    BY <2>1, EarlyKeeps
  <2>2. CASE Route!acceptStake(a)
    BY <2>2, AcceptKeeps
  <2>3. CASE Route!postEntry(a)
    <3>1. at[a] = "post" /\ UNCHANGED <<body, Route!rows>>
      BY <2>3 DEF Route!postEntry, Route!world
    <3>2. CASE /\ Route!debit(a) /\ limbo' = limbo
               /\ Route!goto(a, "record") \/ Route!refuse(a, "ledger_unavailable")
      BY <3>1, <3>2, DebitKeeps DEF Route!debit
    <3>3. CASE Route!goto(a, "delete") /\ UNCHANGED Route!ledger
      BY <3>1, <3>3, UncoveredKeeps DEF Route!ledger
    <3>4. CASE /\ limbo' = limbo \cup {a} /\ Route!refuse(a, "ledger_unavailable")
               /\ UNCHANGED <<posted, held>>
      BY <3>1, <3>4, SilenceKeeps
    <3> QED
      BY <2>3, <3>2, <3>3, <3>4 DEF Route!postEntry
  <2>4. CASE Route!postLate(a)
    <3>1. a \in limbo /\ limbo' = limbo \ {a} /\ UNCHANGED <<body, Route!rows, Route!progress>>
      BY <2>4 DEF Route!postLate, Route!world
    <3>2. CASE Route!debit(a)
      BY <3>1, <3>2, DebitKeeps DEF Route!debit
    <3>3. CASE UNCHANGED <<posted, held>>
      BY <3>1, <3>3, UncoveredKeeps
    <3> QED
      BY <2>4, <3>2, <3>3 DEF Route!postLate
  <2>5. CASE Route!deleteRefused(a)
    BY <2>5, DeleteKeeps
  <2>6. CASE Route!recordEscrowEntry(a)
    BY <2>6, RecordKeeps
  <2>7. CASE Route!crash(a)
    <3>1. at[a] \in Before \cup Working
      BY <2>7 DEF Route!crash, RouteIInv, RouteTyped, RouteSteps
    <3> QED
      BY <2>7, <3>1, MovesKeeps DEF Route!crash, Still, Moves, Route!goto, Route!world
  <2> QED
    BY <1>2, <2>1, <2>2, <2>3, <2>4, <2>5, <2>6, <2>7 DEF Route!attempt
<1>3. ASSUME NEW m, Route!closeMarket(m)
      PROVE  RouteIInv'
  BY <1>1, <1>3 DEF Route!closeMarket
<1>4. ASSUME NEW code, Route!disable(code)
      PROVE  RouteIInv'
  BY <1>1, <1>4 DEF Route!disable
<1>5. CASE UNCHANGED Route!vars
  BY <1>1, <1>5 DEF Route!vars, Route!world
<1> QED
  BY <1>2, <1>3, <1>4, <1>5 DEF Route!Next

\* Whatever is asked, however often, and whoever is silent or goes down: a debit has
\* its one stake, and an answer is true of the money.
THEOREM Explains == Spec => []StakesAreExplained
PROOF
<1>1. Init => RouteIInv
  BY RouteInitially DEF Init
<1>2. RouteIInv /\ [Next]_vars => RouteIInv'
  BY RouteStepKeeps, StepOfRoute
<1>3. RouteIInv => StakesAreExplained
  BY Explained DEF StakesAreExplained
<1> QED
  BY <1>1, <1>2, <1>3, PTL DEF Spec

------------------------------------------------------------------------------
(* Rounding makes no money.                                                *)

\* A floor of a sum is the floors' sum, or one more.
LEMMA FloorsAdd ==
  ASSUME NEW a \in Nat, NEW b \in Nat, NEW d \in Nat, d # 0
  PROVE  /\ (a \div d) + (b \div d) <= (a + b) \div d
         /\ (a + b) \div d <= (a \div d) + (b \div d) + 1
PROOF
  OBVIOUS

\* What is bought of one thing with another is worth no more than was given for it, and
\* less by no more than one unit of each.
LEMMA ThereAndBack ==
  ASSUME NEW s \in Nat, NEW K \in Nat, NEW M \in Nat, K # 0, M # 0,
         NEW bought, bought = (s * K) \div M
  PROVE  /\ (bought * M) \div K <= s
         /\ s - ((bought * M) \div K) <= (M \div K) + 1
PROOF
<1>1. PICK a \in Nat : a = s * K
  OBVIOUS
<1>2. bought \in Nat /\ bought * M <= a /\ a < bought * M + M
  BY <1>1, Floor
<1>3. PICK b \in Nat : b = bought * M
  BY <1>2
<1>4. PICK back \in Nat, u \in Nat : back = b \div K /\ u = M \div K
  BY <1>3, Floor
<1>5. back * K <= b /\ b < back * K + K /\ M < u * K + K
  BY <1>3, <1>4, Floor
<1>6. back <= s
  <2>1. back * K <= s * K
    BY <1>1, <1>2, <1>3, <1>5
  <2> QED
    BY <2>1, Cancels
<1>7. s - back <= u + 1
  <2>1. s * K < back * K + K + u * K + K
    BY <1>1, <1>2, <1>3, <1>5
  <2>2. s * K < (back + u + 2) * K
    BY <2>1
  <2>3. s < back + u + 2
    BY <2>2, Cancels
  <2> QED
    BY <2>3
<1> QED
  BY <1>3, <1>4, <1>6, <1>7

\* A quote is of an asset of the registry, and has its amounts and rates.
Priced(q) ==
  \E code \in Route!Asset, n \in Nat \ {0}, rates \in [stake : Nat, pool : Nat] :
    /\ q = Route!quoteStake(code, n, rates)
    /\ code = POOL_ASSET => rates.pool \in 1..MAX_PLAUSIBLE_RATE

\* What is assumed of scales and rates.
LEMMA Scales ==
  /\ MAX_PLAUSIBLE_RATE \in Nat \ {0} /\ MAX_DECIMALS \in Nat
  /\ \A d \in 0..MAX_DECIMALS : Scale[d] \in Nat \ {0}
  /\ POOL_DECIMALS \in 0..MAX_DECIMALS
  /\ \A code : code = POOL_ASSET /\ Route!assertRegistryDecimals(code)
       => STAKE_ASSET_REGISTRY[code].decimals = POOL_DECIMALS
PROOF
  BY ServiceAssumption DEF ServiceAssumption, Route!RouteAssumption, Route!RatesAssumption,
     Route!assertRegistryDecimals, Route!isTokenStakeAsset

\* A quote that credits something is at rates that are believed, and is what it is worth.
LEMMA Worth ==
  ASSUME NEW q, Priced(q), q.pool # Route!Refused
  PROVE  /\ q.stake \in Nat \ {0} /\ q.rates.stake \in Nat \ {0} /\ q.rates.pool \in Nat \ {0}
         /\ Route!assertRate(q.rates.stake) /\ Route!assertRate(q.rates.pool)
         /\ STAKE_ASSET_REGISTRY[q.asset].decimals \in 0..MAX_DECIMALS
         /\ q.pool > 0
         /\ q.pool = (q.stake * Scale[POOL_DECIMALS] * q.rates.stake)
                       \div (Scale[STAKE_ASSET_REGISTRY[q.asset].decimals] * q.rates.pool)
PROOF
<1>1. PICK code \in Route!Asset, n \in Nat \ {0}, rates \in [stake : Nat, pool : Nat] :
        /\ q = Route!quoteStake(code, n, rates)
        /\ code = POOL_ASSET => rates.pool \in 1..MAX_PLAUSIBLE_RATE
  BY DEF Priced
<1>2. /\ q.asset = code /\ q.stake = n /\ Route!assertRegistryDecimals(code)
      /\ q.rates = IF code = POOL_ASSET THEN Route!identityRates(rates) ELSE rates
      /\ q.pool = IF code = POOL_ASSET THEN n
                  ELSE Route!poolAmountFor(n, STAKE_ASSET_REGISTRY[code].decimals, rates)
  BY <1>1 DEF Route!quoteStake
<1>3. CASE code = POOL_ASSET
  <2>1. /\ q.rates.stake = rates.pool /\ q.rates.pool = rates.pool
        /\ STAKE_ASSET_REGISTRY[code].decimals = POOL_DECIMALS /\ q.pool = n
    BY <1>2, <1>3, Scales DEF Route!identityRates
  <2>2. PICK r \in Nat, P \in Nat, K \in Nat :
          /\ r = rates.pool /\ r # 0 /\ r <= MAX_PLAUSIBLE_RATE
          /\ P = Scale[POOL_DECIMALS] /\ P # 0 /\ K = P * r /\ K # 0
    BY <1>1, <1>3, Scales
  <2>3. (n * P * r) \div (P * r) = n
    <3>1. n * P * r = n * K /\ P * r = K
      BY <2>2
    <3>2. (n * K) \div K = n
      BY <2>2
    <3> QED
      BY <3>1, <3>2
  <2> QED
    BY <1>2, <2>1, <2>2, <2>3, Scales DEF Route!assertRate
<1>4. CASE code # POOL_ASSET
  <2>1. q.pool = Route!poolAmountFor(n, STAKE_ASSET_REGISTRY[code].decimals, rates) /\ q.rates = rates
    BY <1>2, <1>4
  <2>2. /\ STAKE_ASSET_REGISTRY[code].decimals \in 0..MAX_DECIMALS
        /\ Route!assertRate(rates.stake) /\ Route!assertRate(rates.pool)
        /\ q.pool = (n * Scale[POOL_DECIMALS] * rates.stake)
                      \div (Scale[STAKE_ASSET_REGISTRY[code].decimals] * rates.pool)
    BY <2>1 DEF Route!poolAmountFor, Route!plausible, Route!Refused
  <2>3. rates.stake \in Nat \ {0} /\ rates.pool \in Nat \ {0}
    BY <2>2 DEF Route!assertRate
  <2>4. q.pool > 0
    <3>1. PICK P \in Nat, B \in Nat, r \in Nat, p \in Nat :
            /\ P = Scale[POOL_DECIMALS] /\ B = Scale[STAKE_ASSET_REGISTRY[code].decimals] /\ B # 0
            /\ r = rates.stake /\ p = rates.pool /\ p # 0
      BY <2>2, <2>3, Scales
    <3>2. n * P * r \in Nat /\ B * p \in Nat /\ B * p # 0
      BY <3>1
    <3>3. q.pool \in Nat
      BY <2>2, <3>1, <3>2, Floor
    <3> QED
      BY <3>3 DEF Route!Refused
  <2> QED
    BY <1>2, <2>1, <2>2, <2>3, <2>4
<1> QED
  BY <1>3, <1>4

\* A quote's pool amount is worth no more than the stake.
LEMMA NoneIsGained == ASSUME NEW q, Priced(q) PROVE Route!RoundTripLoses(q)
PROOF
<1> SUFFICES ASSUME q.pool # Route!Refused
             PROVE  Route!RoundTripLoses(q)
  BY DEF Route!RoundTripLoses
<1>1. PICK d, P, B, rs, rp, s, pool :
        /\ d = STAKE_ASSET_REGISTRY[q.asset].decimals /\ P = Scale[POOL_DECIMALS] /\ B = Scale[d]
        /\ rs = q.rates.stake /\ rp = q.rates.pool /\ s = q.stake /\ pool = q.pool
  OBVIOUS
<1>2. /\ P \in Nat /\ B \in Nat /\ rs \in Nat /\ rp \in Nat /\ s \in Nat
      /\ P # 0 /\ B # 0 /\ rs # 0 /\ rp # 0
  <2>1. d \in 0..MAX_DECIMALS
    BY <1>1, Worth
  <2>2. rs \in Nat \ {0} /\ rp \in Nat \ {0} /\ s \in Nat \ {0}
    BY <1>1, Worth
  <2>3. P \in Nat \ {0} /\ B \in Nat \ {0}
    BY <1>1, <2>1, Scales
  <2> QED
    BY <2>2, <2>3
<1>3. pool = (s * P * rs) \div (B * rp) /\ pool > 0
  BY <1>1, Worth
<1>4. PICK K \in Nat, M \in Nat : K = P * rs /\ M = B * rp /\ K # 0 /\ M # 0
  BY <1>2
<1>5. pool = (s * K) \div M
  <2>1. s * P * rs = s * K
    BY <1>2, <1>4
  <2> QED
    BY <1>3, <1>4, <2>1
<1>6. (pool * M) \div K <= s /\ s - ((pool * M) \div K) <= (M \div K) + 1
  BY <1>2, <1>4, <1>5, ThereAndBack
<1>7. Route!stakeAmountForPool(pool, d, q.rates) = (pool * M) \div K
  <2>1. pool \in Nat
    <3>1. s * K \in Nat
      BY <1>2, <1>4
    <3> QED
      BY <1>4, <1>5, <3>1, Floor
  <2>2. pool * B * rp = pool * M
    BY <1>2, <1>4, <2>1
  <2>3. Route!stakeAmountForPool(pool, d, q.rates) = (pool * B * rp) \div (P * rs)
    BY <1>1, <1>3, Worth DEF Route!stakeAmountForPool
  <2> QED
    BY <1>4, <2>2, <2>3
<1>8. (B * rp) \div (P * rs) = M \div K
  BY <1>4
<1> QED
  BY <1>1, <1>6, <1>7, <1>8 DEF Route!RoundTripLoses

\* Two parts of a stake are credited no more than the whole, and no less but a unit.
LEMMA PartsGainNothing ==
  ASSUME NEW q, Priced(q), NEW more \in Nat \ {0}
  PROVE  Route!SplittingNeverGains(q, more)
PROOF
<1>1. PICK code \in Route!Asset, n \in Nat \ {0}, rates \in [stake : Nat, pool : Nat] :
        /\ q = Route!quoteStake(code, n, rates)
        /\ code = POOL_ASSET => rates.pool \in 1..MAX_PLAUSIBLE_RATE
  BY DEF Priced
<1> DEFINE Credit(m) == Route!quoteStake(code, m, q.rates).pool
           d == STAKE_ASSET_REGISTRY[code].decimals
<1>2. q.asset = code /\ q.stake = n
  BY <1>1 DEF Route!quoteStake
<1>3. q.pool = Credit(n)
  BY <1>1 DEF Route!quoteStake
<1>4. Credit(n) + Credit(more) <= Credit(n + more) /\ Credit(n + more) <= Credit(n) + Credit(more) + 1
  <2>1. CASE ~ Route!assertRegistryDecimals(code)
    BY <2>1 DEF Route!quoteStake, Route!Refused
  <2>2. CASE Route!assertRegistryDecimals(code) /\ code = POOL_ASSET
    BY <2>2 DEF Route!quoteStake
  <2>3. CASE Route!assertRegistryDecimals(code) /\ code # POOL_ASSET
    <3>1. q.rates = rates
      BY <1>1, <2>3 DEF Route!quoteStake
    <3>2. \A m : Credit(m) = Route!poolAmountFor(m, d, rates)
      BY <2>3, <3>1 DEF Route!quoteStake
    <3>3. CASE Route!plausible(d) /\ Route!assertRate(rates.stake) /\ Route!assertRate(rates.pool)
      <4>1. PICK P \in Nat, B \in Nat, r \in Nat, p \in Nat :
              /\ P = Scale[POOL_DECIMALS] /\ B = Scale[d] /\ B # 0
              /\ r = rates.stake /\ p = rates.pool /\ p # 0
        BY <3>3, Scales DEF Route!plausible, Route!assertRate
      <4>2. PICK a \in Nat, b \in Nat, M \in Nat :
              a = n * P * r /\ b = more * P * r /\ M = B * p /\ M # 0 /\ (n + more) * P * r = a + b
        BY <4>1
      <4>3. \A m \in Nat \ {0} : Credit(m) = (m * P * r) \div M
        BY <3>2, <3>3, <4>1, <4>2 DEF Route!poolAmountFor
      <4>4. Credit(n) = a \div M /\ Credit(more) = b \div M /\ Credit(n + more) = (a + b) \div M
        BY <4>2, <4>3
      <4>5. PICK x, y, z : x = Credit(n) /\ y = Credit(more) /\ z = Credit(n + more)
        OBVIOUS
      <4>6. x = a \div M /\ y = b \div M /\ z = (a + b) \div M
        BY <4>4, <4>5
      <4>7. x + y <= z /\ z <= x + y + 1
        BY <4>2, <4>6, FloorsAdd
      <4> QED
        BY <4>5, <4>7
    <3>4. CASE ~ (Route!plausible(d) /\ Route!assertRate(rates.stake) /\ Route!assertRate(rates.pool))
      <4>1. \A m : Credit(m) = 0
        BY <3>2, <3>4 DEF Route!poolAmountFor, Route!Refused
      <4> QED
        BY <4>1
    <3> QED
      BY <3>3, <3>4
  <2> QED
    BY <2>1, <2>2, <2>3
<1> QED
  BY <1>2, <1>3, <1>4 DEF Route!SplittingNeverGains

\* An attempt that is being priced is for an asset of the registry, at no rates or those
\* it has read.
PricedAt(a) ==
  /\ at[a] \in {"stakeLeg", "poolLeg", "accept"} => body[a].asset \in Route!Asset
  /\ at[a] = "policy" /\ body[a].route # "intent" => body[a].asset \in Route!Asset
  /\ at[a] = "poolLeg" => body[a].asset # POOL_ASSET
  /\ at[a] = "accept" /\ body[a].asset = POOL_ASSET => read[a].rates = [stake |-> 1, pool |-> 1]

\* Rows are priced, and the attempts that may write one will price it so.
RowsPriced ==
  /\ body \in [Attempt -> Bodies]
  /\ \A a \in Attempt : PricedAt(a)
  /\ \A s \in stakes : Priced(s.quote)

\* A row that is written is priced.
LEMMA AcceptedIsPriced ==
  ASSUME RouteIInv, RowsPriced, NEW a \in Attempt, at[a] = "accept", Route!quoteOf(a).pool > 0
  PROVE  Priced(Route!quoteOf(a))
PROOF
<1>1. PICK code, n, rates : code = body[a].asset /\ n = body[a].amount /\ rates = read[a].rates
  OBVIOUS
<1>2. code \in Route!Asset /\ n \in Int /\ (code = POOL_ASSET => rates = [stake |-> 1, pool |-> 1])
  BY <1>1, ServiceAssumption
  DEF RowsPriced, PricedAt, ServiceAssumption, Route!RouteAssumption
<1>3. rates \in [stake : Nat, pool : Nat]
  <2>1. rates \in [stake : RateOf \cup {0, 1}, pool : RateOf \cup {0, 1}]
    BY <1>1 DEF RouteIInv, RouteTyped, Rates
  <2>2. RateOf \cup {0, 1} \subseteq Nat
    BY ServiceAssumption DEF ServiceAssumption, Route!RouteAssumption
  <2> QED
    BY <2>1, <2>2
<1>4. Route!quoteOf(a) = Route!quoteStake(code, n, rates)
  BY <1>1 DEF Route!quoteOf
<1>5. n > 0
  BY <1>2, <1>4 DEF Route!quoteStake, Route!poolAmountFor, Route!Refused
<1>6. code = POOL_ASSET => rates.pool \in 1..MAX_PLAUSIBLE_RATE
  BY <1>2, Scales
<1> QED
  BY <1>2, <1>3, <1>4, <1>5, <1>6 DEF Priced

\* Nobody has been priced.
LEMMA RowsPricedInit == Route!Init => RowsPriced
PROOF
  BY DEF Route!Init, RowsPriced, PricedAt

\* Every step of the routes prices as it should.
LEMMA RowsPricedKeeps ==
  RouteIInv /\ RowsPriced /\ [Route!Next]_(Route!vars) => RowsPriced'
PROOF
<1> SUFFICES ASSUME RouteIInv, RowsPriced, [Route!Next]_(Route!vars)
             PROVE  RowsPriced'
  OBVIOUS
<1>1. ASSUME body' = body, at' = at, read' = read, stakes' = stakes
      PROVE  RowsPriced'
  BY <1>1 DEF RowsPriced, PricedAt
<1>2. /\ at \in [Attempt -> RouteSteps]
      /\ read \in [Attempt -> [rates : Rates, row : 0..made]]
  BY DEF RouteIInv, RouteTyped
<1>3. ASSUME NEW a \in Attempt, body' = body,
             \A b \in Attempt : b # a => at'[b] = at[b] /\ read'[b] = read[b],
             PricedAt(a)', \A s \in stakes' : Priced(s.quote)
      PROVE  RowsPriced'
  <2>1. \A b \in Attempt : PricedAt(b)'
    BY <1>3 DEF RowsPriced, PricedAt
  <2> QED
    BY <1>3, <2>1 DEF RowsPriced
<1>4. ASSUME NEW a \in Attempt, NEW step, body' = body, stakes' = stakes,
             at' = [at EXCEPT ![a] = step],
             \A b \in Attempt : b # a => read'[b] = read[b],
             PricedAt(a)'
      PROVE  RowsPriced'
  BY <1>2, <1>3, <1>4 DEF RowsPriced
<1>5. ASSUME NEW a \in Attempt, NEW status, NEW told, body' = body, Route!reply(a, status, told),
             \A s \in stakes' : Priced(s.quote)
      PROVE  RowsPriced'
  <2>1. at'[a] = "answered" /\ \A b \in Attempt : b # a => at'[b] = at[b] /\ read'[b] = read[b]
    BY <1>2, <1>5 DEF Route!reply
  <2>2. PricedAt(a)'
    BY <2>1 DEF PricedAt
  <2> QED
    BY <1>3, <1>5, <2>1, <2>2
<1>6. ASSUME NEW a \in Attempt, NEW err, body' = body, stakes' = stakes, Route!refuse(a, err)
      PROVE  RowsPriced'
  BY <1>5, <1>6 DEF Route!refuse, RowsPriced
<1>7. ASSUME NEW a \in Attempt, NEW step, body' = body, stakes' = stakes, Route!goto(a, step),
             PricedAt(a)'
      PROVE  RowsPriced'
  BY <1>4, <1>7 DEF Route!goto
<1>8. ASSUME NEW a \in Attempt, NEW step, body' = body, stakes' = stakes, Route!goto(a, step),
             step \notin {"stakeLeg", "poolLeg", "accept", "policy"}
      PROVE  RowsPriced'
  <2>1. at'[a] = step
    BY <1>2, <1>8 DEF Route!goto
  <2>2. PricedAt(a)'
    BY <1>8, <2>1 DEF PricedAt
  <2> QED
    BY <1>7, <1>8, <2>2
<1>9. ASSUME NEW a \in Attempt, Route!attempt(a)
      PROVE  RowsPriced'
  <2>1. CASE Route!authenticate(a)
    BY <1>6, <1>8, <2>1 DEF Route!authenticate, Route!world, Route!rows
  <2>2. CASE Route!replay(a)
    BY <1>5, <1>8, <2>2 DEF Route!replay, Route!world, Route!rows, RowsPriced
  <2>3. CASE Route!findMarket(a)
    <3>1. ASSUME Route!goto(a, "policy"), body[a].route = "intent", body' = body
          PROVE  PricedAt(a)'
      BY <1>2, <3>1 DEF Route!goto, PricedAt
    <3> QED
      BY <1>6, <1>7, <1>8, <2>3, <3>1 DEF Route!findMarket, Route!world, Route!rows
  <2>4. CASE Route!findStakeAsset(a)
    <3>1. ASSUME NEW step \in {"stakeLeg", "policy"}, Route!goto(a, step),
                 body[a].asset \in Route!Asset, body' = body
          PROVE  PricedAt(a)'
      BY <1>2, <3>1 DEF Route!goto, PricedAt
    <3> QED
      BY <1>6, <1>7, <2>4, <3>1 DEF Route!findStakeAsset, Route!world, Route!rows
  <2>5. CASE Route!evaluateStake(a)
    <3>1. ASSUME Route!goto(a, "stakeLeg"), body[a].route # "intent", body' = body
          PROVE  PricedAt(a)'
      BY <1>2, <2>5, <3>1 DEF Route!goto, PricedAt, RowsPriced, Route!evaluateStake
    <3>2. stakes' = stakes /\ body' = body
      BY <2>5 DEF Route!evaluateStake, Route!world, Route!rows
    <3> QED
      BY <1>5, <1>6, <1>7, <2>5, <3>1, <3>2 DEF Route!evaluateStake, RowsPriced
  <2>6. CASE Route!stakeRates(a)
    <3>1. stakes' = stakes /\ body' = body /\ at[a] = "stakeLeg" /\ body[a].asset \in Route!Asset
      BY <2>6 DEF Route!stakeRates, Route!world, Route!rows, RowsPriced, PricedAt
    <3>2. ASSUME NEW r, NEW step, NEW rates, Route!withRate(a, r, step, rates), r # 0,
                 \/ step = "poolLeg" /\ body[a].asset # POOL_ASSET
                 \/ step = "accept" /\ rates = [stake |-> 1, pool |-> 1]
          PROVE  RowsPriced'
      <4>1. at' = [at EXCEPT ![a] = step] /\ read' = [read EXCEPT ![a].rates = rates]
        BY <3>2 DEF Route!withRate
      <4>2. at'[a] = step /\ read'[a].rates = rates /\ \A b \in Attempt : b # a => read'[b] = read[b]
        BY <1>2, <4>1
      <4>3. PricedAt(a)'
        BY <3>1, <3>2, <4>2 DEF PricedAt
      <4> QED
        BY <1>4, <3>1, <4>1, <4>2, <4>3
    <3>3. ASSUME NEW step, NEW rates, Route!withRate(a, 0, step, rates)
          PROVE  RowsPriced'
      BY <1>6, <3>1, <3>3 DEF Route!withRate
    <3>4. CASE body[a].asset = POOL_ASSET
      BY <2>6, <3>2, <3>4 DEF Route!stakeRates
    <3>5. CASE body[a].asset # POOL_ASSET
      <4>1. PICK r, rates : Route!withRate(a, r, "poolLeg", rates)
        BY <2>6, <3>5 DEF Route!stakeRates
      <4>2. CASE r = 0
        BY <3>3, <4>1, <4>2
      <4>3. CASE r # 0
        BY <3>2, <3>5, <4>1, <4>3
      <4> QED
        BY <4>2, <4>3
    <3> QED
      BY <3>4, <3>5
  <2>7. CASE Route!poolLeg(a)
    <3>1. /\ stakes' = stakes /\ body' = body
          /\ body[a].asset \in Route!Asset /\ body[a].asset # POOL_ASSET
      BY <2>7 DEF Route!poolLeg, Route!world, Route!rows, RowsPriced, PricedAt
    <3>2. PICK r, rates : Route!withRate(a, r, "accept", rates)
      BY <2>7 DEF Route!poolLeg
    <3>3. CASE r = 0
      BY <1>6, <3>1, <3>2, <3>3 DEF Route!withRate
    <3>4. CASE r # 0
      <4>1. at' = [at EXCEPT ![a] = "accept"] /\ read' = [read EXCEPT ![a].rates = rates]
        BY <3>2, <3>4 DEF Route!withRate
      <4>2. at'[a] = "accept" /\ \A b \in Attempt : b # a => read'[b] = read[b]
        BY <1>2, <4>1
      <4>3. PricedAt(a)'
        BY <3>1, <4>2 DEF PricedAt
      <4> QED
        BY <1>4, <3>1, <4>1, <4>2, <4>3
    <3> QED
      BY <3>3, <3>4
  <2>8. CASE Route!stakeQuote(a)
    BY <1>5, <1>6, <2>8 DEF Route!stakeQuote, Route!world, Route!rows, RowsPriced
  <2>9. CASE Route!acceptStake(a)
    <3>1. body' = body /\ at[a] = "accept"
      BY <2>9 DEF Route!acceptStake, Route!world
    <3>2. ASSUME NEW err, Route!refuse(a, err), UNCHANGED Route!rows
          PROVE  RowsPriced'
      BY <1>6, <3>1, <3>2 DEF Route!rows
    <3>3. CASE /\ Route!admitted(a)
               /\ stakes' = stakes \cup {[id |-> made', key |-> Route!key(a), by |-> a,
                                          quote |-> Route!quoteOf(a), booked |-> FALSE]}
               /\ at' = [at EXCEPT ![a] = "post"]
               /\ read' = [read EXCEPT ![a].row = made']
      <4>1. Priced(Route!quoteOf(a))
        BY <3>1, <3>3, AcceptedIsPriced DEF Route!admitted
      <4>2. \A s \in stakes' : Priced(s.quote)
        BY <3>3, <4>1 DEF RowsPriced
      <4>3. at'[a] = "post" /\ \A b \in Attempt : b # a => at'[b] = at[b] /\ read'[b] = read[b]
        BY <1>2, <3>3
      <4>4. PricedAt(a)'
        BY <4>3 DEF PricedAt
      <4> QED
        BY <1>3, <3>1, <4>2, <4>3, <4>4
    <3> QED
      BY <2>9, <3>2, <3>3 DEF Route!acceptStake
  <2>10. CASE Route!postEntry(a)
    BY <1>6, <1>8, <2>10 DEF Route!postEntry, Route!world, Route!rows
  <2>11. CASE Route!postLate(a)
    BY <1>1, <2>11 DEF Route!postLate, Route!world, Route!rows, Route!progress
  <2>12. CASE Route!deleteRefused(a)
    BY <1>5, <2>12 DEF Route!deleteRefused, Route!refuse, Route!world, RowsPriced
  <2>13. CASE Route!recordEscrowEntry(a)
    <3>1. Route!rowOf(a) \in stakes
      BY <2>13, RowOf DEF Route!recordEscrowEntry, Working
    <3>2. PICK s, t : s \in stakes /\ s = Route!rowOf(a) /\ t = [s EXCEPT !.booked = TRUE]
      BY <3>1
    <3>3. s = [id |-> s.id, key |-> s.key, by |-> s.by, quote |-> s.quote, booked |-> s.booked]
      BY <3>2 DEF RouteIInv, RowsTyped, RowFields
    <3>4. t.quote = s.quote
      BY <3>2, <3>3
    <3>5. stakes' = (stakes \ {s}) \cup {t} /\ body' = body /\ Route!reply(a, 201, read[a].row)
      BY <2>13, <3>2 DEF Route!recordEscrowEntry, Route!world
    <3>6. \A r \in stakes' : Priced(r.quote)
      BY <3>2, <3>4, <3>5 DEF RowsPriced
    <3> QED
      BY <1>5, <3>5, <3>6
  <2>14. CASE Route!crash(a)
    BY <1>8, <2>14 DEF Route!crash, Route!world, Route!rows
  <2> QED
    BY <1>9, <2>1, <2>2, <2>3, <2>4, <2>5, <2>6, <2>7, <2>8, <2>9, <2>10, <2>11, <2>12, <2>13, <2>14
    DEF Route!attempt
<1>10. ASSUME NEW m, Route!closeMarket(m)
       PROVE  RowsPriced'
  BY <1>1, <1>10 DEF Route!closeMarket, Route!rows, Route!progress
<1>11. ASSUME NEW code, Route!disable(code)
       PROVE  RowsPriced'
  BY <1>1, <1>11 DEF Route!disable, Route!rows, Route!progress
<1>12. CASE UNCHANGED Route!vars
  BY <1>1, <1>12 DEF Route!vars, Route!world, Route!rows, Route!progress
<1> QED
  BY <1>9, <1>10, <1>11, <1>12 DEF Route!Next

\* A book is numbers, and a quote that was asked for is priced.
MoneySound ==
  /\ amount \in Seq(1..MaxAmount)
  /\ quote = NoQuote \/ Priced(quote)

\* Books grow by amounts, and quotes are priced.
LEMMA MoneySoundKeeps == MoneySound /\ [Next]_vars => MoneySound'
PROOF
<1> SUFFICES ASSUME MoneySound, [Next]_vars
             PROVE  MoneySound'
  OBVIOUS
<1>1. CASE UNCHANGED moneyVars
  BY <1>1 DEF MoneySound, moneyVars
<1>2. ASSUME NEW n \in 1..MaxAmount, NEW o, take(n, o)
      PROVE  MoneySound'
  BY <1>2 DEF MoneySound, take
<1>3. ASSUME NEW code \in DOMAIN STAKE_ASSET_REGISTRY, NEW n \in 1..3*MaxAmount,
             NEW rates \in [stake : 1..MAX_PLAUSIBLE_RATE, pool : 1..MAX_PLAUSIBLE_RATE],
             price(code, n, rates)
      PROVE  MoneySound'
  <2>1. code \in Route!Asset
    BY DEF Route!Asset
  <2>2. n \in Nat \ {0}
    BY ServiceAssumption DEF ServiceAssumption
  <2>3. rates \in [stake : Nat, pool : Nat] /\ rates.pool \in 1..MAX_PLAUSIBLE_RATE
    BY Scales
  <2>4. Priced(quote')
    BY <1>3, <2>1, <2>2, <2>3 DEF price, Priced
  <2> QED
    BY <1>3, <2>4 DEF MoneySound, price
<1>4. CASE Money
  BY <1>2, <1>3, <1>4 DEF Money
<1> QED
  BY <1>1, <1>4 DEF Next, vars

\* splitPayouts and quoteStake: whatever is in the book, whoever won, and whatever is asked
\* to be priced or has been accepted, neither rounding makes money.
THEOREM RoundingMakesNone == Spec => []NoMoneyIsMade
PROOF
<1>1. Init => RouteIInv /\ RowsPriced /\ MoneySound
  <2>1. Init => MoneySound
    BY DEF Init, MoneySound
  <2> QED
    BY <2>1, RouteInitially, RowsPricedInit DEF Init
<1>2. RouteIInv /\ RowsPriced /\ MoneySound /\ [Next]_vars => (RouteIInv /\ RowsPriced /\ MoneySound)'
  BY RouteStepKeeps, RowsPricedKeeps, MoneySoundKeeps, StepOfRoute
<1>3. RowsPriced /\ MoneySound => NoMoneyIsMade
  <2> SUFFICES ASSUME RowsPriced, MoneySound
               PROVE  NoMoneyIsMade
    OBVIOUS
  <2>1. ASSUME NEW w \in 0..1
        PROVE  ExactSplit(S, amount, outcome, w) /\ FairSplit(S, amount, outcome, w)
    <3>1. PICK T : T = S /\ T = 1..Len(amount) /\ Len(amount) \in Nat
      BY DEF MoneySound, S
    <3>2. T \in SUBSET Int /\ IsFiniteSet(T)
      BY <3>1, FS_Interval
    <3>3. \A s \in T : amount[s] \in Nat
      BY <3>1, ServiceAssumption DEF MoneySound, ServiceAssumption
    <3> QED
      BY <3>1, <3>2, <3>3, SplitIsExact, SplitIsFair
  <2>2. ASSUME NEW q \in ({s.quote : s \in stakes} \cup {quote}) \ {NoQuote}
        PROVE  Route!RoundTripLoses(q) /\ \A more \in 1..MaxAmount : Route!SplittingNeverGains(q, more)
    <3>1. Priced(q)
      BY DEF RowsPriced, MoneySound
    <3>2. \A more \in 1..MaxAmount : more \in Nat \ {0}
      BY ServiceAssumption DEF ServiceAssumption
    <3> QED
      BY <3>1, <3>2, NoneIsGained, PartsGainNothing
  <2> QED
    BY <2>1, <2>2 DEF NoMoneyIsMade
<1> QED
  BY <1>1, <1>2, <1>3, PTL DEF Spec

------------------------------------------------------------------------------
(* withIdempotency around the deploy route.                                *)

KeysSteps == {"idle", "claim", "run", "respond", "answered"}
working(r) == deploy[r].step \in {"run", "respond"}
Requests == [step : KeysSteps, key : Key \cup {"none"}, market : DeployMarket \cup {"none"}]
Answers == [status : {0, 202, 409, 500}, told : DeployMarket \cup {"none", "reuse"}]

responding(k) == \E r \in Request : Keys!key(r) = k /\ deploy[r].step = "respond"
done(k) == Keys!rowOf(k) # {} \/ responding(k)

KeysTyped ==
  /\ deployStatus \in [DeployMarket -> {"approved", "open"}] /\ queue \subseteq DeployMarket
  /\ \A row \in keys : row.key \in Key /\ row.told \in DeployMarket
  /\ deploy \in [Request -> Requests]
  /\ \A r \in Request : deploy[r].step # "idle" =>
       deploy[r].key \in Key /\ deploy[r].market \in DeployMarket
  /\ runs \in [Key -> Nat] /\ lost \in [Key -> Nat]
  /\ deployAnswer \in [Request -> Answers]

\* At most one request works on a key.
Exclusive ==
  \A r, s \in Request : working(r) /\ working(s) /\ Keys!key(r) = Keys!key(s) => r = s

\* It has found no row of the key, and there is none until it writes it.
Unrecorded == \A r \in Request : working(r) => Keys!rowOf(Keys!key(r)) = {}

\* What was done and not lost is in the row, or about to be.
Counted == \A k \in Key : runs[k] = lost[k] + IF done(k) THEN 1 ELSE 0

\* A row is the response to a request that asked for what its hash says.
Recorded ==
  \A row \in keys :
    /\ row.hash = <<row.told>>
    /\ \E s \in Request : /\ deploy[s].step = "answered"
                          /\ Keys!key(s) = row.key /\ deploy[s].market = row.told

\* What a request was told, as far as it was told anything.
AnswerTrue(r) ==
  /\ deployAnswer[r] # Keys!NoAnswer => deploy[r].step = "answered"
  /\ deployAnswer[r].status = 202 =>
       deployAnswer[r].told = deploy[r].market /\ Keys!rowOf(Keys!key(r)) # {}
  /\ deployAnswer[r] = Keys!Reused =>
       \E s \in Request : /\ deploy[s].step = "answered"
                          /\ Keys!key(s) = Keys!key(r) /\ deploy[s].market # deploy[r].market

Answered == \A r \in Request : AnswerTrue(r)

KeysIInv == KeysTyped /\ Exclusive /\ Unrecorded /\ Counted /\ Recorded /\ Answered

------------------------------------------------------------------------------
(* What a step does to the requests.                                       *)

\* goto moves one request on, and leaves what each asks for as it was.
LEMMA GotoMoves ==
  ASSUME KeysTyped, NEW r \in Request, deploy[r].step # "idle",
         NEW step \in KeysSteps \ {"idle"}, Keys!goto(r, step)
  PROVE  /\ deploy' \in [Request -> Requests]
         /\ \A s \in Request : /\ deploy'[s].key = deploy[s].key
                               /\ deploy'[s].market = deploy[s].market
                               /\ s # r => deploy'[s].step = deploy[s].step
         /\ deploy'[r].step = step
PROOF
  BY DEF KeysTyped, Requests, Answers, Keys!goto, KeysSteps

\* reply gives one request its answer.
LEMMA ReplyAnswers ==
  ASSUME KeysTyped, NEW r \in Request, NEW code \in {0, 202, 409, 500},
         NEW told \in DeployMarket \cup {"none", "reuse"}, Keys!reply(r, code, told)
  PROVE  /\ deployAnswer' \in [Request -> Answers]
         /\ \A s \in Request : s # r => deployAnswer'[s] = deployAnswer[s]
         /\ deployAnswer'[r] = [status |-> code, told |-> told]
PROOF
  BY DEF KeysTyped, Requests, Answers, Keys!reply

\* What the others were told stays true while rows and requests only move on.
LEMMA AnswersStand ==
  ASSUME Answered, NEW r \in Request, deploy[r].step # "answered",
         \A s \in Request : /\ deploy'[s].key = deploy[s].key
                            /\ deploy'[s].market = deploy[s].market
                            /\ s # r => deploy'[s].step = deploy[s].step,
         \A j : Keys!rowOf(j) # {} => Keys!rowOf(j)' # {},
         NEW s \in Request, s # r, deployAnswer'[s] = deployAnswer[s]
  PROVE  AnswerTrue(s)'
PROOF
<1>1. AnswerTrue(s)
  BY DEF Answered
<1>2. deployAnswer'[s] # Keys!NoAnswer => deploy'[s].step = "answered"
  BY <1>1 DEF AnswerTrue
<1>3. deployAnswer'[s].status = 202 =>
        deployAnswer'[s].told = deploy'[s].market /\ Keys!rowOf(deploy[s].key)' # {}
  BY <1>1 DEF AnswerTrue, Keys!key
<1>4. ASSUME deployAnswer'[s] = Keys!Reused
      PROVE  \E q \in Request : /\ deploy'[q].step = "answered"
                                /\ deploy'[q].key = deploy'[s].key
                                /\ deploy'[q].market # deploy'[s].market
  <2>1. PICK q \in Request : /\ deploy[q].step = "answered"
                            /\ deploy[q].key = deploy[s].key
                            /\ deploy[q].market # deploy[s].market
    BY <1>1, <1>4 DEF AnswerTrue, Keys!key
  <2> QED
    BY <2>1
<1> QED
  BY <1>2, <1>3, <1>4 DEF AnswerTrue, Keys!rowOf, Keys!key

\* A step of a request that leaves its key alone matters to no other key.
LEMMA OthersRespond ==
  ASSUME NEW r \in Request, NEW k, k # Keys!key(r),
         \A s \in Request : /\ deploy'[s].key = deploy[s].key
                            /\ s # r => deploy'[s].step = deploy[s].step
  PROVE  responding(k)' <=> responding(k)
PROOF
  BY DEF responding, Keys!key

------------------------------------------------------------------------------
(* Every action keeps the invariant.                                       *)

\* A request arrives: it asks for what its step says, and has no answer but a refusal.
LEMMA findMarketStep ==
  ASSUME KeysIInv, NEW r \in Request, Keys!findMarket(r)
  PROVE  KeysIInv'
PROOF
<1>1. PICK k \in Key, m \in DeployMarket, step \in {"claim", "answered"} :
        /\ deploy[r].step = "idle"
        /\ deploy' = [deploy EXCEPT ![r] = [step |-> step, key |-> k, market |-> m]]
        /\ \/ deployAnswer' = deployAnswer
           \/ step = "answered" /\ Keys!reply(r, 409, "none")
  BY DEF Keys!findMarket
<1>2. UNCHANGED <<deployStatus, keys, queue, runs, lost>>
  BY DEF Keys!findMarket
<1>3. \A s \in Request : s # r => deploy'[s] = deploy[s]
  BY <1>1 DEF KeysIInv, KeysTyped, Requests, Answers
<1>4. deploy'[r] = [step |-> step, key |-> k, market |-> m]
  BY <1>1 DEF KeysIInv, KeysTyped, Requests, Answers
<1>5. /\ deployAnswer' \in [Request -> Answers]
      /\ \A s \in Request : s # r => deployAnswer'[s] = deployAnswer[s]
      /\ \/ deployAnswer'[r] = deployAnswer[r]
         \/ step = "answered" /\ deployAnswer'[r] = [status |-> 409, told |-> "none"]
  <2>1. CASE deployAnswer' = deployAnswer
    BY <2>1 DEF KeysIInv, KeysTyped, Requests, Answers
  <2>2. CASE step = "answered" /\ Keys!reply(r, 409, "none")
    BY <2>2, ReplyAnswers DEF KeysIInv
  <2> QED
    BY <1>1, <2>1, <2>2
<1>6. KeysTyped'
  <2>1. deploy' \in [Request -> Requests]
    BY <1>1 DEF KeysIInv, KeysTyped, Requests, Answers, KeysSteps
  <2>2. \A s \in Request : deploy'[s].step # "idle" =>
          deploy'[s].key \in Key /\ deploy'[s].market \in DeployMarket
    BY <1>3, <1>4 DEF KeysIInv, KeysTyped
  <2> QED
    BY <1>2, <1>5, <2>1, <2>2 DEF KeysIInv, KeysTyped
<1>7. Exclusive' /\ Unrecorded'
  BY <1>2, <1>3, <1>4 DEF KeysIInv, Exclusive, Unrecorded, working, Keys!key, Keys!rowOf
<1>8. Counted'
  <2>1. \A j \in Key : responding(j)' <=> responding(j)
    BY <1>1, <1>3, <1>4 DEF responding, Keys!key
  <2> QED
    BY <1>2, <2>1 DEF KeysIInv, Counted, done, Keys!rowOf
<1>9. Recorded'
  BY <1>1, <1>2, <1>3 DEF KeysIInv, Recorded, Keys!key
<1>10. Answered'
  <2>1. deployAnswer[r] = Keys!NoAnswer
    BY <1>1 DEF KeysIInv, Answered, AnswerTrue
  <2> QED
    BY <1>1, <1>2, <1>3, <1>4, <1>5, <2>1
       DEF KeysIInv, Answered, AnswerTrue, Keys!key, Keys!rowOf, Keys!NoAnswer, Keys!Reused
<1> QED
  BY <1>6, <1>7, <1>8, <1>9, <1>10 DEF KeysIInv

\* A claim finds no row and nobody at work, or a row that answers it.
LEMMA claimStep ==
  ASSUME KeysIInv, NEW r \in Request, Keys!claim(r)
  PROVE  KeysIInv'
PROOF
<1>1. /\ deploy[r].step = "claim" /\ ~ Keys!claimed(Keys!key(r))
      /\ Keys!key(r) \in Key /\ deploy[r].market \in DeployMarket
      /\ UNCHANGED <<deployStatus, keys, queue, runs, lost>>
  BY DEF Keys!claim, KeysIInv, KeysTyped, Requests, Answers, Keys!key
<1>2. CASE Keys!rowOf(Keys!key(r)) = {} /\ Keys!goto(r, "run") /\ deployAnswer' = deployAnswer
  <2>1. /\ deploy' \in [Request -> Requests]
        /\ \A s \in Request : /\ deploy'[s].key = deploy[s].key
                              /\ deploy'[s].market = deploy[s].market
                              /\ s # r => deploy'[s].step = deploy[s].step
        /\ deploy'[r].step = "run"
    BY <1>1, <1>2, GotoMoves DEF KeysIInv, KeysSteps
  <2>2. KeysTyped'
    <3>1. \A s \in Request : deploy'[s].step # "idle" =>
            deploy'[s].key \in Key /\ deploy'[s].market \in DeployMarket
      BY <1>1, <2>1 DEF KeysIInv, KeysTyped, Keys!key
    <3> QED
      BY <1>1, <1>2, <2>1, <3>1 DEF KeysIInv, KeysTyped
  <2>3. Exclusive'
    BY <1>1, <2>1 DEF KeysIInv, Exclusive, working, Keys!claimed, Keys!key
  <2>4. Unrecorded'
    BY <1>1, <1>2, <2>1 DEF KeysIInv, Unrecorded, working, Keys!rowOf, Keys!key
  <2>5. Counted'
    <3>1. \A j \in Key : responding(j)' <=> responding(j)
      BY <1>1, <2>1 DEF responding, Keys!key
    <3> QED
      BY <1>1, <3>1 DEF KeysIInv, Counted, done, Keys!rowOf
  <2>6. Recorded'
    BY <1>1, <2>1 DEF KeysIInv, Recorded, Keys!key
  <2>7. Answered'
    <3>1. deployAnswer[r] = Keys!NoAnswer
      BY <1>1 DEF KeysIInv, Answered, AnswerTrue
    <3>2. \A s \in Request \ {r} : AnswerTrue(s)'
      BY <1>1, <1>2, <2>1, AnswersStand DEF KeysIInv, Keys!rowOf
    <3>3. AnswerTrue(r)'
      BY <1>2, <3>1 DEF AnswerTrue, Keys!NoAnswer, Keys!Reused
    <3> QED
      BY <3>2, <3>3 DEF Answered
  <2> QED
    BY <2>2, <2>3, <2>4, <2>5, <2>6, <2>7 DEF KeysIInv
<1>3. CASE \E row \in Keys!rowOf(Keys!key(r)) :
             /\ Keys!goto(r, "answered")
             /\ IF row.hash = Keys!requestFingerprint(r) THEN Keys!reply(r, 202, row.told)
                ELSE Keys!reply(r, 409, "reuse")
  <2>1. PICK row \in Keys!rowOf(Keys!key(r)) :
             /\ Keys!goto(r, "answered")
             /\ IF row.hash = Keys!requestFingerprint(r) THEN Keys!reply(r, 202, row.told)
                ELSE Keys!reply(r, 409, "reuse")
    BY <1>3
  <2>2. /\ deploy' \in [Request -> Requests]
        /\ \A s \in Request : /\ deploy'[s].key = deploy[s].key
                              /\ deploy'[s].market = deploy[s].market
                              /\ s # r => deploy'[s].step = deploy[s].step
        /\ deploy'[r].step = "answered"
    BY <1>1, <2>1, GotoMoves DEF KeysIInv, KeysSteps
  <2>3. /\ row \in keys /\ row.key = Keys!key(r)
        /\ row.told \in DeployMarket /\ row.hash = <<row.told>>
        /\ \E s \in Request : /\ deploy[s].step = "answered"
                              /\ Keys!key(s) = Keys!key(r) /\ deploy[s].market = row.told
    BY <2>1 DEF KeysIInv, KeysTyped, Requests, Answers, Recorded, Keys!rowOf
  <2>4. /\ deployAnswer' \in [Request -> Answers]
        /\ \A s \in Request : s # r => deployAnswer'[s] = deployAnswer[s]
        /\ \/ deployAnswer'[r] = [status |-> 202, told |-> row.told] /\ row.told = deploy[r].market
           \/ deployAnswer'[r] = Keys!Reused /\ row.told # deploy[r].market
    <3>1. CASE row.hash = Keys!requestFingerprint(r)
      BY <2>1, <2>3, <3>1, ReplyAnswers DEF KeysIInv, Keys!requestFingerprint
    <3>2. CASE row.hash # Keys!requestFingerprint(r)
      BY <2>1, <2>3, <3>2, ReplyAnswers DEF KeysIInv, Keys!requestFingerprint, Keys!Reused
    <3> QED
      BY <3>1, <3>2
  <2>5. KeysTyped'
    <3>1. \A s \in Request : deploy'[s].step # "idle" =>
            deploy'[s].key \in Key /\ deploy'[s].market \in DeployMarket
      BY <1>1, <2>1, <2>2 DEF KeysIInv, KeysTyped
    <3> QED
      BY <1>1, <2>2, <2>4, <3>1 DEF KeysIInv, KeysTyped
  <2>6. Exclusive' /\ Unrecorded'
    BY <1>1, <2>2 DEF KeysIInv, Exclusive, Unrecorded, working, Keys!rowOf, Keys!key
  <2>7. Counted'
    <3>1. \A j \in Key : responding(j)' <=> responding(j)
      BY <1>1, <2>2 DEF responding, Keys!key
    <3> QED
      BY <1>1, <3>1 DEF KeysIInv, Counted, done, Keys!rowOf
  <2>8. Recorded'
    BY <1>1, <2>2 DEF KeysIInv, Recorded, Keys!key
  <2>9. Answered'
    <3>1. \A s \in Request \ {r} : AnswerTrue(s)'
      BY <1>1, <2>2, <2>4, AnswersStand DEF KeysIInv, Keys!rowOf
    <3>2. Keys!rowOf(Keys!key(r))' # {}
      BY <1>1, <2>2, <2>3 DEF Keys!key, Keys!rowOf
    <3>3. deployAnswer'[r] = Keys!Reused =>
            \E q \in Request : /\ deploy'[q].step = "answered"
                               /\ Keys!key(q)' = Keys!key(r)' /\ deploy'[q].market # deploy'[r].market
      BY <1>1, <2>2, <2>3, <2>4 DEF Keys!key, Keys!Reused
    <3> QED
      BY <2>2, <2>4, <3>1, <3>2, <3>3 DEF Answered, AnswerTrue, Keys!Reused
  <2> QED
    BY <2>5, <2>6, <2>7, <2>8, <2>9 DEF KeysIInv
<1> QED
  BY <1>2, <1>3 DEF Keys!claim

\* The work of a key is done by the one request that holds it, and not for the second time.
LEMMA runStep ==
  ASSUME KeysIInv, NEW r \in Request, Keys!run(r)
  PROVE  KeysIInv'
PROOF
<1>1. PICK k \in Key : k = Keys!key(r)
  BY DEF Keys!run, KeysIInv, KeysTyped, Requests, Answers, Keys!key
<1>2. /\ deploy[r].step = "run" /\ deploy[r].market \in DeployMarket
      /\ UNCHANGED <<deployStatus, keys, lost>>
  BY DEF Keys!run, KeysIInv, KeysTyped, Requests, Answers
\* It is the only request at work on its key, which has no row.
<1>3. /\ Keys!rowOf(k) = {}
      /\ \A s \in Request : s # r /\ working(s) => Keys!key(s) # k
      /\ ~ responding(k)
      /\ deployAnswer[r] = Keys!NoAnswer
  BY <1>1, <1>2 DEF KeysIInv, Unrecorded, Exclusive, Answered, AnswerTrue, working, responding
<1>4. PICK step \in {"respond", "answered"} :
        /\ Keys!goto(r, step)
        /\ \/ /\ step = "respond" /\ deployAnswer' = deployAnswer
              /\ queue' = queue \cup {deploy[r].market}
              /\ runs' = [runs EXCEPT ![k] = @ + 1]
           \/ step = "answered" /\ Keys!reply(r, 500, "none") /\ UNCHANGED <<queue, runs>>
  BY <1>1 DEF Keys!run
<1>5. /\ deploy' \in [Request -> Requests]
      /\ \A s \in Request : /\ deploy'[s].key = deploy[s].key
                            /\ deploy'[s].market = deploy[s].market
                            /\ s # r => deploy'[s].step = deploy[s].step
      /\ deploy'[r].step = step
  BY <1>2, <1>4, GotoMoves DEF KeysIInv, KeysSteps
<1>6. /\ deployAnswer' \in [Request -> Answers]
      /\ \A s \in Request : s # r => deployAnswer'[s] = deployAnswer[s]
      /\ \/ deployAnswer'[r] = Keys!NoAnswer
         \/ step = "answered" /\ deployAnswer'[r] = [status |-> 500, told |-> "none"]
  <2>1. CASE deployAnswer' = deployAnswer
    BY <1>3, <2>1 DEF KeysIInv, KeysTyped, Requests, Answers
  <2>2. CASE step = "answered" /\ Keys!reply(r, 500, "none")
    BY <2>2, ReplyAnswers DEF KeysIInv
  <2> QED
    BY <1>4, <2>1, <2>2
<1>7. KeysTyped'
  <2>1. queue' \subseteq DeployMarket
    BY <1>2, <1>4 DEF KeysIInv, KeysTyped
  <2>3. runs' \in [Key -> Nat]
    BY <1>4 DEF KeysIInv, KeysTyped
  <2>2. \A s \in Request : deploy'[s].step # "idle" =>
          deploy'[s].key \in Key /\ deploy'[s].market \in DeployMarket
    BY <1>2, <1>5 DEF KeysIInv, KeysTyped, Requests, Answers
  <2> QED
    BY <1>2, <1>5, <1>6, <2>1, <2>2, <2>3 DEF KeysIInv, KeysTyped
<1>8. Exclusive' /\ Unrecorded'
  BY <1>2, <1>3, <1>5 DEF KeysIInv, Exclusive, Unrecorded, working, Keys!rowOf, Keys!key
<1>9. Counted'
  <2>1. ASSUME NEW j \in Key, j # k
        PROVE  runs'[j] = lost'[j] + IF done(j)' THEN 1 ELSE 0
    <3>1. responding(j)' <=> responding(j)
      BY <1>1, <1>5, <2>1, OthersRespond
    <3>2. Keys!rowOf(j)' = Keys!rowOf(j)
      BY <1>2 DEF Keys!rowOf
    <3>3. runs'[j] = runs[j]
      BY <1>4, <2>1 DEF KeysIInv, KeysTyped, Requests, Answers
    <3> QED
      BY <1>2, <3>1, <3>2, <3>3 DEF KeysIInv, Counted, done
  <2>2. runs[k] = lost[k] /\ lost[k] \in Nat
    BY <1>3 DEF KeysIInv, KeysTyped, Requests, Answers, Counted, done
  <2>3. Keys!rowOf(k)' = {}
    BY <1>2, <1>3 DEF Keys!rowOf
  <2>4. CASE step = "respond"
    <3>1. responding(k)'
      BY <1>1, <1>5, <2>4 DEF responding, Keys!key
    <3>2. runs'[k] = lost'[k] + 1
      BY <1>2, <1>4, <2>2, <2>4 DEF KeysIInv, KeysTyped, Requests, Answers
    <3> QED
      BY <2>1, <3>1, <3>2 DEF Counted, done
  <2>5. CASE step = "answered"
    <3>1. ~ responding(k)'
      BY <1>3, <1>5, <2>5 DEF responding, working, Keys!key
    <3>2. runs'[k] = lost'[k] + 0
      BY <1>2, <1>4, <2>2, <2>5
    <3> QED
      BY <2>1, <2>3, <3>1, <3>2 DEF Counted, done
  <2> QED
    BY <2>4, <2>5
<1>10. Recorded'
  BY <1>2, <1>5 DEF KeysIInv, Recorded, Keys!key
<1>11. Answered'
  <2>1. \A s \in Request \ {r} : AnswerTrue(s)'
    BY <1>2, <1>5, <1>6, AnswersStand DEF KeysIInv, Keys!rowOf
  <2>2. AnswerTrue(r)'
    BY <1>5, <1>6 DEF AnswerTrue, Keys!NoAnswer, Keys!Reused
  <2> QED
    BY <2>1, <2>2 DEF Answered
<1> QED
  BY <1>7, <1>8, <1>9, <1>10, <1>11 DEF KeysIInv

\* The row takes the place of the request that did the work.
LEMMA respondStep ==
  ASSUME KeysIInv, NEW r \in Request, Keys!respond(r)
  PROVE  KeysIInv'
PROOF
<1>1. PICK k \in Key, m \in DeployMarket : k = Keys!key(r) /\ m = deploy[r].market
  BY DEF Keys!respond, KeysIInv, KeysTyped, Requests, Answers, Keys!key
<1>2. PICK new \in {[key |-> k, hash |-> <<m>>, told |-> m]} : keys' = keys \cup {new}
  BY <1>1 DEF Keys!respond, Keys!requestFingerprint
<1>3. new.key = k /\ new.told = m /\ new.hash = <<m>>
  BY <1>2
<1>4. /\ deploy[r].step = "respond" /\ working(r)
      /\ Keys!goto(r, "answered")
      /\ Keys!reply(r, 202, m) \/ deployAnswer' = deployAnswer
      /\ UNCHANGED <<deployStatus, queue, runs, lost>>
  BY <1>1 DEF Keys!respond, working
<1>5. /\ responding(k)
      /\ \A s \in Request : s # r /\ working(s) => Keys!key(s) # k
      /\ deployAnswer[r] = Keys!NoAnswer
  BY <1>1, <1>4 DEF KeysIInv, Exclusive, Answered, AnswerTrue, responding
<1>6. /\ deploy' \in [Request -> Requests]
      /\ \A s \in Request : /\ deploy'[s].key = deploy[s].key
                            /\ deploy'[s].market = deploy[s].market
                            /\ s # r => deploy'[s].step = deploy[s].step
      /\ deploy'[r].step = "answered"
  BY <1>4, GotoMoves DEF KeysIInv, KeysSteps
<1>7. /\ deployAnswer' \in [Request -> Answers]
      /\ \A s \in Request : s # r => deployAnswer'[s] = deployAnswer[s]
      /\ deployAnswer'[r] = Keys!NoAnswer \/ deployAnswer'[r] = [status |-> 202, told |-> m]
  <2>1. CASE deployAnswer' = deployAnswer
    BY <1>5, <2>1 DEF KeysIInv, KeysTyped, Requests, Answers
  <2>2. CASE Keys!reply(r, 202, m)
    BY <2>2, ReplyAnswers DEF KeysIInv
  <2> QED
    BY <1>4, <2>1, <2>2
<1>8. /\ new \in Keys!rowOf(k)'
      /\ \A j : j # k => Keys!rowOf(j)' = Keys!rowOf(j)
      /\ \A j : Keys!rowOf(j) # {} => Keys!rowOf(j)' # {}
  BY <1>2, <1>3 DEF Keys!rowOf
<1>9. KeysTyped'
  <2>1. \A row \in keys' : row.key \in Key /\ row.told \in DeployMarket
    BY <1>2, <1>3 DEF KeysIInv, KeysTyped, Requests, Answers
  <2>2. \A s \in Request : deploy'[s].step # "idle" =>
          deploy'[s].key \in Key /\ deploy'[s].market \in DeployMarket
    BY <1>4, <1>6, SMTT(30) DEF KeysIInv, KeysTyped, Requests, Answers
  <2> QED
    BY <1>4, <1>6, <1>7, <2>1, <2>2 DEF KeysIInv, KeysTyped, Requests, Answers
<1>10. Exclusive'
  BY <1>4, <1>6 DEF KeysIInv, Exclusive, working, Keys!key
<1>11. Unrecorded'
  <2>1. ASSUME NEW s \in Request, working(s)'
        PROVE  Keys!rowOf(Keys!key(s))' = {}
    <3>1. s # r /\ working(s) /\ deploy'[s].key = deploy[s].key
      BY <1>6, <2>1 DEF working
    <3>2. deploy[s].key # k /\ Keys!rowOf(deploy[s].key) = {}
      BY <1>5, <3>1 DEF KeysIInv, Unrecorded, Keys!key
    <3> QED
      BY <1>2, <1>3, <3>1, <3>2 DEF Keys!rowOf, Keys!key
  <2> QED
    BY <2>1 DEF Unrecorded
<1>12. Counted'
  <2>1. ASSUME NEW j \in Key
        PROVE  done(j)' <=> done(j)
    <3>1. CASE j = k
      BY <1>5, <1>8, <3>1 DEF done
    <3>2. CASE j # k
      <4>1. responding(j)' <=> responding(j)
        BY <1>1, <1>6, <3>2, OthersRespond
      <4> QED
        BY <1>8, <3>2, <4>1 DEF done
    <3> QED
      BY <3>1, <3>2
  <2> QED
    BY <1>4, <2>1 DEF KeysIInv, Counted
<1>13. Recorded'
  <2>1. ASSUME NEW row \in keys
        PROVE  /\ row.hash = <<row.told>>
               /\ \E s \in Request : /\ deploy'[s].step = "answered"
                                     /\ deploy'[s].key = row.key /\ deploy'[s].market = row.told
    BY <1>4, <1>6 DEF KeysIInv, Recorded, Keys!key
  <2> QED
    BY <1>1, <1>2, <1>3, <1>6, <2>1 DEF Recorded, Keys!key
<1>14. Answered'
  <2>1. \A s \in Request \ {r} : AnswerTrue(s)'
    BY <1>4, <1>6, <1>7, <1>8, AnswersStand DEF KeysIInv
  <2>2. Keys!rowOf(Keys!key(r))' # {}
    BY <1>1, <1>6, <1>8 DEF Keys!key, Keys!rowOf
  <2>3. AnswerTrue(r)'
    BY <1>1, <1>6, <1>7, <2>2 DEF AnswerTrue, Keys!NoAnswer, Keys!Reused
  <2> QED
    BY <2>1, <2>3 DEF Answered
<1> QED
  BY <1>9, <1>10, <1>11, <1>12, <1>13, <1>14 DEF KeysIInv

\* What dies with its work done is counted as lost; before that it had done nothing.
LEMMA crashStep ==
  ASSUME KeysIInv, NEW r \in Request, Keys!crash(r)
  PROVE  KeysIInv'
PROOF
<1>1. PICK k \in Key : k = Keys!key(r)
  BY DEF Keys!crash, KeysIInv, KeysTyped, Requests, Answers, Keys!key
<1>2. /\ deploy[r].step \in {"claim", "run", "respond"}
      /\ Keys!goto(r, "answered")
      /\ lost' = IF deploy[r].step = "respond" THEN [lost EXCEPT ![k] = @ + 1] ELSE lost
      /\ UNCHANGED <<deployStatus, keys, queue, runs, deployAnswer>>
  BY <1>1 DEF Keys!crash
<1>3. /\ deploy' \in [Request -> Requests]
      /\ \A s \in Request : /\ deploy'[s].key = deploy[s].key
                            /\ deploy'[s].market = deploy[s].market
                            /\ s # r => deploy'[s].step = deploy[s].step
      /\ deploy'[r].step = "answered"
  BY <1>2, GotoMoves DEF KeysIInv, KeysSteps
<1>4. KeysTyped'
  <2>1. lost' \in [Key -> Nat]
    BY <1>2 DEF KeysIInv, KeysTyped, Requests, Answers
  <2>2. \A s \in Request : deploy'[s].step # "idle" =>
          deploy'[s].key \in Key /\ deploy'[s].market \in DeployMarket
    BY <1>2, <1>3 DEF KeysIInv, KeysTyped, Requests, Answers
  <2> QED
    BY <1>2, <1>3, <2>1, <2>2 DEF KeysIInv, KeysTyped, Requests, Answers
<1>5. Exclusive' /\ Unrecorded'
  BY <1>2, <1>3 DEF KeysIInv, Exclusive, Unrecorded, working, Keys!rowOf, Keys!key
<1>6. Counted'
  <2>1. ASSUME NEW j \in Key, j # k
        PROVE  runs'[j] = lost'[j] + IF done(j)' THEN 1 ELSE 0
    <3>1. responding(j)' <=> responding(j)
      BY <1>1, <1>3, <2>1, OthersRespond
    <3>2. Keys!rowOf(j)' = Keys!rowOf(j)
      BY <1>2 DEF Keys!rowOf
    <3>3. lost'[j] = lost[j]
      BY <1>2, <2>1 DEF KeysIInv, KeysTyped, Requests, Answers
    <3> QED
      BY <1>2, <3>1, <3>2, <3>3 DEF KeysIInv, Counted, done
  <2>2. Keys!rowOf(k)' = Keys!rowOf(k)
    BY <1>2 DEF Keys!rowOf
  <2>3. CASE deploy[r].step = "respond"
    \* What was done is now counted as lost: nobody else is at work on the key.
    <3>1. responding(k) /\ ~ responding(k)' /\ Keys!rowOf(k) = {}
      BY <1>1, <1>3, <2>3 DEF KeysIInv, Exclusive, Unrecorded, working, responding, Keys!key
    <3>2. lost[k] \in Nat /\ lost'[k] = lost[k] + 1
      BY <1>2, <2>3 DEF KeysIInv, KeysTyped, Requests, Answers
    <3>3. runs'[k] = lost'[k] + 0
      BY <1>2, <3>1, <3>2 DEF KeysIInv, Counted, done
    <3> QED
      BY <2>1, <2>2, <3>1, <3>3 DEF Counted, done
  <2>4. CASE deploy[r].step # "respond"
    <3>1. responding(k)' <=> responding(k)
      BY <1>3, <2>4 DEF responding, Keys!key
    <3>2. lost' = lost
      BY <1>2, <2>4
    <3> QED
      BY <1>2, <2>1, <2>2, <3>1, <3>2 DEF KeysIInv, Counted, done
  <2> QED
    BY <2>3, <2>4
<1>7. Recorded'
  BY <1>2, <1>3 DEF KeysIInv, Recorded, Keys!key
<1>8. Answered'
  <2>1. deployAnswer[r] = Keys!NoAnswer
    BY <1>2 DEF KeysIInv, Answered, AnswerTrue
  <2>2. \A s \in Request \ {r} : AnswerTrue(s)'
    BY <1>2, <1>3, AnswersStand DEF KeysIInv, Keys!rowOf
  <2>3. AnswerTrue(r)'
    BY <1>2, <2>1 DEF AnswerTrue, Keys!NoAnswer, Keys!Reused
  <2> QED
    BY <2>2, <2>3 DEF Answered
<1> QED
  BY <1>4, <1>5, <1>6, <1>7, <1>8 DEF KeysIInv

\* What becomes of the job concerns no key.
LEMMA deployedStep ==
  ASSUME KeysIInv, NEW m \in DeployMarket, Keys!deployed(m)
  PROVE  KeysIInv'
PROOF
<1>1. KeysTyped'
  BY DEF KeysIInv, KeysTyped, Requests, Answers, Keys!deployed
<1>2. UNCHANGED <<keys, deploy, runs, lost, deployAnswer>>
  BY DEF Keys!deployed
<1> QED
  BY <1>1, <1>2 DEF KeysIInv, Exclusive, Unrecorded, Counted, Recorded,
       Answered, AnswerTrue, working, done, responding, Keys!rowOf, Keys!key

------------------------------------------------------------------------------
(* What always holds of the keys.                                          *)

\* Nothing was asked or done at first.
LEMMA KeysInitially ==
  ASSUME Keys!Init
  PROVE  KeysIInv
PROOF
<1>1. KeysTyped
  BY DEF Keys!Init, KeysTyped, Requests, Answers, KeysSteps, Keys!NoRequest, Keys!NoAnswer
<1>2. Exclusive /\ Unrecorded /\ Recorded /\ Answered
  BY DEF Keys!Init, Exclusive, Unrecorded, Recorded, Answered, AnswerTrue, working,
       Keys!NoRequest, Keys!NoAnswer, Keys!Reused
<1>3. Counted
  BY DEF Keys!Init, Counted, done, responding, Keys!rowOf, Keys!NoRequest
<1> QED
  BY <1>1, <1>2, <1>3 DEF KeysIInv

\* Every step, and none, keeps the invariant.
LEMMA KeysStepKeeps ==
  ASSUME KeysIInv, [Keys!Next]_(Keys!vars)
  PROVE  KeysIInv'
PROOF
<1>1. CASE UNCHANGED Keys!vars
  BY <1>1 DEF Keys!vars, KeysIInv, KeysTyped, Requests, Answers, Exclusive, Unrecorded, Counted,
              Recorded, Answered, AnswerTrue, working, done, responding, Keys!rowOf, Keys!key
<1>2. ASSUME NEW r \in Request,
             Keys!findMarket(r) \/ Keys!claim(r) \/ Keys!run(r) \/ Keys!respond(r) \/ Keys!crash(r)
      PROVE  KeysIInv'
  BY <1>2, findMarketStep, claimStep, runStep, respondStep, crashStep
<1>3. ASSUME NEW m \in DeployMarket, Keys!deployed(m)
      PROVE  KeysIInv'
  BY <1>3, deployedStep
<1> QED
  BY <1>1, <1>2, <1>3 DEF Keys!Next

\* withIdempotency and the deploy route: however many requests come with one key,
\* and whatever dies on the way, the work of the key is done once, or once more for
\* each transaction that was lost; and no answer speaks of another's.
THEOREM OneEffect == Spec => []OneEffectPerKey
PROOF
<1>1. KeysIInv => OneEffectPerKey
  <2> SUFFICES ASSUME KeysIInv PROVE OneEffectPerKey
    OBVIOUS
  <2>1. \A k \in Key : runs[k] <= lost[k] + 1
    BY DEF KeysIInv, KeysTyped, Requests, Answers, Counted
  <2>2. ASSUME NEW r \in Request, deployAnswer[r].status = 202
        PROVE  deployAnswer[r].told = deploy[r].market /\ runs[Keys!key(r)] > lost[Keys!key(r)]
    <3>1. /\ deployAnswer[r].told = deploy[r].market /\ Keys!rowOf(Keys!key(r)) # {}
          /\ Keys!key(r) \in Key
      BY <2>2 DEF KeysIInv, KeysTyped, Requests, Answers, Answered, AnswerTrue, Keys!NoAnswer,
                  Keys!key
    <3> QED
      BY <3>1 DEF KeysIInv, KeysTyped, Requests, Answers, Counted, done
  <2>3. ASSUME NEW r \in Request, deployAnswer[r] = Keys!Reused
        PROVE  \E s \in Request : Keys!key(s) = Keys!key(r) /\ deploy[s].market # deploy[r].market
    BY <2>3 DEF KeysIInv, Answered, AnswerTrue
  <2> QED
    BY <2>1, <2>2, <2>3 DEF OneEffectPerKey, Keys!OneEffectPerKey
<1>2. Init => KeysIInv
  BY KeysInitially DEF Init
<1>3. KeysIInv /\ [Next]_vars => KeysIInv'
  BY KeysStepKeeps, StepOfKeys
<1> QED
  BY <1>1, <1>2, <1>3, PTL DEF Spec

------------------------------------------------------------------------------
(* One process, two networks.                                              *)

Rows == [id : MarketId, network : {Estates!networkOf(db) : db \in Estates!Database},
         state : {"draft", "pending", "deployed", "failed"}]
Jobs == (UNION {Estates!recurringJobs(Estates!networkOf(db)) : db \in Estates!Database})
          \cup {Estates!Deploy(m) : m \in MarketId}

EstatesTyped ==
  markets \in [Estates!Database -> SUBSET Rows] /\ jobs \in [Estates!Database -> SUBSET Jobs]

\* A process that is up has found the schema of every database it holds.
Asserted == phase # "down" => Estates!assertSchema

\* The rows of a database are its network's.
RowsApart ==
  \A db \in Estates!Database : \A row \in markets[db] : row.network = Estates!networkOf(db)

\* A queue has its network's schedule, and deploys of rows beside it.
JobsApart ==
  \A db \in Estates!Database : \A job \in jobs[db] :
    \/ job \in Estates!recurringJobs(Estates!networkOf(db))
    \/ \E row \in markets[db] : job = Estates!Deploy(row.id)

\* What was created for a row of a database is on its network's chain.
ContractsApart ==
  \A db \in Estates!Database : \A c \in contracts : c.db = db => c.network = Estates!networkOf(db)

EstatesIInv == EstatesTyped /\ Asserted /\ RowsApart /\ JobsApart /\ ContractsApart

------------------------------------------------------------------------------
(* The planes.                                                             *)

\* The network of a request has at most one database here.
LEMMA OneHandle ==
  ASSUME NEW header, NEW db \in Estates!handles(Estates!requestNetwork(header))
  PROVE  Estates!queueFor(header) = db
PROOF
<1>1. \A a, b \in Estates!held : Estates!networkOf(a) = Estates!networkOf(b) => a = b
  BY DEF Estates!held, Estates!networkOf
<1>2. Estates!queueFor(header) \in Estates!handles(Estates!requestNetwork(header))
  BY DEF Estates!queueFor
<1> QED
  BY <1>1, <1>2 DEF Estates!handles

\* Whoever a request is answered by, its network is that of its database.
LEMMA RequestApart ==
  ASSUME NEW header, NEW db \in Estates!Database, Estates!request(header, db)
  PROVE  Estates!scopedNetwork(header) = Estates!networkOf(db) /\ Estates!queueFor(header) = db
PROOF
  BY OneHandle DEF Estates!request, Estates!scopedNetwork, Estates!handles

\* The environment does not change, nor what follows from it.
LEMMA SamePlanes ==
  ASSUME env' = env
  PROVE  /\ Estates!held' = Estates!held
         /\ \A db \in Estates!Database : Estates!networkOf(db)' = Estates!networkOf(db)
         /\ Rows' = Rows /\ Jobs' = Jobs
PROOF
<1>1. \A db \in Estates!Database : Estates!networkOf(db)' = Estates!networkOf(db)
  BY DEF Estates!networkOf, Estates!ownNetwork
<1>2. Estates!held' = Estates!held
  BY DEF Estates!held, Estates!ownNetwork
<1> QED
  BY <1>1, <1>2 DEF Rows, Jobs

------------------------------------------------------------------------------
(* The steps.  Most leave rows, jobs and contracts alone.                  *)

\* What a step that touches nothing but the process has to keep.
LEMMA StoresKept ==
  ASSUME EstatesIInv, UNCHANGED <<env, Estates!stores>>
  PROVE  EstatesTyped' /\ RowsApart' /\ JobsApart' /\ ContractsApart'
PROOF
<1>1. UNCHANGED <<markets, jobs, contracts>>
  BY DEF Estates!stores
<1>2. /\ \A db \in Estates!Database : Estates!networkOf(db)' = Estates!networkOf(db)
      /\ Rows' = Rows /\ Jobs' = Jobs
  BY SamePlanes
<1>3. EstatesTyped'
  BY <1>1, <1>2 DEF EstatesIInv, EstatesTyped
<1>4. RowsApart' /\ ContractsApart'
  BY <1>1, <1>2 DEF EstatesIInv, RowsApart, ContractsApart
<1>5. JobsApart'
  BY <1>1, <1>2 DEF EstatesIInv, JobsApart, Estates!recurringJobs, Estates!Resolution,
                    Estates!resolutionLeaseKey
<1> QED
  BY <1>3, <1>4, <1>5

\* What a step of a running process has to keep.
LEMMA AssertedKept ==
  ASSUME Asserted, UNCHANGED <<env, schema>>, phase' = "down" \/ phase # "down"
  PROVE  Asserted'
PROOF
<1>1. Estates!held' = Estates!held
  BY SamePlanes
<1> QED
  BY <1>1 DEF Asserted, Estates!assertSchema

\* Rows that come or move on stay apart if the new ones are of their database, as
\* contracts do, and no row that a job is for goes.
LEMMA MarketsStep ==
  ASSUME EstatesIInv, UNCHANGED env,
         jobs' \in [Estates!Database -> SUBSET Jobs],
         \A d \in Estates!Database : jobs'[d] \subseteq jobs[d],
         NEW db \in Estates!Database, NEW rest \in SUBSET markets[db], NEW row \in Rows,
         row.network = Estates!networkOf(db),
         markets' = [markets EXCEPT ![db] = rest \cup {row}],
         \A old \in markets[db] : old \in rest \/ old.id = row.id,
         \A c \in contracts' : c \in contracts \/ (c.db = db /\ c.network = Estates!networkOf(db))
  PROVE  EstatesTyped' /\ RowsApart' /\ JobsApart' /\ ContractsApart'
PROOF
<1>1. /\ \A d \in Estates!Database : Estates!networkOf(d)' = Estates!networkOf(d)
      /\ Rows' = Rows /\ Jobs' = Jobs
  BY SamePlanes
<1>2. /\ \A d \in Estates!Database : d # db => markets'[d] = markets[d]
      /\ markets'[db] = rest \cup {row}
  BY DEF EstatesIInv, EstatesTyped
<1>3. EstatesTyped'
  BY <1>1 DEF EstatesIInv, EstatesTyped
<1>4. RowsApart'
  BY <1>1, <1>2 DEF EstatesIInv, RowsApart
<1>5. JobsApart'
  <2>1. \A d \in Estates!Database :
          Estates!recurringJobs(Estates!networkOf(d))' = Estates!recurringJobs(Estates!networkOf(d))
    BY <1>1 DEF Estates!recurringJobs, Estates!Resolution, Estates!resolutionLeaseKey
  <2>2. \A d \in Estates!Database : \A old \in markets[d] : \E new \in markets'[d] : new.id = old.id
    BY <1>2
  <2>3. ASSUME NEW d \in Estates!Database, NEW job \in jobs'[d],
               job \notin Estates!recurringJobs(Estates!networkOf(d))
        PROVE  \E new \in markets'[d] : job = Estates!Deploy(new.id)
    BY <2>2, <2>3 DEF EstatesIInv, JobsApart
  <2> QED
    BY <2>1, <2>3 DEF JobsApart, Estates!Deploy
<1>6. ContractsApart'
  BY <1>1 DEF EstatesIInv, ContractsApart
<1> QED
  BY <1>3, <1>4, <1>5, <1>6

\* Jobs that come to a queue stay apart if they are its schedule's or its rows'.
LEMMA JobsStep ==
  ASSUME EstatesIInv, UNCHANGED <<env, markets, contracts>>,
         jobs' \in [Estates!Database -> SUBSET Jobs],
         \A db \in Estates!Database : \A job \in jobs'[db] :
           \/ job \in jobs[db] \cup Estates!recurringJobs(Estates!networkOf(db))
           \/ \E row \in markets[db] : job = Estates!Deploy(row.id)
  PROVE  EstatesTyped' /\ RowsApart' /\ JobsApart' /\ ContractsApart'
PROOF
<1>1. /\ \A d \in Estates!Database : Estates!networkOf(d)' = Estates!networkOf(d)
      /\ Rows' = Rows /\ Jobs' = Jobs
  BY SamePlanes
<1>2. EstatesTyped' /\ RowsApart' /\ ContractsApart'
  BY <1>1 DEF EstatesIInv, EstatesTyped, RowsApart, ContractsApart
<1>3. JobsApart'
  <2>1. \A d \in Estates!Database :
          Estates!recurringJobs(Estates!networkOf(d))' = Estates!recurringJobs(Estates!networkOf(d))
    BY <1>1 DEF Estates!recurringJobs, Estates!Resolution, Estates!resolutionLeaseKey
  <2> QED
    BY <2>1 DEF EstatesIInv, JobsApart, Estates!Deploy
<1> QED
  BY <1>2, <1>3

\* What the code enqueues is a job of the types there are.
LEMMA JobTypes ==
  /\ \A db \in Estates!Database : Estates!recurringJobs(Estates!networkOf(db)) \subseteq Jobs
  /\ \A m \in MarketId : Estates!Deploy(m) \in Jobs
PROOF
  BY DEF Jobs

\* The process starts and ends; only a process that is down is migrated for.
LEMMA ProcessStep ==
  ASSUME EstatesIInv,
         \/ Estates!boot \/ Estates!serve \/ Estates!drain \/ Estates!exit
         \/ \E failed \in SUBSET Estates!Database : Estates!migrate(failed)
  PROVE  EstatesIInv'
PROOF
<1>1. CASE Estates!boot
  <2>1. UNCHANGED <<env, schema, Estates!stores>> /\ Estates!assertSchema
    BY <1>1 DEF Estates!boot
  <2>2. Asserted'
    BY <2>1, SamePlanes DEF Asserted, Estates!assertSchema
  <2> QED
    BY <2>1, <2>2, StoresKept DEF EstatesIInv
<1>2. CASE Estates!serve
  <2>1. UNCHANGED <<env, schema, markets, contracts>> /\ phase # "down"
    BY <1>2 DEF Estates!serve
  <2>2. /\ jobs' \in [Estates!Database -> SUBSET Jobs]
        /\ \A db \in Estates!Database :
             jobs'[db] \subseteq jobs[db] \cup Estates!recurringJobs(Estates!networkOf(db))
    BY <1>2, JobTypes DEF Estates!serve, EstatesIInv, EstatesTyped
  <2>3. Asserted'
    BY <2>1, AssertedKept DEF EstatesIInv
  <2> QED
    BY <2>1, <2>2, <2>3, JobsStep DEF EstatesIInv
<1>3. CASE Estates!drain \/ Estates!exit
  <2>1. UNCHANGED <<env, schema, Estates!stores>> /\ phase # "down"
    BY <1>3 DEF Estates!drain, Estates!exit
  <2> QED
    BY <2>1, StoresKept, AssertedKept DEF EstatesIInv
<1>4. CASE \E failed \in SUBSET Estates!Database : Estates!migrate(failed)
  <2>1. UNCHANGED <<env, Estates!stores>> /\ phase' = "down"
    BY <1>4 DEF Estates!migrate
  <2> QED
    BY <2>1, StoresKept DEF EstatesIInv, Asserted
<1> QED
  BY <1>1, <1>2, <1>3, <1>4

\* A request that writes a row writes it of its own network, where it is that network's.
LEMMA RowRequestStep ==
  ASSUME EstatesIInv, NEW header, NEW db \in Estates!Database,
         \/ \E m \in MarketId : Estates!createDraft(header, db, m)
         \/ \E row \in markets[db] : Estates!approveMarket(header, db, row)
  PROVE  EstatesIInv'
PROOF
<1>1. /\ Estates!request(header, db) /\ phase # "down"
      /\ UNCHANGED <<env, schema, phase, jobs, contracts>>
  BY DEF Estates!createDraft, Estates!approveMarket, Estates!request
<1>2. Estates!scopedNetwork(header) = Estates!networkOf(db)
  BY <1>1, RequestApart
<1>3. Asserted'
  BY <1>1, AssertedKept DEF EstatesIInv
<1>4. CASE \E m \in MarketId : Estates!createDraft(header, db, m)
  <2>1. PICK m \in MarketId :
          markets' = [markets EXCEPT ![db] = @ \cup
                        {[id |-> m, network |-> Estates!scopedNetwork(header), state |-> "draft"]}]
    BY <1>4 DEF Estates!createDraft
  <2>2. PICK row \in Rows : row = [id |-> m, network |-> Estates!networkOf(db), state |-> "draft"]
    BY DEF Rows
  <2>3. markets' = [markets EXCEPT ![db] = markets[db] \cup {row}] /\ row.network = Estates!networkOf(db)
    BY <1>2, <2>1, <2>2
  <2>4. /\ jobs' \in [Estates!Database -> SUBSET Jobs]
        /\ \A d \in Estates!Database : jobs'[d] \subseteq jobs[d]
    BY <1>1 DEF EstatesIInv, EstatesTyped
  <2> QED
    BY <1>1, <1>3, <2>3, <2>4, MarketsStep DEF EstatesIInv
<1>5. CASE \E row \in markets[db] : Estates!approveMarket(header, db, row)
  <2>1. PICK row \in markets[db] : Estates!advance(db, row, "pending")
    BY <1>5 DEF Estates!approveMarket
  <2>2. /\ row \in Rows /\ row.network = Estates!networkOf(db)
        /\ Estates!moved(row, "pending") \in Rows
        /\ Estates!moved(row, "pending").network = row.network
        /\ Estates!moved(row, "pending").id = row.id
    BY DEF EstatesIInv, EstatesTyped, RowsApart, Rows, Estates!moved
  <2>3. /\ markets' = [markets EXCEPT ![db] = (markets[db] \ {row}) \cup {Estates!moved(row, "pending")}]
        /\ markets[db] \ {row} \in SUBSET markets[db]
        /\ \A old \in markets[db] : old \in markets[db] \ {row} \/ old.id = Estates!moved(row, "pending").id
    BY <2>1, <2>2 DEF Estates!advance
  <2>4. /\ jobs' \in [Estates!Database -> SUBSET Jobs]
        /\ \A d \in Estates!Database : jobs'[d] \subseteq jobs[d]
    BY <1>1 DEF EstatesIInv, EstatesTyped
  <2>5. PICK new \in Rows : new = Estates!moved(row, "pending")
    BY <2>2
  <2>6. EstatesTyped' /\ RowsApart' /\ JobsApart' /\ ContractsApart'
    BY <1>1, <2>2, <2>3, <2>4, <2>5, MarketsStep
  <2> QED
    BY <1>3, <2>6 DEF EstatesIInv
<1> QED
  BY <1>4, <1>5

\* A request that enqueues does so in the queue of the database it has read.
LEMMA JobRequestStep ==
  ASSUME EstatesIInv, NEW header, NEW db \in Estates!Database, NEW row \in markets[db],
         Estates!deployMarket(header, db, row) \/ Estates!resolve(header, db, row)
  PROVE  EstatesIInv'
PROOF
<1>1. /\ Estates!request(header, db) /\ phase # "down"
      /\ UNCHANGED <<env, schema, phase, markets, contracts>>
  BY DEF Estates!deployMarket, Estates!resolve, Estates!request
<1>2. Estates!scopedNetwork(header) = Estates!networkOf(db) /\ Estates!queueFor(header) = db
  BY <1>1, RequestApart
<1>3. PICK job \in {Estates!Deploy(row.id), Estates!Resolution(Estates!networkOf(db))} :
        jobs' = [jobs EXCEPT ![db] = @ \cup {job}]
  BY <1>2 DEF Estates!deployMarket, Estates!resolve
<1>4. job \in Jobs
  BY JobTypes DEF EstatesIInv, EstatesTyped, Rows, Estates!recurringJobs
<1>5. /\ jobs' \in [Estates!Database -> SUBSET Jobs]
      /\ \A d \in Estates!Database : d # db => jobs'[d] = jobs[d]
      /\ jobs'[db] = jobs[db] \cup {job}
  BY <1>3, <1>4 DEF EstatesIInv, EstatesTyped
<1>6. \A d \in Estates!Database : \A j \in jobs'[d] :
        \/ j \in jobs[d] \cup Estates!recurringJobs(Estates!networkOf(d))
        \/ \E r \in markets[d] : j = Estates!Deploy(r.id)
  BY <1>5 DEF Estates!recurringJobs
<1> QED
  BY <1>1, <1>5, <1>6, JobsStep, AssertedKept DEF EstatesIInv

\* The sweep enqueues for the rows of its own database; the other handlers only end.
LEMMA ScheduleStep ==
  ASSUME EstatesIInv, NEW db \in Estates!Database,
         Estates!deploySweep(db) \/ Estates!resolutionPost(db) \/ \E job \in jobs[db] : Estates!claim(db, job)
  PROVE  EstatesIInv'
PROOF
<1>1. UNCHANGED <<env, schema, phase, markets, contracts>>
  BY DEF Estates!deploySweep, Estates!resolutionPost, Estates!claim, Estates!stores
<1>2. \A job : Estates!finish(db, job) \subseteq jobs[db]
  BY DEF Estates!finish
<1>3. /\ jobs' \in [Estates!Database -> SUBSET Jobs]
      /\ \A d \in Estates!Database : \A j \in jobs'[d] :
           \/ j \in jobs[d] \cup Estates!recurringJobs(Estates!networkOf(d))
           \/ \E r \in markets[d] : j = Estates!Deploy(r.id)
  <2>1. CASE Estates!deploySweep(db)
    <3>1. PICK new \in SUBSET Jobs :
            /\ jobs' = [jobs EXCEPT ![db] = Estates!finish(db, Estates!Sweep) \cup new]
            /\ \A j \in new : \E r \in markets[db] : j = Estates!Deploy(r.id)
      <4>1. {Estates!Deploy(r.id) : r \in {x \in markets[db] : x.state = "pending"}} \in SUBSET Jobs
        BY JobTypes DEF EstatesIInv, EstatesTyped, Rows
      <4> QED
        BY <2>1, <4>1 DEF Estates!deploySweep
    <3> QED
      BY <1>2, <3>1 DEF EstatesIInv, EstatesTyped
  <2>2. CASE Estates!resolutionPost(db)
    <3>1. PICK job : jobs' = [jobs EXCEPT ![db] = Estates!finish(db, job)]
      BY <2>2 DEF Estates!resolutionPost
    <3> QED
      BY <1>2, <3>1 DEF EstatesIInv, EstatesTyped
  <2>3. CASE \E job \in jobs[db] : Estates!claim(db, job)
    BY <2>3 DEF Estates!claim, Estates!stores, EstatesIInv, EstatesTyped
  <2> QED
    BY <2>1, <2>2, <2>3
<1>4. Asserted'
  BY <1>1, SamePlanes DEF EstatesIInv, Asserted, Estates!assertSchema
<1> QED
  BY <1>1, <1>3, <1>4, JobsStep DEF EstatesIInv

\* A deploy creates its contract on the chain of its row, and nowhere else.
LEMMA DeployStep ==
  ASSUME EstatesIInv, NEW db \in Estates!Database, NEW m \in MarketId, Estates!marketDeploy(db, m)
  PROVE  EstatesIInv'
PROOF
<1>1. UNCHANGED <<env, schema, phase>>
  BY DEF Estates!marketDeploy
<1>2. /\ jobs' \in [Estates!Database -> SUBSET Jobs]
      /\ \A d \in Estates!Database : jobs'[d] \subseteq jobs[d]
  BY DEF Estates!marketDeploy, Estates!finish, EstatesIInv, EstatesTyped
<1>3. Asserted'
  BY <1>1, SamePlanes DEF EstatesIInv, Asserted, Estates!assertSchema
<1>4. CASE UNCHANGED <<markets, contracts>>
  BY <1>1, <1>2, <1>3, <1>4, JobsStep DEF EstatesIInv
<1>5. CASE ~ UNCHANGED <<markets, contracts>>
  <2>1. PICK row \in markets[db], s \in {"deployed", "failed", "pending"} :
          /\ row.id = m
          /\ Estates!advance(db, row, s)
          /\ \/ contracts' = contracts
             \/ /\ Estates!taken(row)
                /\ contracts' = contracts \cup {[id |-> m, db |-> db, network |-> env.rpc]}
    BY <1>5 DEF Estates!marketDeploy
  <2>2. /\ row \in Rows /\ row.network = Estates!networkOf(db)
        /\ Estates!moved(row, s) \in Rows
        /\ Estates!moved(row, s).network = row.network /\ Estates!moved(row, s).id = row.id
    BY DEF EstatesIInv, EstatesTyped, RowsApart, Rows, Estates!moved
  <2>3. /\ markets' = [markets EXCEPT ![db] = (markets[db] \ {row}) \cup {Estates!moved(row, s)}]
        /\ markets[db] \ {row} \in SUBSET markets[db]
        /\ \A old \in markets[db] : old \in markets[db] \ {row} \/ old.id = Estates!moved(row, s).id
    BY <2>1, <2>2 DEF Estates!advance
  <2>4. \A c \in contracts' : c \in contracts \/ (c.db = db /\ c.network = Estates!networkOf(db))
    BY <2>1, <2>2 DEF Estates!taken
  <2> QED
    BY <1>1, <1>2, <1>3, <2>2, <2>3, <2>4, MarketsStep, ZenonT(40) DEF EstatesIInv
<1> QED
  BY <1>4, <1>5

------------------------------------------------------------------------------

\* Nothing is there at first.
LEMMA EstatesInitially ==
  ASSUME Estates!Init
  PROVE  EstatesIInv
PROOF
  BY DEF Estates!Init, EstatesIInv, EstatesTyped, Asserted, RowsApart, JobsApart, ContractsApart

\* Every step, and none, keeps the invariant.
LEMMA EstatesStepKeeps ==
  ASSUME EstatesIInv, [Estates!Next]_(Estates!vars)
  PROVE  EstatesIInv'
PROOF
<1>1. CASE UNCHANGED Estates!vars
  <2>1. UNCHANGED <<env, schema, phase, Estates!stores>>
    BY <1>1 DEF Estates!vars, Estates!stores
  <2> QED
    BY <2>1, StoresKept, SamePlanes DEF EstatesIInv, Asserted, Estates!assertSchema
<1>2. CASE \/ Estates!boot \/ Estates!serve \/ Estates!drain \/ Estates!exit
           \/ \E failed \in SUBSET Estates!Database : Estates!migrate(failed)
  BY <1>2, ProcessStep
<1>3. ASSUME NEW header \in Estates!Header, NEW db \in Estates!Database,
             \/ \E m \in MarketId : Estates!createDraft(header, db, m)
             \/ \E row \in markets[db] : Estates!approveMarket(header, db, row)
      PROVE  EstatesIInv'
  BY <1>3, RowRequestStep
<1>4. ASSUME NEW header \in Estates!Header, NEW db \in Estates!Database, NEW row \in markets[db],
             Estates!deployMarket(header, db, row) \/ Estates!resolve(header, db, row)
      PROVE  EstatesIInv'
  BY <1>4, JobRequestStep
<1>5. ASSUME NEW db \in Estates!Database,
             Estates!deploySweep(db) \/ Estates!resolutionPost(db) \/ \E job \in jobs[db] : Estates!claim(db, job)
      PROVE  EstatesIInv'
  BY <1>5, ScheduleStep
<1>6. ASSUME NEW db \in Estates!Database, NEW m \in MarketId, Estates!marketDeploy(db, m)
      PROVE  EstatesIInv'
  BY <1>6, DeployStep
<1> QED
  BY <1>1, <1>2, <1>3, <1>4, <1>5, <1>6 DEF Estates!Next

\* index.ts, forRequest: in any environment, through any number of boots, crashes and
\* drains, the rows, jobs and contracts of one network are in its database, its queue
\* and on its chain, and who serves has found the schema.
THEOREM EstatesApart == Spec => []EstatesStayApart
PROOF
<1>1. Init => EstatesIInv
  BY EstatesInitially DEF Init
<1>2. EstatesIInv /\ [Next]_vars => EstatesIInv'
  BY EstatesStepKeeps, StepOfEstates
<1>3. EstatesIInv => EstatesStayApart
  BY DEF EstatesIInv, Asserted, Estates!assertSchema, RowsApart, JobsApart, ContractsApart,
         EstatesStayApart, Estates!EstatesStayApart
<1> QED
  BY <1>1, <1>2, <1>3, PTL DEF Spec

------------------------------------------------------------------------------
(* The caps of house seeds.                                                *)

Seed == [market : SeedMarket, amount : Sizes, day : Nat]
SeedSteps == {"idle", "caps", "approve", "inTx", "refused", "done", "lost"}

\* An approval past the caps' reading has a size and a policy that allowed it.
Sized(r) ==
  approval[r].step \in {"caps", "approve", "inTx"} =>
    /\ approval[r].market \in SeedMarket
    /\ approval[r].amount \in Sizes /\ approval[r].amount <= SEED_PER_MARKET_CEILING_WEI
    /\ approval[r].policy \in Policies \ {NoPolicy}

SeedsTyped ==
  /\ draftStatus \in [SeedMarket -> {"draft", "approved"}]
  /\ day \in 0..MaxSeedDay /\ overlapped \in BOOLEAN
  /\ approval \in [Approval -> [step : SeedSteps, market : SeedMarket \cup {"none"},
                                amount : Sizes \cup {0}, policy : Policies \cup {NoPolicy}]]
  /\ \A r \in Approval : Sized(r)

\* Rows are of days that have been, within the market's ceiling, and one of a market.
SeedRows ==
  /\ house_seeds \subseteq Seed /\ IsFiniteSet(house_seeds)
  /\ \A s \in house_seeds : /\ s.day <= day /\ s.amount <= SEED_PER_MARKET_CEILING_WEI
                            /\ draftStatus[s.market] = "approved"
  /\ \A s, t \in house_seeds : s.market = t.market => s = t

\* Whoever is in a transaction has written the one row of it, of a draft nobody else has.
OpenRows ==
  /\ \A s \in tx :
       /\ s = [by |-> s.by, market |-> s.market, amount |-> s.amount, day |-> s.day]
       /\ s.by \in Approval /\ approval[s.by].step = "inTx"
       /\ s.market = approval[s.by].market /\ s.amount = approval[s.by].amount
       /\ s.day \in Nat /\ s.day <= day /\ draftStatus[s.market] = "draft"
  /\ \A s, t \in tx : s.by = t.by \/ s.market = t.market => s = t
  /\ \A r \in Approval : approval[r].step = "inTx" => \E s \in tx : s.by = r

\* What the day of an approval may still take, as its policy and the schema have it.
FitsOn(d, r) ==
  Seeds!amountOn(house_seeds, d) + approval[r].amount <= approval[r].policy.perDayWei

\* Approvals that have not overlapped are one at a time, and what they read still holds.
OneByOne ==
  ~ overlapped =>
    /\ \A r, q \in Seeds!running : r = q
    /\ \A d \in Nat : Seeds!amountOn(house_seeds, d) <= SEED_PER_DAY_CEILING_WEI
    /\ \A r \in Approval : approval[r].step = "approve" => FitsOn(day, r)
    /\ \A s \in tx :
         /\ FitsOn(s.day, s.by)
         /\ Seeds!amountOn(house_seeds, s.day) + s.amount <= SEED_PER_DAY_CEILING_WEI

SeedsIInv == SeedsTyped /\ SeedRows /\ OpenRows /\ OneByOne

\* What is assumed of sizes, policies and ceilings.
LEMMA Ceilings ==
  /\ \A n \in Sizes : n \in Nat
  /\ MaxSeedDay \in Nat
  /\ SEED_PER_MARKET_CEILING_WEI \in Nat /\ SEED_PER_DAY_CEILING_WEI \in Nat
  /\ \A p \in Policies \ {NoPolicy} : p.perMarketWei \in Nat /\ p.perDayWei \in Nat
PROOF
  BY ServiceAssumption DEF ServiceAssumption, Seeds!SeedAssumption

\* The sum that SeedCaps takes is the sum.
LEMMA SeedsSum == ASSUME NEW f PROVE Seeds!SumFunction(f) = SumFunctionOnSet(f, DOMAIN f)
PROOF
  BY DEF Seeds!SumFunction, Seeds!SumFunctionOnSet, Seeds!FoldFunctionOnSet, Seeds!MapThenFoldSet,
         SumFunctionOnSet, FoldFunctionOnSet, MapThenFoldSet

\* The total of a day is the sum over its rows.
LEMMA DayTotal ==
  ASSUME NEW rows \in SUBSET Seed, IsFiniteSet(rows), NEW d
  PROVE  \E f, D : /\ D = {s \in rows : s.day = d} /\ IsFiniteSet(D)
                   /\ \A s \in Seed : f[s] = s.amount /\ f[s] \in Nat
                   /\ Seeds!amountOn(rows, d) = SumFunctionOnSet(f, D)
                   /\ f = [s \in Seed |-> s.amount]
PROOF
<1> DEFINE D == {s \in rows : s.day = d}
           f == [s \in Seed |-> s.amount]
           g == [s \in D |-> s.amount]
<1>1. IsFiniteSet(D) /\ D \subseteq Seed
  BY FS_Subset
<1>2. \A s \in Seed : f[s] = s.amount /\ f[s] \in Nat
  BY Ceilings DEF Seed
<1>3. \A s \in D : g[s] = f[s] /\ g[s] \in Int
  BY <1>1, <1>2
<1>4. Seeds!amountOn(rows, d) = SumFunctionOnSet(g, D)
  <2>1. Seeds!amountOn(rows, d) = Seeds!SumFunction(g)
    BY DEF Seeds!amountOn
  <2>2. DOMAIN g = D
    OBVIOUS
  <2> QED
    BY <2>1, <2>2, SeedsSum
<1> HIDE DEF g
<1>5. SumFunctionOnSet(g, D) = SumFunctionOnSet(f, D)
  BY <1>1, <1>3, SumSame
<1> QED
  BY <1>1, <1>2, <1>4, <1>5

\* It is a number, and nothing when there are no rows of the day.
LEMMA DayTotalIsNat ==
  ASSUME NEW rows \in SUBSET Seed, IsFiniteSet(rows), NEW d
  PROVE  /\ Seeds!amountOn(rows, d) \in Nat
         /\ (\A s \in rows : s.day # d) => Seeds!amountOn(rows, d) = 0
PROOF
<1>1. PICK f, D : /\ D = {s \in rows : s.day = d} /\ IsFiniteSet(D)
                  /\ \A s \in Seed : f[s] = s.amount /\ f[s] \in Nat
                  /\ Seeds!amountOn(rows, d) = SumFunctionOnSet(f, D)
  BY DayTotal
<1>2. \A s \in D : f[s] \in Nat
  BY <1>1
<1>3. SumFunctionOnSet(f, D) \in Nat
  BY <1>1, <1>2, SumNat
<1>4. (\A s \in rows : s.day # d) => D = {}
  BY <1>1
<1> QED
  BY <1>1, <1>3, <1>4, SumEmpty

\* A row adds its amount to its own day at most.
LEMMA DayTotalAdds ==
  ASSUME NEW rows \in SUBSET Seed, IsFiniteSet(rows), NEW x \in Seed, NEW d
  PROVE  /\ d # x.day => Seeds!amountOn(rows \cup {x}, d) = Seeds!amountOn(rows, d)
         /\ Seeds!amountOn(rows \cup {x}, x.day) <= Seeds!amountOn(rows, x.day) + x.amount
PROOF
<1>1. PICK more : more = rows \cup {x} /\ more \in SUBSET Seed /\ IsFiniteSet(more)
  <2>1. IsFiniteSet(rows \cup {x}) /\ rows \cup {x} \in SUBSET Seed
    BY FS_AddElement
  <2> QED
    BY <2>1
<1>2. x.amount \in Nat
  BY Ceilings DEF Seed
<1>3. CASE x \in rows
  <2>1. more = rows
    BY <1>1, <1>3
  <2>2. PICK n \in Nat : n = Seeds!amountOn(rows, x.day) /\ n <= n + x.amount
    BY <1>2, DayTotalIsNat
  <2>3. rows \cup {x} = rows
    BY <1>3
  <2> QED
    BY <2>2, <2>3
<1>4. CASE x \notin rows
  <2>1. ASSUME d # x.day
        PROVE  Seeds!amountOn(more, d) = Seeds!amountOn(rows, d)
    <3>1. {s \in more : s.day = d} = {s \in rows : s.day = d}
      BY <1>1, <2>1
    <3> QED
      BY <3>1 DEF Seeds!amountOn
  <2>2. Seeds!amountOn(more, x.day) = Seeds!amountOn(rows, x.day) + x.amount
    <3>1. PICK f, D : /\ D = {s \in rows : s.day = x.day} /\ IsFiniteSet(D)
                      /\ \A s \in Seed : f[s] = s.amount /\ f[s] \in Nat
                      /\ Seeds!amountOn(rows, x.day) = SumFunctionOnSet(f, D)
                      /\ f = [s \in Seed |-> s.amount]
      BY DayTotal
    <3>2. PICK E : /\ E = {s \in more : s.day = x.day}
                   /\ Seeds!amountOn(more, x.day) = SumFunctionOnSet(f, E)
      BY <1>1, <3>1, DayTotal
    <3>3. E = D \cup {x} /\ x \notin D
      BY <1>1, <1>4, <3>1, <3>2
    <3>4. \A y \in D \cup {x} : f[y] \in Int
      BY <3>1
    <3>5. SumFunctionOnSet(f, D \cup {x}) = f[x] + SumFunctionOnSet(f, D)
      BY <3>1, <3>3, <3>4, SumAdd
    <3>6. PICK n \in Nat : n = SumFunctionOnSet(f, D) /\ f[x] + n = n + x.amount
      <4>1. SumFunctionOnSet(f, D) \in Nat
        BY <3>1, DayTotalIsNat
      <4> QED
        BY <1>2, <3>1, <4>1
    <3>7. SumFunctionOnSet(f, E) = n + x.amount
      BY <3>3, <3>5, <3>6
    <3> QED
      BY <3>1, <3>2, <3>6, <3>7
  <2>3. Seeds!amountOn(rows, x.day) \in Nat
    BY DayTotalIsNat
  <2> QED
    BY <1>1, <1>2, <2>1, <2>2, <2>3
<1> QED
  BY <1>3, <1>4

\* Nobody has asked for a seed.
LEMMA SeedsInitially == Seeds!Init => SeedsIInv
PROOF
<1> SUFFICES ASSUME Seeds!Init
             PROVE  SeedsIInv
  OBVIOUS
<1>1. /\ draftStatus = [m \in SeedMarket |-> "draft"] /\ house_seeds = {} /\ day = 0 /\ tx = {}
      /\ \A r \in Approval : approval[r] = Seeds!Idle
      /\ approval = [r \in Approval |-> Seeds!Idle] /\ overlapped = FALSE
  BY DEF Seeds!Init
<1>2. SeedsTyped
  <2>1. Seeds!Idle \in [step : SeedSteps, market : SeedMarket \cup {"none"},
                        amount : Sizes \cup {0}, policy : Policies \cup {NoPolicy}]
    BY DEF Seeds!Idle, SeedSteps
  <2>2. \A r \in Approval : Sized(r)
    BY <1>1 DEF Sized, Seeds!Idle
  <2>3. approval \in [Approval -> [step : SeedSteps, market : SeedMarket \cup {"none"},
                                   amount : Sizes \cup {0}, policy : Policies \cup {NoPolicy}]]
    BY <1>1, <2>1
  <2>4. day \in 0..MaxSeedDay
    BY <1>1, Ceilings
  <2> QED
    BY <1>1, <2>2, <2>3, <2>4 DEF SeedsTyped
<1>3. SeedRows
  BY <1>1, FS_EmptySet DEF SeedRows
<1>4. OpenRows
  BY <1>1 DEF OpenRows, Seeds!Idle
<1>5. OneByOne
  <2>1. Seeds!running = {}
    BY <1>1 DEF Seeds!running, Seeds!Idle
  <2>2. {} \in SUBSET Seed /\ IsFiniteSet({}) /\ \A d : \A s \in {} : s.day # d
    BY FS_EmptySet
  <2>3. \A d : Seeds!amountOn(house_seeds, d) = 0
    BY <1>1, <2>2, DayTotalIsNat
  <2>4. \A r \in Approval : approval[r].step # "approve"
    BY <1>1 DEF Seeds!Idle
  <2> QED
    BY <1>1, <2>1, <2>3, <2>4, Ceilings DEF OneByOne
<1> QED
  BY <1>2, <1>3, <1>4, <1>5 DEF SeedsIInv

\* Approval r, which is not in a transaction, goes on to one of its other steps: what it
\* has asked for, and what it has found to fit, is what the new step says.
LEMMA AskedKeeps ==
  ASSUME SeedsIInv, NEW r \in Approval, approval[r].step # "inTx",
         NEW asked, approval' = [approval EXCEPT ![r] = asked],
         UNCHANGED <<draftStatus, house_seeds, day, tx>>,
         overlapped' \in BOOLEAN, overlapped => overlapped',
         asked \in [step : SeedSteps \ {"inTx"}, market : SeedMarket \cup {"none"},
                    amount : Sizes \cup {0}, policy : Policies \cup {NoPolicy}],
         Sized(r)',
         ~ overlapped' /\ r \in Seeds!running' => Seeds!running \subseteq {r},
         ~ overlapped' /\ asked.step = "approve" => FitsOn(day, r)'
  PROVE  SeedsIInv'
PROOF
<1>1. approval'[r] = asked /\ \A q \in Approval : q # r => approval'[q] = approval[q]
  BY DEF SeedsIInv, SeedsTyped
<1>2. SeedsTyped'
  <2>1. approval' \in [Approval -> [step : SeedSteps, market : SeedMarket \cup {"none"},
                                    amount : Sizes \cup {0}, policy : Policies \cup {NoPolicy}]]
    BY DEF SeedsIInv, SeedsTyped
  <2>2. \A q \in Approval : Sized(q)'
    BY <1>1 DEF SeedsIInv, SeedsTyped, Sized
  <2> QED
    BY <2>1, <2>2 DEF SeedsIInv, SeedsTyped
<1>3. SeedRows'
  BY DEF SeedsIInv, SeedRows
<1>4. \A s \in tx : s.by # r /\ approval'[s.by] = approval[s.by]
  BY <1>1 DEF SeedsIInv, OpenRows
<1>5. OpenRows'
  BY <1>1, <1>4 DEF SeedsIInv, OpenRows
<1>6. OneByOne'
  <2> SUFFICES ASSUME ~ overlapped'
               PROVE  /\ \A p, q \in Seeds!running' : p = q
                      /\ \A d \in Nat : Seeds!amountOn(house_seeds, d) <= SEED_PER_DAY_CEILING_WEI
                      /\ \A q \in Approval : approval'[q].step = "approve" => FitsOn(day, q)'
                      /\ \A s \in tx :
                           /\ FitsOn(s.day, s.by)'
                           /\ Seeds!amountOn(house_seeds, s.day) + s.amount <= SEED_PER_DAY_CEILING_WEI
    BY DEF OneByOne, Seeds!amountOn
  <2>1. OneByOne /\ ~ overlapped
    BY DEF SeedsIInv
  <2>2. \A p, q \in Seeds!running' : p = q
    <3>1. \A q \in Approval : q # r => (q \in Seeds!running' <=> q \in Seeds!running)
      BY <1>1 DEF Seeds!running
    <3>2. Seeds!running' \subseteq Approval /\ Seeds!running \subseteq Approval
      BY DEF Seeds!running
    <3> QED
      BY <2>1, <3>1, <3>2 DEF OneByOne
  <2>3. \A q \in Approval : approval'[q].step = "approve" => FitsOn(day, q)'
    BY <1>1, <2>1 DEF OneByOne, FitsOn, Seeds!amountOn
  <2>4. \A s \in tx : FitsOn(s.day, s.by)'
    BY <1>4, <2>1 DEF OneByOne, FitsOn, Seeds!amountOn
  <2> QED
    BY <2>1, <2>2, <2>3, <2>4 DEF OneByOne
<1> QED
  BY <1>2, <1>3, <1>5, <1>6 DEF SeedsIInv

\* Approval r ends without having written anything.
LEMMA EndKeeps ==
  ASSUME SeedsIInv, NEW r \in Approval, approval[r].step # "inTx",
         NEW how \in {"refused", "lost"}, Seeds!end(r, how),
         UNCHANGED <<draftStatus, house_seeds, day, tx>>,
         overlapped' \in BOOLEAN, overlapped => overlapped'
  PROVE  SeedsIInv'
PROOF
<1>1. PICK asked : /\ approval' = [approval EXCEPT ![r] = asked]
                   /\ asked = [step |-> how, market |-> "none", amount |-> 0, policy |-> NoPolicy]
  <2>1. [Seeds!Idle EXCEPT !.step = how]
          = [step |-> how, market |-> "none", amount |-> 0, policy |-> NoPolicy]
    BY DEF Seeds!Idle
  <2> QED
    BY <2>1 DEF Seeds!end
<1>2. asked \in [step : SeedSteps \ {"inTx"}, market : SeedMarket \cup {"none"},
                 amount : Sizes \cup {0}, policy : Policies \cup {NoPolicy}]
  BY <1>1 DEF SeedSteps
<1>3. approval'[r] = asked
  BY <1>1 DEF SeedsIInv, SeedsTyped
<1>4. Sized(r)' /\ r \notin Seeds!running' /\ asked.step # "approve"
  BY <1>1, <1>3 DEF Sized, Seeds!running
<1> QED
  BY <1>1, <1>2, <1>4, AskedKeeps

\* An approval that reads the policy has a size within it, and within the schema's ceiling.
LEMMA PolicyKeeps ==
  ASSUME SeedsIInv, NEW r \in Approval, Seeds!foresightSeedPolicy(r)
  PROVE  SeedsIInv'
PROOF
<1>1. /\ approval[r].step = "idle" /\ UNCHANGED <<draftStatus, house_seeds, day, tx>>
      /\ overlapped' = (overlapped \/ Seeds!running # {})
  BY DEF Seeds!foresightSeedPolicy
<1>2. overlapped' \in BOOLEAN /\ (overlapped => overlapped')
      /\ (~ overlapped' => Seeds!running = {})
  BY <1>1 DEF SeedsIInv, SeedsTyped
<1>3. CASE Seeds!end(r, "refused")
  BY <1>1, <1>2, <1>3, EndKeeps
<1>4. CASE \E n \in Sizes, p \in Policies, m \in SeedMarket :
             /\ Seeds!sizeAllowed(n) /\ p # NoPolicy
             /\ approval' = [approval EXCEPT ![r] =
                  [step |-> "caps", market |-> m, amount |-> n, policy |-> p]]
  <2>1. PICK n \in Sizes, p \in Policies, m \in SeedMarket :
             /\ Seeds!sizeAllowed(n) /\ p # NoPolicy
             /\ approval' = [approval EXCEPT ![r] =
                  [step |-> "caps", market |-> m, amount |-> n, policy |-> p]]
    BY <1>4
  <2>2. PICK asked : /\ asked = [step |-> "caps", market |-> m, amount |-> n, policy |-> p]
                     /\ approval' = [approval EXCEPT ![r] = asked]
    BY <2>1
  <2>3. asked \in [step : SeedSteps \ {"inTx"}, market : SeedMarket \cup {"none"},
                   amount : Sizes \cup {0}, policy : Policies \cup {NoPolicy}]
    BY <2>2 DEF SeedSteps
  <2>4. approval'[r] = asked
    BY <2>2 DEF SeedsIInv, SeedsTyped
  <2>5. Sized(r)'
    BY <2>1, <2>2, <2>4 DEF Sized, Seeds!sizeAllowed
  <2>6. asked.step # "approve"
    BY <2>2
  <2> QED
    BY <1>1, <1>2, <2>2, <2>3, <2>5, <2>6, AskedKeeps
<1>5. Seeds!end(r, "refused") \/ \E n \in Sizes, p \in Policies, m \in SeedMarket :
             /\ Seeds!sizeAllowed(n) /\ p # NoPolicy
             /\ approval' = [approval EXCEPT ![r] =
                  [step |-> "caps", market |-> m, amount |-> n, policy |-> p]]
  <2>1. PICK n \in Sizes, p \in Policies :
             IF ~ Seeds!sizeAllowed(n) \/ (IF p = NoPolicy THEN TRUE ELSE n > p.perMarketWei)
             THEN Seeds!end(r, "refused")
             ELSE \E m \in SeedMarket : approval' = [approval EXCEPT ![r] =
                    [step |-> "caps", market |-> m, amount |-> n, policy |-> p]]
    BY DEF Seeds!foresightSeedPolicy
  <2>2. CASE ~ Seeds!sizeAllowed(n) \/ p = NoPolicy
    BY <2>1, <2>2
  <2>3. CASE Seeds!sizeAllowed(n) /\ p # NoPolicy
    BY <2>1, <2>3
  <2> QED
    BY <2>2, <2>3
<1> QED
  BY <1>3, <1>4, <1>5

\* An approval that reads the day's total finds that its own amount fits.
LEMMA CapsKeeps ==
  ASSUME SeedsIInv, NEW r \in Approval, Seeds!seedsPlannedTodayWei(r)
  PROVE  SeedsIInv'
PROOF
<1>1. approval[r].step = "caps" /\ UNCHANGED <<draftStatus, house_seeds, day, tx, overlapped>>
  BY DEF Seeds!seedsPlannedTodayWei
<1>2. CASE Seeds!end(r, "refused")
  BY <1>1, <1>2, EndKeeps DEF SeedsIInv, SeedsTyped
<1>3. CASE /\ Seeds!goto(r, "approve")
           /\ ~ (Seeds!amountOn(house_seeds, day) + approval[r].amount > approval[r].policy.perDayWei)
  <2>1. PICK was : was = approval[r] /\ was \in [step : SeedSteps, market : SeedMarket \cup {"none"},
                                  amount : Sizes \cup {0}, policy : Policies \cup {NoPolicy}]
    BY DEF SeedsIInv, SeedsTyped
  <2>2. PICK asked : /\ approval' = [approval EXCEPT ![r] = asked]
                     /\ asked = [step |-> "approve", market |-> was.market, amount |-> was.amount,
                                 policy |-> was.policy]
    <3>1. [was EXCEPT !.step = "approve"]
            = [step |-> "approve", market |-> was.market, amount |-> was.amount,
               policy |-> was.policy]
      BY <2>1
    <3>2. approval' = [approval EXCEPT ![r] = [was EXCEPT !.step = "approve"]]
      BY <1>3, <2>1 DEF Seeds!goto
    <3> QED
      BY <3>1, <3>2
  <2>3. asked \in [step : SeedSteps \ {"inTx"}, market : SeedMarket \cup {"none"},
                   amount : Sizes \cup {0}, policy : Policies \cup {NoPolicy}]
    BY <2>1, <2>2 DEF SeedSteps
  <2>4. approval'[r] = asked
    BY <2>2 DEF SeedsIInv, SeedsTyped
  <2>5. Sized(r)'
    BY <1>1, <2>1, <2>2, <2>4 DEF Sized, SeedsIInv, SeedsTyped
  <2>6. ~ overlapped' => Seeds!running \subseteq {r}
    BY <1>1 DEF SeedsIInv, OneByOne, Seeds!running
  <2>7. FitsOn(day, r)'
    <3>1. PICK n \in Nat, d \in Nat, c \in Nat :
             /\ n = Seeds!amountOn(house_seeds, day) /\ d = was.amount /\ c = was.policy.perDayWei
      <4>1. was.amount \in Sizes /\ was.policy \in Policies \ {NoPolicy}
        BY <1>1, <2>1 DEF SeedsIInv, SeedsTyped, Sized
      <4> QED
        BY <4>1, Ceilings, DayTotalIsNat DEF SeedsIInv, SeedRows
    <3>2. n + d <= c
      BY <1>3, <2>1, <3>1
    <3> QED
      BY <1>1, <2>2, <2>4, <3>1, <3>2 DEF FitsOn, Seeds!amountOn
  <2> QED
    BY <1>1, <2>2, <2>3, <2>5, <2>6, <2>7, AskedKeeps DEF SeedsIInv, SeedsTyped
<1> QED
  BY <1>2, <1>3 DEF Seeds!seedsPlannedTodayWei

\* The row is written of a draft that nobody else has, for a day that can still take it.
LEMMA SeedApprovalKeeps ==
  ASSUME SeedsIInv, NEW r \in Approval, Seeds!approveMarket(r)
  PROVE  SeedsIInv'
PROOF
<1>1. /\ approval[r].step = "approve" /\ ~ Seeds!locked(approval[r].market)
      /\ UNCHANGED <<draftStatus, house_seeds, day, overlapped>>
  BY DEF Seeds!approveMarket
<1>2. CASE Seeds!end(r, "refused") /\ tx' = tx
  BY <1>1, <1>2, EndKeeps DEF SeedsIInv, SeedsTyped
<1>3. CASE /\ draftStatus[approval[r].market] = "draft"
           /\ Seeds!house_seeds_daily_ceiling(approval[r].amount)
           /\ Seeds!goto(r, "inTx")
           /\ tx' = tx \cup {[by |-> r, market |-> approval[r].market,
                              amount |-> approval[r].amount, day |-> day]}
  <2>1. PICK was : was = approval[r] /\ was \in [step : SeedSteps, market : SeedMarket \cup {"none"},
                                  amount : Sizes \cup {0}, policy : Policies \cup {NoPolicy}]
    BY DEF SeedsIInv, SeedsTyped
  <2>2. PICK asked : /\ approval' = [approval EXCEPT ![r] = asked]
                     /\ asked = [step |-> "inTx", market |-> was.market, amount |-> was.amount,
                                 policy |-> was.policy]
    <3>1. [was EXCEPT !.step = "inTx"]
            = [step |-> "inTx", market |-> was.market, amount |-> was.amount, policy |-> was.policy]
      BY <2>1
    <3>2. approval' = [approval EXCEPT ![r] = [was EXCEPT !.step = "inTx"]]
      BY <1>3, <2>1 DEF Seeds!goto
    <3> QED
      BY <3>1, <3>2
  <2>3. approval'[r] = asked /\ \A q \in Approval : q # r => approval'[q] = approval[q]
    BY <2>2 DEF SeedsIInv, SeedsTyped
  <2>4. PICK x : /\ x = [by |-> r, market |-> was.market, amount |-> was.amount, day |-> day]
                 /\ tx' = tx \cup {x}
    BY <1>3, <2>1
  <2>5. /\ was.market \in SeedMarket /\ was.amount \in Sizes
        /\ was.amount <= SEED_PER_MARKET_CEILING_WEI /\ was.policy \in Policies \ {NoPolicy}
    BY <1>1, <2>1 DEF SeedsIInv, SeedsTyped, Sized
  <2>6. SeedsTyped'
    <3>1. asked \in [step : SeedSteps, market : SeedMarket \cup {"none"},
                     amount : Sizes \cup {0}, policy : Policies \cup {NoPolicy}]
      BY <2>1, <2>2 DEF SeedSteps
    <3>2. approval' \in [Approval -> [step : SeedSteps, market : SeedMarket \cup {"none"},
                                    amount : Sizes \cup {0}, policy : Policies \cup {NoPolicy}]]
      BY <2>2, <3>1 DEF SeedsIInv, SeedsTyped
    <3>3. \A q \in Approval : Sized(q)'
      BY <2>2, <2>3, <2>5 DEF SeedsIInv, SeedsTyped, Sized
    <3> QED
      BY <1>1, <3>2, <3>3 DEF SeedsIInv, SeedsTyped
  <2>7. SeedRows'
    BY <1>1 DEF SeedsIInv, SeedRows
  <2>8. \A s \in tx : s.by # r /\ s.market # x.market /\ approval'[s.by] = approval[s.by]
    BY <1>1, <2>1, <2>3, <2>4 DEF SeedsIInv, OpenRows, Seeds!locked
  <2>9. day \in Nat
    BY Ceilings DEF SeedsIInv, SeedsTyped
  <2>10. OpenRows'
    <3>1. /\ x = [by |-> x.by, market |-> x.market, amount |-> x.amount, day |-> x.day]
          /\ x.by = r /\ approval'[x.by].step = "inTx"
          /\ x.market = approval'[x.by].market /\ x.amount = approval'[x.by].amount
          /\ x.day \in Nat /\ x.day <= day /\ draftStatus[x.market] = "draft"
      BY <1>3, <2>1, <2>2, <2>3, <2>4, <2>9
    <3>2. \A s \in tx' : s.by = x.by \/ s.market = x.market => s = x
      BY <2>4, <2>8, <3>1
    <3>3. \A s \in tx' :
            /\ s = [by |-> s.by, market |-> s.market, amount |-> s.amount, day |-> s.day]
            /\ s.by \in Approval /\ approval'[s.by].step = "inTx"
            /\ s.market = approval'[s.by].market /\ s.amount = approval'[s.by].amount
            /\ s.day \in Nat /\ s.day <= day' /\ draftStatus'[s.market] = "draft"
      BY <1>1, <2>4, <2>8, <3>1 DEF SeedsIInv, OpenRows
    <3>4. \A s, t \in tx' : s.by = t.by \/ s.market = t.market => s = t
      BY <2>4, <3>2 DEF SeedsIInv, OpenRows
    <3>5. \A q \in Approval : approval'[q].step = "inTx" => \E s \in tx' : s.by = q
      BY <2>3, <2>4, <3>1 DEF SeedsIInv, OpenRows
    <3> QED
      BY <3>3, <3>4, <3>5 DEF OpenRows
  <2>11. OneByOne'
    <3> SUFFICES ASSUME ~ overlapped
                 PROVE  /\ \A p, q \in Seeds!running' : p = q
                        /\ \A d \in Nat : Seeds!amountOn(house_seeds, d) <= SEED_PER_DAY_CEILING_WEI
                        /\ \A q \in Approval : approval'[q].step = "approve" => FitsOn(day, q)'
                        /\ \A s \in tx' :
                             /\ FitsOn(s.day, s.by)'
                             /\ Seeds!amountOn(house_seeds, s.day) + s.amount
                                  <= SEED_PER_DAY_CEILING_WEI
      BY <1>1 DEF OneByOne, Seeds!amountOn
    <3>1. OneByOne
      BY DEF SeedsIInv
    <3>2. \A p, q \in Seeds!running' : p = q
      <4>1. Seeds!running' \subseteq Seeds!running
        BY <1>1, <2>3 DEF Seeds!running
      <4> QED
        BY <3>1, <4>1 DEF OneByOne
    <3>3. \A q \in Approval : approval'[q].step = "approve" => FitsOn(day, q)'
      BY <1>1, <2>2, <2>3, <3>1 DEF OneByOne, FitsOn, Seeds!amountOn
    <3>4. \A s \in tx : FitsOn(s.day, s.by)'
      BY <1>1, <2>8, <3>1 DEF OneByOne, FitsOn, Seeds!amountOn
    <3>5. FitsOn(x.day, x.by)'
      <4>1. FitsOn(day, r)
        BY <1>1, <3>1 DEF OneByOne
      <4>2. approval'[r].amount = approval[r].amount /\ approval'[r].policy = approval[r].policy
        BY <2>1, <2>2, <2>3
      <4>3. x.day = day /\ x.by = r
        BY <2>4
      <4> QED
        BY <1>1, <4>1, <4>2, <4>3 DEF FitsOn, Seeds!amountOn
    <3>6. Seeds!amountOn(house_seeds, x.day) + x.amount <= SEED_PER_DAY_CEILING_WEI
      BY <1>3, <2>1, <2>4 DEF Seeds!house_seeds_daily_ceiling
    <3> QED
      BY <2>4, <3>1, <3>2, <3>3, <3>4, <3>5, <3>6 DEF OneByOne
  <2> QED
    BY <2>6, <2>7, <2>10, <2>11 DEF SeedsIInv
<1> QED
  BY <1>2, <1>3 DEF Seeds!approveMarket

\* Approval r is no longer in its transaction, and its row is not open.
LEMMA LeavesTx ==
  ASSUME SeedsIInv, NEW r \in Approval, NEW how \in {"done", "lost"}, Seeds!end(r, how),
         NEW x \in tx, x.by = r, tx' = tx \ {x}, UNCHANGED <<day, overlapped>>
  PROVE  /\ approval' \in [Approval -> [step : SeedSteps, market : SeedMarket \cup {"none"},
                                        amount : Sizes \cup {0}, policy : Policies \cup {NoPolicy}]]
         /\ \A q \in Approval : Sized(q)'
         /\ \A q \in Approval : q # r => approval'[q] = approval[q]
         /\ approval'[r].step = how
         /\ \A s \in tx' : s \in tx /\ s.by # r /\ s.market # x.market /\ approval'[s.by] = approval[s.by]
         /\ ~ overlapped => Seeds!running = {r} /\ Seeds!running' = {} /\ tx' = {}
PROOF
<1>1. PICK asked : /\ approval' = [approval EXCEPT ![r] = asked]
                   /\ asked = [step |-> how, market |-> "none", amount |-> 0, policy |-> NoPolicy]
  <2>1. [Seeds!Idle EXCEPT !.step = how]
          = [step |-> how, market |-> "none", amount |-> 0, policy |-> NoPolicy]
    BY DEF Seeds!Idle
  <2> QED
    BY <2>1 DEF Seeds!end
<1>2. approval'[r] = asked /\ \A q \in Approval : q # r => approval'[q] = approval[q]
  BY <1>1 DEF SeedsIInv, SeedsTyped
<1>3. asked \in [step : SeedSteps, market : SeedMarket \cup {"none"},
                 amount : Sizes \cup {0}, policy : Policies \cup {NoPolicy}]
  BY <1>1 DEF SeedSteps
<1>4. \A q \in Approval : Sized(q)'
  BY <1>1, <1>2 DEF SeedsIInv, SeedsTyped, Sized
<1>5. \A s \in tx' : s \in tx /\ s.by # r /\ s.market # x.market /\ s.by \in Approval
  BY DEF SeedsIInv, OpenRows
<1>6. ASSUME ~ overlapped
      PROVE  Seeds!running = {r} /\ Seeds!running' = {} /\ tx' = {}
  <2>1. r \in Seeds!running
    BY DEF SeedsIInv, OpenRows, Seeds!running
  <2>2. Seeds!running = {r}
    BY <1>6, <2>1 DEF SeedsIInv, OneByOne
  <2>3. Seeds!running' = {}
    BY <1>1, <1>2, <2>2 DEF Seeds!running
  <2>4. \A s \in tx : s.by = r
    BY <2>2 DEF SeedsIInv, OpenRows, Seeds!running
  <2> QED
    BY <1>5, <2>2, <2>3, <2>4
<1> QED
  BY <1>1, <1>2, <1>3, <1>4, <1>5, <1>6 DEF SeedsIInv, SeedsTyped

\* What was written becomes a row, and the market approved.
LEMMA CommitKeeps ==
  ASSUME SeedsIInv, NEW r \in Approval, Seeds!commit(r)
  PROVE  SeedsIInv'
PROOF
<1>1. PICK x : /\ x = Seeds!written(r) /\ x \in tx /\ x.by = r
  <2>1. \E s \in tx : s.by = r
    BY DEF Seeds!commit, SeedsIInv, OpenRows
  <2> QED
    BY <2>1 DEF Seeds!written
<1>2. PICK row : /\ row = [market |-> x.market, amount |-> x.amount, day |-> x.day]
                 /\ house_seeds' = house_seeds \cup {row}
  BY <1>1 DEF Seeds!commit
<1>3. /\ draftStatus' = [draftStatus EXCEPT ![x.market] = "approved"]
      /\ tx' = tx \ {x} /\ Seeds!end(r, "done") /\ UNCHANGED <<day, overlapped>>
  BY <1>1 DEF Seeds!commit
<1>4. /\ approval' \in [Approval -> [step : SeedSteps, market : SeedMarket \cup {"none"},
                                     amount : Sizes \cup {0}, policy : Policies \cup {NoPolicy}]]
      /\ \A q \in Approval : Sized(q)'
      /\ \A q \in Approval : q # r => approval'[q] = approval[q]
      /\ approval'[r].step = "done"
      /\ \A s \in tx' : s \in tx /\ s.by # r /\ s.market # x.market /\ approval'[s.by] = approval[s.by]
      /\ ~ overlapped => Seeds!running = {r} /\ Seeds!running' = {} /\ tx' = {}
  BY <1>1, <1>3, LeavesTx
<1>5. /\ approval[r].step = "inTx" /\ x.market = approval[r].market /\ x.amount = approval[r].amount
      /\ x.day \in Nat /\ x.day <= day /\ draftStatus[x.market] = "draft"
  BY <1>1 DEF SeedsIInv, OpenRows
<1>6. x.market \in SeedMarket /\ x.amount \in Sizes /\ x.amount <= SEED_PER_MARKET_CEILING_WEI
  BY <1>5 DEF SeedsIInv, SeedsTyped, Sized
<1>7. /\ draftStatus'[x.market] = "approved"
      /\ \A m \in SeedMarket : m # x.market => draftStatus'[m] = draftStatus[m]
      /\ draftStatus' \in [SeedMarket -> {"draft", "approved"}]
  BY <1>3, <1>6 DEF SeedsIInv, SeedsTyped
<1>8. SeedsTyped'
  BY <1>3, <1>4, <1>7 DEF SeedsIInv, SeedsTyped
<1>9. row \in Seed /\ row.market = x.market /\ row.amount = x.amount /\ row.day = x.day
  BY <1>2, <1>5, <1>6 DEF Seed
<1>10. \A s \in house_seeds : s.market \in SeedMarket /\ s.market # row.market
  BY <1>5, <1>9 DEF SeedsIInv, SeedRows, Seed
<1>11. SeedRows'
  <2>1. house_seeds' \subseteq Seed /\ IsFiniteSet(house_seeds')
    <3>1. IsFiniteSet(house_seeds \cup {row})
      BY FS_AddElement DEF SeedsIInv, SeedRows
    <3> QED
      BY <1>2, <1>9, <3>1 DEF SeedsIInv, SeedRows
  <2>2. \A s \in house_seeds' : /\ s.day <= day /\ s.amount <= SEED_PER_MARKET_CEILING_WEI
                                /\ draftStatus'[s.market] = "approved"
    BY <1>2, <1>5, <1>6, <1>7, <1>9, <1>10 DEF SeedsIInv, SeedRows
  <2>3. \A s, t \in house_seeds' : s.market = t.market => s = t
    BY <1>2, <1>10 DEF SeedsIInv, SeedRows
  <2> QED
    BY <1>3, <2>1, <2>2, <2>3 DEF SeedRows
<1>12. OpenRows'
  <2>1. \A s \in tx' : draftStatus'[s.market] = "draft"
    <3>1. \A s \in tx : s.market \in SeedMarket /\ draftStatus[s.market] = "draft"
      BY DEF SeedsIInv, SeedsTyped, OpenRows, Sized
    <3> QED
      BY <1>4, <1>7, <3>1
  <2>2. \A q \in Approval : approval'[q].step = "inTx" => \E s \in tx' : s.by = q
    BY <1>1, <1>3, <1>4 DEF SeedsIInv, OpenRows
  <2> QED
    BY <1>3, <1>4, <2>1, <2>2 DEF SeedsIInv, OpenRows
<1>13. OneByOne'
  <2> SUFFICES ASSUME ~ overlapped
               PROVE  /\ \A p, q \in Seeds!running' : p = q
                      /\ \A d \in Nat : Seeds!amountOn(house_seeds', d) <= SEED_PER_DAY_CEILING_WEI
                      /\ \A q \in Approval : approval'[q].step # "approve"
                      /\ tx' = {}
    BY <1>3 DEF OneByOne, Seeds!amountOn
  <2>1. \A q \in Approval : approval'[q].step # "approve"
    BY <1>4 DEF Seeds!running
  <2>2. ASSUME NEW d \in Nat
        PROVE  Seeds!amountOn(house_seeds', d) <= SEED_PER_DAY_CEILING_WEI
    <3>1. house_seeds \in SUBSET Seed /\ IsFiniteSet(house_seeds)
      BY DEF SeedsIInv, SeedRows
    <3>2. /\ Seeds!amountOn(house_seeds, d) <= SEED_PER_DAY_CEILING_WEI
          /\ Seeds!amountOn(house_seeds, row.day) + row.amount <= SEED_PER_DAY_CEILING_WEI
      BY <1>1, <1>9 DEF SeedsIInv, OneByOne
    <3>3. /\ d # row.day => Seeds!amountOn(house_seeds \cup {row}, d) = Seeds!amountOn(house_seeds, d)
          /\ Seeds!amountOn(house_seeds \cup {row}, row.day)
               <= Seeds!amountOn(house_seeds, row.day) + row.amount
      BY <1>9, <3>1, DayTotalAdds
    <3>4. PICK more : more = house_seeds' /\ more = house_seeds \cup {row}
      BY <1>2
    <3>5. CASE d # row.day
      BY <3>2, <3>3, <3>4, <3>5
    <3>6. CASE d = row.day
      <4>1. more \in SUBSET Seed /\ IsFiniteSet(more)
        BY <1>11, <3>4 DEF SeedRows
      <4>2. PICK a \in Nat, b \in Nat, n \in Nat :
               /\ a = Seeds!amountOn(more, d) /\ b = Seeds!amountOn(house_seeds, d) /\ n = row.amount
        BY <1>6, <1>9, <3>1, <4>1, DayTotalIsNat, Ceilings
      <4>3. a <= b + n /\ b + n <= SEED_PER_DAY_CEILING_WEI
        BY <3>2, <3>3, <3>4, <3>6, <4>2
      <4>4. a <= SEED_PER_DAY_CEILING_WEI
        BY <4>2, <4>3, Ceilings
      <4> QED
        BY <3>4, <4>2, <4>4
    <3> QED
      BY <3>5, <3>6
  <2> QED
    BY <1>4, <2>1, <2>2
<1> QED
  BY <1>8, <1>11, <1>12, <1>13 DEF SeedsIInv

\* A transaction that is rolled back never was.
LEMMA RollbackKeeps ==
  ASSUME SeedsIInv, NEW r \in Approval, Seeds!rollback(r)
  PROVE  SeedsIInv'
PROOF
<1>1. /\ tx' = {s \in tx : s.by # r} /\ Seeds!end(r, "lost")
      /\ UNCHANGED <<draftStatus, house_seeds, day, overlapped>>
  BY DEF Seeds!rollback
<1>2. CASE approval[r].step # "inTx"
  <2>1. tx' = tx
    BY <1>1, <1>2 DEF SeedsIInv, OpenRows
  <2> QED
    BY <1>1, <1>2, <2>1, EndKeeps DEF SeedsIInv, SeedsTyped
<1>3. CASE approval[r].step = "inTx"
  <2>1. PICK x \in tx : x.by = r
    BY <1>3 DEF SeedsIInv, OpenRows
  <2>2. tx' = tx \ {x}
    BY <1>1, <2>1 DEF SeedsIInv, OpenRows
  <2>3. /\ approval' \in [Approval -> [step : SeedSteps, market : SeedMarket \cup {"none"},
                                       amount : Sizes \cup {0}, policy : Policies \cup {NoPolicy}]]
        /\ \A q \in Approval : Sized(q)'
        /\ \A q \in Approval : q # r => approval'[q] = approval[q]
        /\ approval'[r].step = "lost"
        /\ \A s \in tx' : s \in tx /\ s.by # r /\ s.market # x.market
                          /\ approval'[s.by] = approval[s.by]
        /\ ~ overlapped => Seeds!running = {r} /\ Seeds!running' = {} /\ tx' = {}
    BY <1>1, <2>1, <2>2, LeavesTx
  <2>4. SeedsTyped' /\ SeedRows'
    BY <1>1, <2>3 DEF SeedsIInv, SeedsTyped, SeedRows
  <2>5. OpenRows'
    <3>1. \A q \in Approval : approval'[q].step = "inTx" => \E s \in tx' : s.by = q
      BY <2>1, <2>2, <2>3 DEF SeedsIInv, OpenRows
    <3> QED
      BY <1>1, <2>3, <3>1 DEF SeedsIInv, OpenRows
  <2>6. OneByOne'
    <3> SUFFICES ASSUME ~ overlapped
                 PROVE  /\ \A p, q \in Seeds!running' : p = q
                        /\ \A d \in Nat : Seeds!amountOn(house_seeds, d) <= SEED_PER_DAY_CEILING_WEI
                        /\ \A q \in Approval : approval'[q].step # "approve"
                        /\ tx' = {}
      BY <1>1 DEF OneByOne, Seeds!amountOn
    <3>1. \A q \in Approval : approval'[q].step # "approve"
      BY <2>3 DEF Seeds!running
    <3> QED
      BY <2>3, <3>1 DEF SeedsIInv, OneByOne
  <2> QED
    BY <2>4, <2>5, <2>6 DEF SeedsIInv
<1> QED
  BY <1>2, <1>3

\* A new day has no rows yet.
LEMMA MidnightKeeps == ASSUME SeedsIInv, Seeds!midnight PROVE SeedsIInv'
PROOF
<1>1. /\ day < MaxSeedDay /\ day' = day + 1
      /\ UNCHANGED <<draftStatus, house_seeds, approval, tx, overlapped>>
  BY DEF Seeds!midnight
<1>2. day \in Nat /\ day' \in 0..MaxSeedDay
  BY <1>1, Ceilings DEF SeedsIInv, SeedsTyped
<1>3. SeedsTyped'
  BY <1>1, <1>2 DEF SeedsIInv, SeedsTyped, Sized
<1>4. \A s \in house_seeds : s.day \in Nat /\ s.day <= day
  BY DEF SeedsIInv, SeedRows, Seed
<1>5. SeedRows'
  BY <1>1, <1>2, <1>4 DEF SeedsIInv, SeedRows
<1>6. \A s \in tx : s.day \in Nat /\ s.day <= day'
  BY <1>1, <1>2 DEF SeedsIInv, OpenRows
<1>7. OpenRows'
  BY <1>1, <1>6 DEF SeedsIInv, OpenRows
<1>8. OneByOne'
  <2> SUFFICES ASSUME ~ overlapped, NEW r \in Approval, approval[r].step = "approve"
               PROVE  Seeds!amountOn(house_seeds, day + 1) + approval[r].amount
                        <= approval[r].policy.perDayWei
    BY <1>1 DEF SeedsIInv, OneByOne, FitsOn, Seeds!amountOn, Seeds!running
  <2>1. \A s \in house_seeds : s.day # day + 1
    BY <1>2, <1>4
  <2>2. house_seeds \in SUBSET Seed /\ IsFiniteSet(house_seeds)
    BY DEF SeedsIInv, SeedRows
  <2>3. PICK a \in Nat, n \in Nat, c \in Nat :
           /\ a = Seeds!amountOn(house_seeds, day) /\ n = approval[r].amount
           /\ c = approval[r].policy.perDayWei
    BY <2>2, DayTotalIsNat, Ceilings DEF SeedsIInv, SeedsTyped, Sized
  <2>4. a + n <= c
    BY <2>3 DEF SeedsIInv, OneByOne, FitsOn
  <2>5. Seeds!amountOn(house_seeds, day + 1) = 0
    BY <2>1, <2>2, DayTotalIsNat
  <2>6. 0 + n <= c
    BY <2>3, <2>4
  <2> QED
    BY <2>3, <2>5, <2>6
<1> QED
  BY <1>3, <1>5, <1>7, <1>8 DEF SeedsIInv

\* Every step of the seeds keeps their invariant.
LEMMA SeedsStepKeeps == SeedsIInv /\ [Seeds!Next]_(Seeds!vars) => SeedsIInv'
PROOF
<1> SUFFICES ASSUME SeedsIInv, [Seeds!Next]_(Seeds!vars)
             PROVE  SeedsIInv'
  OBVIOUS
<1>1. CASE UNCHANGED Seeds!vars
  BY <1>1 DEF Seeds!vars, SeedsIInv, SeedsTyped, Sized, SeedRows, OpenRows, OneByOne, FitsOn,
              Seeds!amountOn, Seeds!running
<1>2. CASE Seeds!Next
  BY <1>2, PolicyKeeps, CapsKeeps, SeedApprovalKeeps, CommitKeeps, RollbackKeeps, MidnightKeeps
  DEF Seeds!Next
<1> QED
  BY <1>1, <1>2

\* approve with a seed: approvals that do not overlap keep every cap, the schema's and the
\* policy's, for any sizes, ceilings, policies, days and numbers of approvals.
THEOREM SeedsFit == Spec => []UncontendedSeedsFit
PROOF
<1>1. Init => SeedsIInv
  BY SeedsInitially DEF Init
<1>2. SeedsIInv /\ [Next]_vars => SeedsIInv'
  BY SeedsStepKeeps, StepOfSeeds
<1>3. SeedsIInv => UncontendedSeedsFit
  <2> SUFFICES ASSUME SeedsIInv, ~ overlapped
               PROVE  /\ \A d \in 0..day : Seeds!amountOn(house_seeds, d) <= SEED_PER_DAY_CEILING_WEI
                      /\ \A s \in house_seeds : s.amount <= SEED_PER_MARKET_CEILING_WEI
                      /\ \A s \in tx : Seeds!amountOn(house_seeds, s.day) + s.amount
                                         <= approval[s.by].policy.perDayWei
    BY DEF UncontendedSeedsFit, Seeds!UncontendedSeedsFit
  <2>1. \A d \in 0..day : d \in Nat
    BY Ceilings DEF SeedsIInv, SeedsTyped
  <2> QED
    BY <2>1 DEF SeedsIInv, OneByOne, SeedRows, OpenRows, FitsOn
<1> QED
  BY <1>1, <1>2, <1>3, PTL DEF Spec

------------------------------------------------------------------------------
(* Proposals and their documents.                                          *)

Trimmed == {Ideas!trim(t) : t \in Text}
IdeaRows == [status : {"proposed", "approved", "discarded"}, text : Trimmed,
             origin : {"model", "operator"}, sources : SUBSET Source,
             by : Operator \cup {None}, refusal : REFUSALS \cup {None}]
QuestionRows == [status : {"draft", "approved"}, idea : Idea \cup {None}, text : Trimmed,
                 hash : {Ideas!hashed(t) : t \in Text}]
Asked == [text : Text, origin : {"model"}, sources : SUBSET Source]

\* The text is of a category, and of its kind, and says something.
Askable(t) == Ideas!isSourceKindFor(t.category, t.kind) /\ t.words \notin Vague

\* A row that keeps the CHECKs, and could be approved.
SoundRow(r) ==
  /\ r \in IdeaRows /\ Askable(r.text)
  /\ r.origin = "model" => r.sources # {}
  /\ r.status # "proposed" => r.by \in Operator
  /\ r.status = "discarded" => r.refusal \in REFUSALS

Queue ==
  /\ ideas = [i \in Idea |-> ideas[i]]
  /\ \A i \in Idea : Ideas!stored(i) => SoundRow(ideas[i])

\* What an operator is to write is fit for a row, and so is the row it is for.
EditIsSound(e) == /\ e = [idea |-> e.idea, text |-> e.text]
                  /\ e.idea \in Idea /\ SoundRow(ideas[e.idea])
                  /\ e.text \in Trimmed /\ Askable(e.text)
Edits ==
  /\ editing = [o \in Operator |-> editing[o]]
  /\ \A o \in Operator : editing[o] # None => EditIsSound(editing[o])

RunTyped ==
  /\ run = [topic |-> run.topic, asked |-> run.asked, left |-> run.left, started |-> run.started]
  /\ run.topic \in 0 .. PROPOSAL_TOPICS
  /\ run.left \in Seq(Asked) /\ Len(run.left) <= Count

Questions ==
  /\ questions = [m \in IdeaMarket |-> questions[m]]
  /\ \A m \in IdeaMarket : questions[m] # None =>
       /\ questions[m] \in QuestionRows
       /\ Ideas!questionHash(Ideas!document(questions[m].text)) = questions[m].hash

IdeasIInv == Queue /\ Edits /\ RunTyped /\ Questions

\* The rows stay what was decided of them.
RowsStand ==
  \A i \in Idea : Ideas!stored(i) =>
    /\ ideas'[i].origin = ideas[i].origin /\ ideas'[i].sources = ideas[i].sources
    /\ Ideas!decided(i) => ideas'[i] = ideas[i]

\* A text without its white space has the words, category and kind it had.
LEMMA TrimKeeps ==
  ASSUME NEW t \in Text
  PROVE  /\ Ideas!trim(t) \in Trimmed
         /\ Ideas!trim(t).words = t.words /\ Ideas!trim(t).category = t.category
         /\ Ideas!trim(t).kind = t.kind
PROOF
<1>1. t = [words |-> t.words, spaces |-> t.spaces, category |-> t.category, kind |-> t.kind,
           close |-> t.close]
  BY ServiceAssumption DEF ServiceAssumption, Ideas!ProposalsAssumption
<1>2. PICK u : u = [t EXCEPT !.spaces = FALSE]
  OBVIOUS
<1>3. u.words = t.words /\ u.category = t.category /\ u.kind = t.kind
  BY <1>1, <1>2
<1>4. u = Ideas!trim(t)
  BY <1>2 DEF Ideas!trim
<1> QED
  BY <1>3, <1>4 DEF Trimmed

\* One row becomes r, and no edit that was not there is there.
LEMMA RowBecomes ==
  ASSUME Queue, Edits, NEW x \in Idea, NEW r, SoundRow(r), ideas' = [ideas EXCEPT ![x] = r],
         editing' = [o \in Operator |-> editing'[o]],
         \A o \in Operator : editing'[o] = None \/ editing'[o] = editing[o],
         Ideas!stored(x) => r.origin = ideas[x].origin /\ r.sources = ideas[x].sources,
         Ideas!decided(x) => r = ideas[x]
  PROVE  Queue' /\ Edits' /\ RowsStand
PROOF
<1>1. ideas' = [i \in Idea |-> IF i = x THEN r ELSE ideas[i]]
  BY DEF Queue
<1>2. ideas'[x] = r /\ \A i \in Idea \ {x} : ideas'[i] = ideas[i]
  BY <1>1
<1>3. ideas' = [i \in Idea |-> ideas'[i]]
  BY <1>1
<1>4. Queue'
  BY <1>2, <1>3 DEF Queue, Ideas!stored
<1>5. ASSUME NEW o \in Operator, editing'[o] # None
      PROVE  EditIsSound(editing[o])'
  <2>1. editing'[o] = editing[o] /\ EditIsSound(editing[o])
    BY <1>5 DEF Edits
  <2>2. SoundRow(ideas'[editing[o].idea])
    BY <1>2, <2>1 DEF EditIsSound
  <2> QED
    BY <2>1, <2>2 DEF EditIsSound
<1>6. Edits'
  BY <1>5 DEF Edits
<1>7. RowsStand
  BY <1>2 DEF RowsStand
<1> QED
  BY <1>4, <1>6, <1>7

\* A proposal that is stored is a row of its own.
LEMMA Inserted ==
  ASSUME Queue, Edits, NEW p \in [text : Text, origin : {"model", "operator"}, sources : SUBSET Source],
         Ideas!insertIdea(p), UNCHANGED editing
  PROVE  Queue' /\ Edits' /\ RowsStand
PROOF
<1>1. PICK i \in Idea :
        /\ ~ Ideas!stored(i)
        /\ ideas' = [ideas EXCEPT ![i] = [status |-> "proposed", text |-> Ideas!trim(p.text),
             origin |-> p.origin, sources |-> p.sources, by |-> None, refusal |-> None]]
  BY DEF Ideas!insertIdea
<1>2. PICK r : r = [status |-> "proposed", text |-> Ideas!trim(p.text),
             origin |-> p.origin, sources |-> p.sources, by |-> None, refusal |-> None]
  OBVIOUS
<1>3. /\ p.text.words \notin Vague /\ Ideas!isSourceKindFor(p.text.category, p.text.kind)
      /\ p.origin = "model" => p.sources # {}
  BY DEF Ideas!insertIdea, Ideas!validateProposal
<1>4. Askable(Ideas!trim(p.text)) /\ Ideas!trim(p.text) \in Trimmed
  BY <1>3, TrimKeeps DEF Askable
<1>5. SoundRow(r)
  BY <1>2, <1>3, <1>4 DEF SoundRow, IdeaRows
<1>6. ideas' = [ideas EXCEPT ![i] = r] /\ ~ Ideas!decided(i)
  BY <1>1, <1>2 DEF Ideas!decided
<1>7. /\ editing' = [o \in Operator |-> editing'[o]]
      /\ \A o \in Operator : editing'[o] = editing[o]
  BY DEF Edits
<1> QED
  BY <1>1, <1>5, <1>6, <1>7, RowBecomes

\* The queue and the edits are left alone.
LEMMA QueueLeft ==
  ASSUME Queue, Edits, UNCHANGED <<ideas, editing>>
  PROVE  Queue' /\ Edits' /\ RowsStand
PROOF
  BY DEF Queue, Edits, RowsStand, Ideas!stored, SoundRow, EditIsSound

\* The steps of the pipeline that store nothing.
LEMMA RunKeeps ==
  ASSUME IdeasIInv,
         \/ Ideas!ideaPropose \/ Ideas!nextTopic \/ Ideas!runFails
         \/ \E sources \in SUBSET Source : \E candidates \in Ideas!BoundedSeq(Text, MaxAnswer) :
              Ideas!propose(sources, candidates)
  PROVE  RunTyped' /\ UNCHANGED <<ideas, editing, questions>>
PROOF
<1>1. /\ PROPOSAL_TOPICS \in Nat \ {0} /\ Count \in Nat
  BY ServiceAssumption DEF ServiceAssumption, Ideas!ProposalsAssumption
<1>2. <<>> \in Seq(Asked) /\ Len(<<>>) = 0
  OBVIOUS
<1>3. ASSUME run' = [topic |-> run'.topic, asked |-> run'.asked, left |-> run'.left,
                     started |-> run'.started],
             run'.topic \in 0 .. PROPOSAL_TOPICS, run'.left \in Seq(Asked), Len(run'.left) <= Count
      PROVE  RunTyped'
  BY <1>3 DEF RunTyped
<1>4. run.left \in Seq(Asked) /\ Len(run.left) <= Count
  BY DEF IdeasIInv, RunTyped
<1>5. ASSUME Ideas!ideaPropose
      PROVE  RunTyped'
  <2>1. run' = [topic |-> 1, asked |-> FALSE, left |-> <<>>, started |-> run.started + 1]
    BY <1>5 DEF Ideas!ideaPropose
  <2>2. run'.topic = 1 /\ run'.left = <<>>
        /\ run' = [topic |-> run'.topic, asked |-> run'.asked, left |-> run'.left,
                   started |-> run'.started]
    BY <2>1
  <2> QED
    BY <1>1, <1>2, <1>3, <2>2
<1>6. ASSUME Ideas!nextTopic
      PROVE  RunTyped'
  <2>1. PICK n : n = IF run.topic < PROPOSAL_TOPICS THEN run.topic + 1 ELSE 0
    OBVIOUS
  <2>2. n \in 0 .. PROPOSAL_TOPICS
    BY <1>1, <2>1 DEF IdeasIInv, RunTyped
  <2>3. run' = [run EXCEPT !.topic = n, !.asked = FALSE]
    BY <1>6, <2>1 DEF Ideas!nextTopic
  <2>4. run' = [topic |-> n, asked |-> FALSE, left |-> run.left, started |-> run.started]
    BY <2>3 DEF IdeasIInv, RunTyped
  <2>5. run'.topic = n /\ run'.left = run.left
        /\ run' = [topic |-> run'.topic, asked |-> run'.asked, left |-> run'.left,
                   started |-> run'.started]
    BY <2>4
  <2> QED
    BY <1>3, <1>4, <2>2, <2>5
<1>7. ASSUME Ideas!runFails
      PROVE  RunTyped'
  <2>1. run' = [topic |-> 0, asked |-> FALSE, left |-> <<>>, started |-> run.started]
    BY <1>7 DEF Ideas!runFails, IdeasIInv, RunTyped
  <2>2. run'.topic = 0 /\ run'.left = <<>>
        /\ run' = [topic |-> run'.topic, asked |-> run'.asked, left |-> run'.left,
                   started |-> run'.started]
    BY <2>1
  <2> QED
    BY <1>1, <1>2, <1>3, <2>2
<1>8. ASSUME NEW sources \in SUBSET Source, NEW candidates \in Ideas!BoundedSeq(Text, MaxAnswer),
             Ideas!propose(sources, candidates)
      PROVE  RunTyped'
  <2>1. PICK left : left = Ideas!proposals(sources, candidates)
    OBVIOUS
  <2>2. left \in Seq(Asked) /\ Len(left) <= Count
    <3>1. CASE sources = {}
      BY <1>1, <1>2, <2>1, <3>1 DEF Ideas!proposals
    <3>2. CASE sources # {}
      <4>1. PICK m \in 0 .. MaxAnswer : candidates \in [1 .. m -> Text]
        BY DEF Ideas!BoundedSeq, Ideas!SeqOf
      <4>2. MaxAnswer \in Nat
        BY ServiceAssumption DEF ServiceAssumption, Ideas!ProposalsAssumption
      <4>3. PICK k \in Nat : k = IF m <= Count THEN m ELSE Count
        BY <1>1, <4>1, <4>2
      <4>4. {n \in DOMAIN candidates : n <= Count} = 1 .. k
        BY <1>1, <4>1, <4>2, <4>3
      <4>5. left = [n \in 1 .. k |-> Ideas!toProposal(candidates[n], sources)]
        BY <2>1, <3>2, <4>4 DEF Ideas!proposals
      <4>6. k <= m /\ k <= Count
        BY <1>1, <4>1, <4>2, <4>3
      <4>7. \A n \in 1 .. k : candidates[n] \in Text
        BY <4>1, <4>2, <4>3, <4>6
      <4>8. \A n \in 1 .. k : Ideas!toProposal(candidates[n], sources) \in Asked
        BY <4>7 DEF Ideas!toProposal, Asked
      <4>9. left \in [1 .. k -> Asked]
        BY <4>5, <4>8
      <4>10. left \in Seq(Asked) /\ Len(left) = k
        BY <4>3, <4>9
      <4> QED
        BY <4>6, <4>10
    <3> QED
      BY <3>1, <3>2
  <2>3. run' = [run EXCEPT !.asked = TRUE, !.left = left]
    BY <1>8, <2>1 DEF Ideas!propose
  <2>4. run' = [topic |-> run.topic, asked |-> TRUE, left |-> left, started |-> run.started]
    BY <2>3 DEF IdeasIInv, RunTyped
  <2> QED
    <3>1. run.topic \in 0 .. PROPOSAL_TOPICS
      BY DEF IdeasIInv, RunTyped
    <3>2. run'.topic = run.topic /\ run'.left = left
          /\ run' = [topic |-> run'.topic, asked |-> run'.asked, left |-> run'.left,
                     started |-> run'.started]
      BY <2>4
    <3> QED
      BY <1>3, <2>2, <3>1, <3>2
<1>9. UNCHANGED <<ideas, editing, questions>>
  BY DEF Ideas!ideaPropose, Ideas!nextTopic, Ideas!runFails, Ideas!propose
<1> QED
  BY <1>5, <1>6, <1>7, <1>8, <1>9

\* A proposal of the machine's is stored as one, or dropped.
LEMMA StoreKeeps ==
  ASSUME IdeasIInv, Ideas!store
  PROVE  Queue' /\ Edits' /\ RowsStand /\ RunTyped' /\ UNCHANGED questions
PROOF
<1>1. PICK p : p = Head(run.left)
  OBVIOUS
<1>2. p \in Asked /\ Tail(run.left) \in Seq(Asked) /\ Len(Tail(run.left)) <= Count
  BY <1>1, ServiceAssumption
     DEF IdeasIInv, RunTyped, Ideas!store, ServiceAssumption, Ideas!ProposalsAssumption
<1>3. run' = [topic |-> run.topic, asked |-> run.asked, left |-> Tail(run.left),
              started |-> run.started]
  BY DEF IdeasIInv, RunTyped, Ideas!store
<1>4. RunTyped'
  BY <1>2, <1>3 DEF IdeasIInv, RunTyped
<1>5. p \in [text : Text, origin : {"model", "operator"}, sources : SUBSET Source]
  BY <1>2 DEF Asked
<1>6. Queue /\ Edits /\ UNCHANGED <<editing, questions>>
  BY DEF IdeasIInv, Ideas!store
<1>7. CASE Ideas!insertIdea(p)
  BY <1>4, <1>5, <1>6, <1>7, Inserted
<1>8. CASE UNCHANGED ideas
  BY <1>4, <1>6, <1>8, QueueLeft
<1> QED
  BY <1>1, <1>7, <1>8 DEF Ideas!store

\* A decision is a person's, on a row that had none.
LEMMA DecisionKeeps ==
  ASSUME IdeasIInv, NEW o \in Operator, NEW i \in Idea,
         Ideas!approveIdea(o, i) \/ \E refusal \in REFUSALS : Ideas!discardIdea(o, i, refusal)
  PROVE  Queue' /\ Edits' /\ RowsStand /\ UNCHANGED <<run, questions>>
PROOF
<1>1. /\ Ideas!stored(i) /\ ~ Ideas!decided(i) /\ Queue /\ Edits
      /\ UNCHANGED <<editing, run, questions>>
  BY DEF IdeasIInv, Ideas!approveIdea, Ideas!discardIdea
<1>2. SoundRow(ideas[i]) /\ ideas[i].status = "proposed"
  BY <1>1 DEF Queue, Ideas!decided
<1>3. ASSUME NEW r, SoundRow(r), ideas' = [ideas EXCEPT ![i] = r],
             r.origin = ideas[i].origin, r.sources = ideas[i].sources
      PROVE  Queue' /\ Edits' /\ RowsStand
  <2>1. /\ editing' = [a \in Operator |-> editing'[a]]
        /\ \A a \in Operator : editing'[a] = editing[a]
    BY <1>1 DEF Edits
  <2> QED
    BY <1>1, <1>3, <2>1, RowBecomes
<1>4. CASE Ideas!approveIdea(o, i)
  <2>1. PICK r : r = [ideas[i] EXCEPT !.status = "approved", !.by = o]
    OBVIOUS
  <2>2. r = [status |-> "approved", text |-> ideas[i].text, origin |-> ideas[i].origin,
             sources |-> ideas[i].sources, by |-> o, refusal |-> ideas[i].refusal]
    BY <1>2, <2>1 DEF SoundRow, IdeaRows
  <2>3. SoundRow(r)
    BY <1>2, <2>2 DEF SoundRow, IdeaRows
  <2>4. ideas' = [ideas EXCEPT ![i] = r]
    BY <1>4, <2>1 DEF Ideas!approveIdea
  <2> QED
    BY <1>1, <1>3, <2>2, <2>3, <2>4
<1>5. ASSUME NEW refusal \in REFUSALS, Ideas!discardIdea(o, i, refusal)
      PROVE  Queue' /\ Edits' /\ RowsStand
  <2>1. PICK r : r = [ideas[i] EXCEPT !.status = "discarded", !.by = o, !.refusal = refusal]
    OBVIOUS
  <2>2. r = [status |-> "discarded", text |-> ideas[i].text, origin |-> ideas[i].origin,
             sources |-> ideas[i].sources, by |-> o, refusal |-> refusal]
    BY <1>2, <2>1 DEF SoundRow, IdeaRows
  <2>3. SoundRow(r)
    BY <1>2, <2>2 DEF SoundRow, IdeaRows
  <2>4. ideas' = [ideas EXCEPT ![i] = r]
    BY <1>5, <2>1 DEF Ideas!discardIdea
  <2> QED
    BY <1>3, <2>2, <2>3, <2>4
<1> QED
  BY <1>1, <1>4, <1>5

\* An operator reads a row, and what they are to write was looked at.
LEMMA ReadForEditKeeps ==
  ASSUME IdeasIInv, NEW o \in Operator, NEW i \in Idea, NEW text \in Text,
         Ideas!readForEdit(o, i, text)
  PROVE  Queue' /\ Edits' /\ RowsStand /\ UNCHANGED <<run, questions>>
PROOF
<1>1. /\ Ideas!stored(i) /\ UNCHANGED <<ideas, run, questions>> /\ Queue /\ Edits
      /\ editing' = [editing EXCEPT ![o] = [idea |-> i, text |-> Ideas!trim(text)]]
  BY DEF IdeasIInv, Ideas!readForEdit
<1>2. SoundRow(ideas[i])
  BY <1>1 DEF Queue
<1>3. PICK p : p = [ideas[i] EXCEPT !.text = text]
  OBVIOUS
<1>4. p.text = text
  BY <1>2, <1>3 DEF SoundRow, IdeaRows
<1>5. Ideas!validateProposal(p)
  BY <1>3 DEF Ideas!readForEdit
<1>6. Askable(Ideas!trim(text)) /\ Ideas!trim(text) \in Trimmed
  BY <1>4, <1>5, TrimKeeps DEF Askable, Ideas!validateProposal
<1>7. PICK e : e = [idea |-> i, text |-> Ideas!trim(text)]
  OBVIOUS
<1>8. /\ editing' = [a \in Operator |-> editing'[a]] /\ editing'[o] = e
      /\ \A a \in Operator \ {o} : editing'[a] = editing[a]
  BY <1>1, <1>7 DEF Edits
<1>9. ASSUME NEW a \in Operator, editing'[a] # None
      PROVE  EditIsSound(editing[a])'
  <2>1. CASE a = o
    BY <1>1, <1>2, <1>6, <1>7, <1>8, <2>1 DEF EditIsSound
  <2>2. CASE a # o
    <3>1. editing'[a] = editing[a] /\ EditIsSound(editing[a])
      BY <1>1, <1>8, <1>9, <2>2 DEF Edits
    <3> QED
      BY <1>1, <3>1 DEF EditIsSound
  <2> QED
    BY <2>1, <2>2
<1>10. Edits'
  BY <1>8, <1>9 DEF Edits
<1>11. Queue' /\ RowsStand
  BY <1>1 DEF Queue, RowsStand, Ideas!stored, SoundRow
<1> QED
  BY <1>1, <1>10, <1>11

\* The row is written only if nobody has decided on it meanwhile.
LEMMA EditKeeps ==
  ASSUME IdeasIInv, NEW o \in Operator, Ideas!editIdea(o)
  PROVE  Queue' /\ Edits' /\ RowsStand /\ UNCHANGED <<run, questions>>
PROOF
<1>1. /\ editing[o] # None /\ UNCHANGED <<run, questions>> /\ Queue /\ Edits
      /\ editing' = [editing EXCEPT ![o] = None]
  BY DEF IdeasIInv, Ideas!editIdea
<1>2. PICK x, text : x = editing[o].idea /\ text = editing[o].text
  OBVIOUS
<1>3. x \in Idea /\ SoundRow(ideas[x]) /\ text \in Trimmed /\ Askable(text)
  BY <1>1, <1>2 DEF Edits, EditIsSound
<1>4. /\ editing' = [a \in Operator |-> editing'[a]]
      /\ \A a \in Operator : editing'[a] = None \/ editing'[a] = editing[a]
  BY <1>1 DEF Edits
<1>5. PICK r : r = IF Ideas!decided(x) THEN ideas[x] ELSE [ideas[x] EXCEPT !.text = text]
  OBVIOUS
<1>6. /\ ~ Ideas!decided(x) =>
           r = [status |-> ideas[x].status, text |-> text, origin |-> ideas[x].origin,
                sources |-> ideas[x].sources, by |-> ideas[x].by, refusal |-> ideas[x].refusal]
      /\ Ideas!decided(x) => r = ideas[x]
  BY <1>3, <1>5 DEF SoundRow, IdeaRows
<1>7. SoundRow(r)
  BY <1>3, <1>6 DEF SoundRow, IdeaRows
<1>8. ideas' = [ideas EXCEPT ![x] = r]
  <2>1. CASE Ideas!decided(x)
    <3>1. ideas' = ideas
      BY <1>2, <2>1 DEF Ideas!editIdea
    <3> QED
      BY <1>1, <1>6, <2>1, <3>1 DEF Queue
  <2>2. CASE ~ Ideas!decided(x)
    BY <1>2, <1>5, <2>2 DEF Ideas!editIdea
  <2> QED
    BY <2>1, <2>2
<1>9. r.origin = ideas[x].origin /\ r.sources = ideas[x].sources
  BY <1>6
<1> QED
  BY <1>1, <1>3, <1>4, <1>6, <1>7, <1>8, <1>9, RowBecomes

\* A draft's hash is of its document, and so is an approved market's.
LEMMA QuestionsKeep ==
  ASSUME IdeasIInv, NEW m \in IdeaMarket,
         \/ Ideas!approveMarket(m)
         \/ \E i \in Idea \cup {None}, text \in Text : Ideas!createDraft(m, i, text)
  PROVE  Questions' /\ UNCHANGED <<ideas, editing, run>>
PROOF
<1>1. ASSUME NEW r \in QuestionRows, Ideas!questionHash(Ideas!document(r.text)) = r.hash,
             questions' = [questions EXCEPT ![m] = r]
      PROVE  Questions'
  <2>1. /\ questions' = [n \in IdeaMarket |-> questions'[n]] /\ questions'[m] = r
        /\ \A n \in IdeaMarket \ {m} : questions'[n] = questions[n]
    BY <1>1 DEF IdeasIInv, Questions
  <2>2. ASSUME NEW n \in IdeaMarket, questions'[n] # None
        PROVE  /\ questions'[n] \in QuestionRows
               /\ Ideas!questionHash(Ideas!document(questions'[n].text)) = questions'[n].hash
    <3>1. CASE n = m
      BY <1>1, <2>1, <3>1
    <3>2. CASE n # m
      BY <2>1, <2>2, <3>2 DEF IdeasIInv, Questions
    <3> QED
      BY <3>1, <3>2
  <2>3. \A n \in IdeaMarket : questions'[n] # None =>
          /\ questions'[n] \in QuestionRows
          /\ Ideas!questionHash(Ideas!document(questions'[n].text)) = questions'[n].hash
    BY <2>2
  <2> QED
    BY <2>1, <2>3 DEF Questions, Ideas!questionHash, Ideas!document
<1>2. ASSUME Ideas!approveMarket(m)
      PROVE  Questions'
  <2>1. /\ questions[m] \in QuestionRows
        /\ Ideas!questionHash(Ideas!document(questions[m].text)) = questions[m].hash
    BY <1>2 DEF IdeasIInv, Questions, Ideas!approveMarket
  <2>2. PICK r : r = [questions[m] EXCEPT !.status = "approved"]
    OBVIOUS
  <2>3. r = [status |-> "approved", idea |-> questions[m].idea, text |-> questions[m].text,
             hash |-> questions[m].hash]
    BY <2>1, <2>2 DEF QuestionRows
  <2>4. r \in QuestionRows /\ r.text = questions[m].text /\ r.hash = questions[m].hash
    BY <2>1, <2>3 DEF QuestionRows
  <2>5. questions' = [questions EXCEPT ![m] = r]
    BY <1>2, <2>2 DEF Ideas!approveMarket
  <2>6. Ideas!questionHash(Ideas!document(r.text)) = r.hash
    BY <2>1, <2>4
  <2> QED
    BY <1>1, <2>4, <2>5, <2>6
<1>3. ASSUME NEW i \in Idea \cup {None}, NEW text \in Text, Ideas!createDraft(m, i, text)
      PROVE  Questions'
  <2>1. PICK r : r = [status |-> "draft", idea |-> i, text |-> Ideas!trim(text),
                      hash |-> Ideas!hashed(text)]
    OBVIOUS
  <2>2. r \in QuestionRows /\ Ideas!questionHash(Ideas!document(r.text)) = r.hash
    BY <2>1 DEF QuestionRows, Trimmed, Ideas!hashed
  <2>3. questions' = [questions EXCEPT ![m] = r]
    BY <1>3, <2>1 DEF Ideas!createDraft
  <2> QED
    BY <1>1, <2>2, <2>3
<1>4. UNCHANGED <<ideas, editing, run>>
  BY DEF Ideas!approveMarket, Ideas!createDraft
<1> QED
  BY <1>2, <1>3, <1>4

\* The questions are left alone.
LEMMA QuestionsLeft == ASSUME Questions, UNCHANGED questions PROVE Questions'
PROOF
  BY DEF Questions

\* No step undoes a decision, and each keeps the invariant.
LEMMA IdeasStep ==
  ASSUME IdeasIInv, [Ideas!Next]_(Ideas!vars)
  PROVE  IdeasIInv' /\ RowsStand
PROOF
<1>1. Queue /\ Edits /\ RunTyped /\ Questions
  BY DEF IdeasIInv
<1>2. ASSUME UNCHANGED run
      PROVE  RunTyped'
  BY <1>1, <1>2 DEF RunTyped
<1>3. ASSUME Queue' /\ Edits' /\ RowsStand /\ UNCHANGED <<run, questions>>
      PROVE  IdeasIInv' /\ RowsStand
  BY <1>1, <1>2, <1>3, QuestionsLeft DEF IdeasIInv
<1>4. CASE \/ Ideas!ideaPropose \/ Ideas!nextTopic \/ Ideas!runFails
           \/ \E sources \in SUBSET Source : \E candidates \in Ideas!BoundedSeq(Text, MaxAnswer) :
                Ideas!propose(sources, candidates)
  <2>1. RunTyped' /\ UNCHANGED <<ideas, editing, questions>>
    BY <1>4, RunKeeps
  <2> QED
    BY <1>1, <2>1, QueueLeft, QuestionsLeft DEF IdeasIInv
<1>5. CASE Ideas!store
  <2>1. Queue' /\ Edits' /\ RowsStand /\ RunTyped' /\ UNCHANGED questions
    BY <1>5, StoreKeeps
  <2> QED
    BY <1>1, <2>1, QuestionsLeft DEF IdeasIInv
<1>6. ASSUME NEW text \in Text, Ideas!postIdea(text)
      PROVE  IdeasIInv' /\ RowsStand
  <2>1. PICK p : p = [text |-> text, origin |-> "operator", sources |-> {}]
    OBVIOUS
  <2>2. p \in [text : Text, origin : {"model", "operator"}, sources : SUBSET Source]
    BY <2>1
  <2>3. Ideas!insertIdea(p) /\ UNCHANGED <<editing, run, questions>>
    BY <1>6, <2>1 DEF Ideas!postIdea
  <2> QED
    BY <1>1, <1>3, <2>2, <2>3, Inserted
<1>7. ASSUME NEW o \in Operator, Ideas!editIdea(o)
      PROVE  IdeasIInv' /\ RowsStand
  BY <1>3, <1>7, EditKeeps
<1>8. ASSUME NEW o \in Operator, NEW i \in Idea,
             Ideas!approveIdea(o, i) \/ \E refusal \in REFUSALS : Ideas!discardIdea(o, i, refusal)
      PROVE  IdeasIInv' /\ RowsStand
  BY <1>3, <1>8, DecisionKeeps
<1>9. ASSUME NEW o \in Operator, NEW i \in Idea, NEW text \in Text, Ideas!readForEdit(o, i, text)
      PROVE  IdeasIInv' /\ RowsStand
  BY <1>3, <1>9, ReadForEditKeeps
<1>10. ASSUME NEW m \in IdeaMarket,
              \/ Ideas!approveMarket(m)
              \/ \E i \in Idea \cup {None}, text \in Text : Ideas!createDraft(m, i, text)
       PROVE  IdeasIInv' /\ RowsStand
  <2>1. Questions' /\ UNCHANGED <<ideas, editing, run>>
    BY <1>10, QuestionsKeep
  <2> QED
    BY <1>1, <1>2, <2>1, QueueLeft DEF IdeasIInv
<1>11. CASE Ideas!tick \/ UNCHANGED Ideas!vars
  <2>1. UNCHANGED <<ideas, editing, run, questions>>
    BY <1>11 DEF Ideas!tick, Ideas!vars
  <2> QED
    BY <1>1, <1>3, <2>1, QueueLeft
<1> QED
  BY <1>4, <1>5, <1>6, <1>7, <1>8, <1>9, <1>10, <1>11 DEF Ideas!Next

\* There is nothing yet.
LEMMA IdeasIInvInit == Ideas!Init => IdeasIInv
PROOF
<1> SUFFICES ASSUME Ideas!Init
             PROVE  IdeasIInv
  OBVIOUS
<1>1. Queue /\ Edits /\ Questions
  BY DEF Ideas!Init, Queue, Edits, Questions, Ideas!stored
<1>2. run = [topic |-> 0, asked |-> FALSE, left |-> <<>>, started |-> 0]
  BY DEF Ideas!Init
<1>3. <<>> \in Seq(Asked) /\ Len(<<>>) = 0 /\ Count \in Nat /\ PROPOSAL_TOPICS \in Nat
  BY ServiceAssumption DEF ServiceAssumption, Ideas!ProposalsAssumption
<1>4. RunTyped
  BY <1>2, <1>3 DEF RunTyped
<1> QED
  BY <1>1, <1>4 DEF IdeasIInv

\* What the invariant says of rows is what the property says.
LEMMA Documents == ASSUME IdeasIInv PROVE Ideas!RowsAreTheirDocuments
PROOF
  BY DEF IdeasIInv, Queue, Questions, SoundRow, Askable, Ideas!RowsAreTheirDocuments

\* What a person decided on stays the text it was, decided once and by them, no edit
\* makes a machine's proposal a person's or takes its sources away, and no step leaves a
\* row that could not be approved or a market that is not its document's.
THEOREM DecisionsAreFinal == Spec => DecisionsStand
PROOF
<1>1. Init => IdeasIInv
  BY IdeasIInvInit DEF Init
<1>2. IdeasIInv /\ [Next]_vars => IdeasIInv'
  BY IdeasStep, StepOfIdeas
<1>3. ASSUME IdeasIInv, [Next]_vars
      PROVE  [/\ \A i \in Idea : Ideas!stored(i) =>
                   /\ ideas'[i].origin = ideas[i].origin /\ ideas'[i].sources = ideas[i].sources
                   /\ Ideas!decided(i) => ideas'[i] = ideas[i]
              /\ Ideas!RowsAreTheirDocuments']_(Ideas!vars)
  <2>1. IdeasIInv' /\ RowsStand
    BY <1>3, IdeasStep, StepOfIdeas
  <2>2. Ideas!RowsAreTheirDocuments'
    BY <2>1, Documents, PTL
  <2> QED
    BY <2>1, <2>2 DEF RowsStand
<1> QED
  BY <1>1, <1>2, <1>3, PTL DEF Spec, DecisionsStand, Ideas!DecisionsStand

------------------------------------------------------------------------------
(* The types of every part, and what its bounds add to them.               *)

\* Work is done within its bound.
RunsBounded == runs \in [Key -> 0..MaxKeyRuns]

\* The keys keep within their bound.
LEMMA RunsBoundedKeeps ==
  ASSUME KeysIInv, RunsBounded, [Keys!Next]_(Keys!vars)
  PROVE  RunsBounded'
PROOF
<1>1. MaxKeyRuns \in Nat
  BY ServiceAssumption DEF ServiceAssumption, Keys!KeysAssumption
<1>2. ASSUME UNCHANGED runs
      PROVE  RunsBounded'
  BY <1>2 DEF RunsBounded
<1>3. ASSUME NEW r \in Request, Keys!run(r)
      PROVE  RunsBounded'
  <2>1. CASE runs[Keys!key(r)] < MaxKeyRuns /\ runs' = [runs EXCEPT ![Keys!key(r)] = @ + 1]
    <3>1. PICK n : n = runs[Keys!key(r)] + 1
      OBVIOUS
    <3>2. runs' = [runs EXCEPT ![Keys!key(r)] = n]
      BY <2>1, <3>1
    <3>3. CASE Keys!key(r) \in Key
      <4>1. n \in 0..MaxKeyRuns
        BY <1>1, <2>1, <3>1, <3>3 DEF RunsBounded
      <4> QED
        BY <3>2, <4>1 DEF RunsBounded
    <3>4. CASE Keys!key(r) \notin Key
      BY <3>2, <3>4 DEF RunsBounded
    <3> QED
      BY <3>3, <3>4
  <2> QED
    BY <1>2, <1>3, <2>1 DEF Keys!run
<1>4. ASSUME \/ \E r \in Request : Keys!findMarket(r) \/ Keys!claim(r) \/ Keys!respond(r) \/ Keys!crash(r)
             \/ \E m \in DeployMarket : Keys!deployed(m)
             \/ UNCHANGED Keys!vars
      PROVE  RunsBounded'
  BY <1>2, <1>4 DEF Keys!findMarket, Keys!claim, Keys!respond, Keys!crash, Keys!deployed, Keys!vars
<1> QED
  BY <1>3, <1>4 DEF Keys!Next

\* Keys, answers and counts are of their types.
LEMMA KeysTypeOK == ASSUME KeysIInv, RunsBounded PROVE Keys!TypeOK
PROOF
<1>1. MaxKeyRuns \in Nat
  BY ServiceAssumption DEF ServiceAssumption, Keys!KeysAssumption
<1>2. \A k \in Key : lost[k] \in 0..MaxKeyRuns
  <2> TAKE k \in Key
  <2>1. runs[k] \in 0..MaxKeyRuns /\ lost[k] \in Nat
    BY DEF KeysIInv, KeysTyped, RunsBounded
  <2>2. lost[k] <= runs[k]
    BY <2>1 DEF KeysIInv, Counted
  <2> QED
    BY <1>1, <2>1, <2>2
<1>3. lost = [k \in Key |-> lost[k]]
  BY DEF KeysIInv, KeysTyped
<1>4. lost \in [Key -> 0..MaxKeyRuns]
  BY <1>2, <1>3
<1>5. \A r \in Request : deployAnswer[r].status \in {0, 202, 409, 500}
  BY DEF KeysIInv, KeysTyped, Answers, Keys!NoAnswer, Keys!Reused
<1> QED
  BY <1>4, <1>5 DEF KeysIInv, KeysTyped, RunsBounded, Keys!TypeOK

------------------------------------------------------------------------------

\* Markets close and assets are turned off, rows are numbered within the bound, and
\* every error has a status.
RouteBounded ==
  /\ open \subseteq StakeMarket /\ enabled \subseteq Route!Asset
  /\ made <= MaxStakeRows
  /\ \A s \in stakes : s.booked \in BOOLEAN
  /\ \A a \in Attempt : answer[a].status \in Route!statuses \cup {0}

\* One attempt is answered, or none is.
LEMMA AnswerBounded ==
  ASSUME RouteTyped, RouteBounded, NEW a \in Attempt,
         \/ answer' = answer
         \/ \E status \in Route!statuses : \E told : Route!reply(a, status, told)
         \/ \E err : Route!refuse(a, err)
         \/ \E step : Route!goto(a, step)
  PROVE  \A b \in Attempt : answer'[b].status \in Route!statuses \cup {0}
PROOF
<1>1. CASE answer' = answer \/ \E step : Route!goto(a, step)
  BY <1>1 DEF RouteBounded, Route!goto
<1>2. ASSUME NEW status \in Route!statuses, NEW told, Route!reply(a, status, told)
      PROVE  \A b \in Attempt : answer'[b].status \in Route!statuses \cup {0}
  <2>1. answer' = [answer EXCEPT ![a] = [status |-> status, told |-> told]]
    BY <1>2 DEF Route!reply
  <2>2. answer'[a].status = status /\ \A b \in Attempt \ {a} : answer'[b] = answer[b]
    BY <2>1 DEF RouteTyped
  <2> QED
    BY <2>2 DEF RouteBounded
<1> QED
  BY <1>1, <1>2, Handled DEF Route!refuse, Route!statuses

\* A row keeps to BOOLEAN, and ids to their bound, whatever an attempt does.
LEMMA RowsBounded ==
  ASSUME RouteIInv, RouteBounded, NEW a \in Attempt, Route!attempt(a)
  PROVE  made' <= MaxStakeRows /\ \A s \in stakes' : s.booked \in BOOLEAN
PROOF
<1>1. made \in Nat /\ MaxStakeRows \in Nat
  BY ServiceAssumption DEF RouteIInv, RouteTyped, ServiceAssumption, Route!RouteAssumption
<1>2. ASSUME UNCHANGED Route!rows
      PROVE  made' <= MaxStakeRows /\ \A s \in stakes' : s.booked \in BOOLEAN
  BY <1>2 DEF RouteBounded, Route!rows
<1>3. CASE Route!acceptStake(a)
  <2>1. CASE UNCHANGED Route!rows
    BY <1>2, <2>1
  <2>2. CASE /\ made < MaxStakeRows /\ made' = made + 1
             /\ stakes' = stakes \cup {[id |-> made', key |-> Route!key(a), by |-> a,
                                        quote |-> Route!quoteOf(a), booked |-> FALSE]}
    <3>1. PICK new : new = [id |-> made', key |-> Route!key(a), by |-> a,
                            quote |-> Route!quoteOf(a), booked |-> FALSE]
      OBVIOUS
    <3>2. new.booked = FALSE
      BY <3>1
    <3>3. stakes' = stakes \cup {new} /\ made' <= MaxStakeRows
      BY <1>1, <2>2, <3>1
    <3> QED
      BY <3>2, <3>3 DEF RouteBounded
  <2> QED
    BY <1>3, <2>1, <2>2 DEF Route!acceptStake
<1>4. CASE Route!deleteRefused(a)
  BY <1>4 DEF Route!deleteRefused, RouteBounded
<1>5. CASE Route!recordEscrowEntry(a)
  <2>1. Route!rowOf(a) \in stakes
    BY <1>5, RowOf DEF Route!recordEscrowEntry, Working, RouteIInv
  <2>2. PICK new : /\ new = [Route!rowOf(a) EXCEPT !.booked = TRUE]
                   /\ stakes' = (stakes \ {Route!rowOf(a)}) \cup {new}
    BY <1>5 DEF Route!recordEscrowEntry
  <2>3. new.booked = TRUE
    BY <2>1, <2>2 DEF RouteIInv, RowsTyped, RowFields
  <2> QED
    BY <1>5, <2>2, <2>3 DEF Route!recordEscrowEntry, RouteBounded
<1>6. CASE \/ Route!authenticate(a) \/ Route!replay(a) \/ Route!findMarket(a)
           \/ Route!findStakeAsset(a) \/ Route!evaluateStake(a) \/ Route!stakeRates(a)
           \/ Route!poolLeg(a) \/ Route!stakeQuote(a) \/ Route!postEntry(a)
           \/ Route!postLate(a) \/ Route!crash(a)
  BY <1>2, <1>6 DEF Route!authenticate, Route!replay, Route!findMarket, Route!findStakeAsset,
    Route!evaluateStake, Route!stakeRates, Route!poolLeg, Route!stakeQuote, Route!postEntry,
    Route!postLate, Route!crash
<1> QED
  BY <1>3, <1>4, <1>5, <1>6 DEF Route!attempt

\* And every answer has a status, whatever it does.
LEMMA AnswersBounded ==
  ASSUME RouteIInv, RouteBounded, NEW a \in Attempt, Route!attempt(a)
  PROVE  \A b \in Attempt : answer'[b].status \in Route!statuses \cup {0}
PROOF
<1>1. {200, 201} \subseteq Route!statuses /\ RouteTyped
  BY DEF Route!statuses, RouteIInv
<1>2. \/ answer' = answer
      \/ \E status \in Route!statuses : \E told : Route!reply(a, status, told)
      \/ \E err : Route!refuse(a, err)
      \/ \E step : Route!goto(a, step)
  <2>1. CASE Route!authenticate(a) \/ Route!findMarket(a) \/ Route!findStakeAsset(a)
    BY <2>1 DEF Route!authenticate, Route!findMarket, Route!findStakeAsset
  <2>2. CASE Route!replay(a)
    BY <1>1, <2>2 DEF Route!replay
  <2>3. CASE Route!evaluateStake(a)
    BY <1>1, <2>3 DEF Route!evaluateStake
  <2>4. CASE Route!stakeRates(a) \/ Route!poolLeg(a)
    BY <2>4 DEF Route!stakeRates, Route!poolLeg, Route!withRate
  <2>5. CASE Route!stakeQuote(a)
    BY <1>1, <2>5 DEF Route!stakeQuote
  <2>6. CASE Route!acceptStake(a)
    BY <2>6 DEF Route!acceptStake
  <2>7. CASE Route!postEntry(a) \/ Route!crash(a) \/ Route!deleteRefused(a)
    BY <2>7 DEF Route!postEntry, Route!crash, Route!deleteRefused
  <2>8. CASE Route!postLate(a)
    BY <2>8 DEF Route!postLate, Route!progress
  <2>9. CASE Route!recordEscrowEntry(a)
    BY <1>1, <2>9 DEF Route!recordEscrowEntry
  <2> QED
    BY <2>1, <2>2, <2>3, <2>4, <2>5, <2>6, <2>7, <2>8, <2>9 DEF Route!attempt
<1> QED
  BY <1>1, <1>2, AnswerBounded

\* So the bounds are kept.
LEMMA RouteBoundedKeeps ==
  ASSUME RouteIInv, RouteBounded, [Route!Next]_(Route!vars)
  PROVE  RouteBounded'
PROOF
<1>1. ASSUME UNCHANGED <<Route!rows, Route!progress>>, open' \subseteq open, enabled' \subseteq enabled
      PROVE  RouteBounded'
  BY <1>1 DEF RouteBounded, Route!rows, Route!progress
<1>2. ASSUME NEW a \in Attempt, Route!attempt(a)
      PROVE  RouteBounded'
  <2>1. open' = open /\ enabled' = enabled
    BY <1>2 DEF Route!attempt, Route!authenticate, Route!replay, Route!findMarket,
      Route!findStakeAsset, Route!evaluateStake, Route!stakeRates, Route!poolLeg,
      Route!stakeQuote, Route!acceptStake, Route!postEntry, Route!postLate,
      Route!deleteRefused, Route!recordEscrowEntry, Route!crash, Route!world
  <2>2. made' <= MaxStakeRows /\ \A s \in stakes' : s.booked \in BOOLEAN
    BY <1>2, RowsBounded
  <2>3. \A b \in Attempt : answer'[b].status \in Route!statuses \cup {0}
    BY <1>2, AnswersBounded
  <2> QED
    BY <2>1, <2>2, <2>3 DEF RouteBounded
<1>3. CASE \/ \E m \in StakeMarket : Route!closeMarket(m)
           \/ \E code \in Route!Asset : Route!disable(code)
           \/ UNCHANGED Route!vars
  BY <1>1, <1>3 DEF Route!closeMarket, Route!disable, Route!vars, Route!world
<1> QED
  BY <1>2, <1>3 DEF Route!Next

\* The routes keep to their types.
LEMMA RouteTypeOK == ASSUME RouteIInv, RowsPriced, RouteBounded PROVE Route!TypeOK
PROOF
<1>1. made \in 0..MaxStakeRows
  BY ServiceAssumption
     DEF RouteIInv, RouteTyped, RouteBounded, ServiceAssumption, Route!RouteAssumption
<1>2. \A a \in Attempt : answer[a].told \in 0..made
  BY DEF RouteIInv, RouteTyped
<1>3. \A s \in stakes : s.id \in 1..made /\ s.by \in Attempt
  BY DEF RouteIInv, RowsTyped
<1> QED
  BY <1>1, <1>2, <1>3 DEF RouteIInv, RouteTyped, RouteBounded, RowsPriced, Route!TypeOK

------------------------------------------------------------------------------

\* The seeds keep to their types.
LEMMA SeedsTypeOK == ASSUME SeedsIInv PROVE Seeds!TypeOK
PROOF
<1>1. day \in 0..MaxSeedDay /\ MaxSeedDay \in Nat
  BY Ceilings DEF SeedsIInv, SeedsTyped
<1>2. \A d \in Nat : d <= day => d \in 0..MaxSeedDay
  BY <1>1
<1>3. house_seeds \subseteq [market : SeedMarket, amount : Sizes, day : 0..MaxSeedDay]
  BY <1>2 DEF SeedsIInv, SeedRows, Seed
<1>4. tx \subseteq [by : Approval, market : SeedMarket, amount : Sizes, day : 0..MaxSeedDay]
  <2> SUFFICES ASSUME NEW s \in tx
               PROVE  s \in [by : Approval, market : SeedMarket, amount : Sizes, day : 0..MaxSeedDay]
    OBVIOUS
  <2>1. /\ s = [by |-> s.by, market |-> s.market, amount |-> s.amount, day |-> s.day]
        /\ s.by \in Approval /\ approval[s.by].step = "inTx" /\ s.day \in Nat /\ s.day <= day
        /\ s.market = approval[s.by].market /\ s.amount = approval[s.by].amount
    BY DEF SeedsIInv, OpenRows
  <2>2. s.market \in SeedMarket /\ s.amount \in Sizes
    BY <2>1 DEF SeedsIInv, SeedsTyped, Sized
  <2>3. s.day \in 0..MaxSeedDay
    BY <1>2, <2>1
  <2> QED
    BY <2>1, <2>2, <2>3
<1> QED
  BY <1>1, <1>3, <1>4 DEF SeedsIInv, SeedsTyped, SeedRows, Seeds!TypeOK

\* Proposals, the pipeline and the questions too.
LEMMA IdeasTypeOK == ASSUME IdeasIInv PROVE Ideas!TypeOK
PROOF
<1>1. ASSUME NEW i \in Idea, Ideas!stored(i)
      PROVE  /\ ideas[i].status \in {"proposed", "approved", "discarded"}
             /\ ideas[i].origin = "model" => ideas[i].sources # {}
             /\ Ideas!decided(i) => ideas[i].by \in Operator
             /\ ideas[i].status = "discarded" => ideas[i].refusal \in REFUSALS
  <2>1. SoundRow(ideas[i])
    BY <1>1 DEF IdeasIInv, Queue
  <2> QED
    BY <2>1 DEF SoundRow, IdeaRows, Ideas!decided
<1>2. \A m \in IdeaMarket : questions[m] # None => questions[m].status \in {"draft", "approved"}
  BY DEF IdeasIInv, Questions, QuestionRows
<1> QED
  BY <1>1, <1>2 DEF IdeasIInv, RunTyped, Ideas!TypeOK

------------------------------------------------------------------------------

\* The process is in one of its phases, works only while it is up, and works at jobs
\* that are there.
ProcessTyped ==
  /\ env \in Environment /\ schema \in [Estates!Database -> Nat] /\ boots \in 0 .. MaxBoots
  /\ phase \in {"down", "asserted", "serving", "draining"}
  /\ claimed # {} => phase \in {"serving", "draining"}
  /\ \A c \in claimed : /\ c = [db |-> c.db, job |-> c.job]
                        /\ c.db \in Estates!Database /\ c.job \in jobs[c.db]

\* A job goes when whoever claimed it has done it.
LEMMA JobDone ==
  ASSUME EstatesIInv, ProcessTyped, NEW db \in Estates!Database, NEW job,
         Estates!complete(db, job), NEW more,
         \/ jobs' = [jobs EXCEPT ![db] = Estates!finish(db, job) \cup more]
         \/ jobs' = jobs,
         UNCHANGED <<env, schema, phase, boots>>
  PROVE  ProcessTyped'
PROOF
<1>1. claimed' = claimed \ {[db |-> db, job |-> job]}
  BY DEF Estates!complete
<1>2. jobs[db] \ {job} \subseteq Estates!finish(db, job)
  BY DEF Estates!finish
<1>3. jobs \in [Estates!Database -> SUBSET Jobs]
  BY DEF EstatesIInv, EstatesTyped
<1>4. ASSUME NEW c \in claimed'
      PROVE  /\ c = [db |-> c.db, job |-> c.job]
             /\ c.db \in Estates!Database /\ c.job \in jobs'[c.db]
  <2>1. /\ c \in claimed /\ c = [db |-> c.db, job |-> c.job] /\ c # [db |-> db, job |-> job]
        /\ c.db \in Estates!Database /\ c.job \in jobs[c.db]
    BY <1>1, <1>4 DEF ProcessTyped
  <2>2. CASE jobs' = jobs
    BY <2>1, <2>2
  <2>3. CASE jobs' = [jobs EXCEPT ![db] = Estates!finish(db, job) \cup more]
    <3>1. CASE c.db = db
      <4>1. c.job # job
        BY <2>1, <3>1
      <4>2. c.job \in Estates!finish(db, job)
        BY <1>2, <2>1, <3>1, <4>1
      <4>3. jobs'[db] = Estates!finish(db, job) \cup more
        BY <1>3, <2>3
      <4> QED
        BY <2>1, <3>1, <4>2, <4>3
    <3>2. CASE c.db # db
      BY <1>3, <2>1, <2>3, <3>2
    <3> QED
      BY <3>1, <3>2
  <2> QED
    BY <2>2, <2>3
<1> QED
  BY <1>1, <1>4 DEF ProcessTyped

\* Jobs come, and nothing else moves.
LEMMA JobComes ==
  ASSUME ProcessTyped, UNCHANGED <<env, schema, boots, claimed>>,
         \A db \in Estates!Database : jobs[db] \subseteq jobs'[db],
         phase' = phase \/ (phase' = "serving" /\ phase = "asserted")
                        \/ (phase' = "draining" /\ phase = "serving")
  PROVE  ProcessTyped'
PROOF
  BY DEF ProcessTyped

\* No step of the process, of a request or of a runner breaks it.
LEMMA ProcessKeeps ==
  ASSUME EstatesIInv, ProcessTyped, [Estates!Next]_(Estates!vars)
  PROVE  ProcessTyped'
PROOF
<1>1. SCHEMA_VERSION \in Nat /\ MaxBoots \in Nat
  BY ServiceAssumption DEF ServiceAssumption, Estates!EstatesAssumption
<1>2. jobs \in [Estates!Database -> SUBSET Jobs]
  BY DEF EstatesIInv, EstatesTyped
<1>3. ASSUME NEW failed \in SUBSET Estates!Database, Estates!migrate(failed)
      PROVE  ProcessTyped'
  <2>1. schema' \in [Estates!Database -> Nat]
    BY <1>1, <1>3 DEF Estates!migrate, ProcessTyped
  <2> QED
    BY <1>3, <2>1 DEF Estates!migrate, Estates!stores, ProcessTyped
<1>4. CASE Estates!boot
  <2>1. boots' \in 0 .. MaxBoots /\ phase' = "asserted" /\ claimed = {}
    BY <1>1, <1>4 DEF Estates!boot, ProcessTyped
  <2> QED
    BY <1>4, <2>1 DEF Estates!boot, Estates!stores, ProcessTyped
<1>5. CASE Estates!serve
  <2>1. \A db \in Estates!Database : jobs[db] \subseteq jobs'[db]
    BY <1>5 DEF Estates!serve
  <2> QED
    BY <1>5, <2>1, JobComes DEF Estates!serve
<1>6. CASE Estates!drain
  BY <1>6, JobComes DEF Estates!drain, Estates!stores
<1>7. CASE Estates!exit
  BY <1>7 DEF Estates!exit, Estates!stores, ProcessTyped
<1>8. ASSUME NEW header, NEW db \in Estates!Database,
             \/ \E m \in MarketId : Estates!createDraft(header, db, m)
             \/ \E row \in markets[db] : Estates!approveMarket(header, db, row)
      PROVE  ProcessTyped'
  BY <1>8, JobComes DEF Estates!createDraft, Estates!approveMarket
<1>9. ASSUME NEW header, NEW db \in Estates!Database, NEW row \in markets[db],
             Estates!deployMarket(header, db, row) \/ Estates!resolve(header, db, row)
      PROVE  ProcessTyped'
  <2>1. PICK j : jobs' = [jobs EXCEPT ![Estates!queueFor(header)] = @ \cup {j}]
    BY <1>9 DEF Estates!deployMarket, Estates!resolve
  <2>2. \A d \in Estates!Database : jobs[d] \subseteq jobs'[d]
    BY <1>2, <2>1
  <2> QED
    BY <1>9, <2>2, JobComes DEF Estates!deployMarket, Estates!resolve
<1>10. ASSUME NEW db \in Estates!Database, NEW job \in jobs[db], Estates!claim(db, job)
       PROVE  ProcessTyped'
  <2>1. PICK new : new = [db |-> db, job |-> job]
    OBVIOUS
  <2>2. new.db = db /\ new.job = job /\ claimed' = claimed \cup {new} /\ phase = "serving"
    BY <1>10, <2>1 DEF Estates!claim
  <2>3. UNCHANGED <<env, schema, phase, boots, jobs>>
    BY <1>10 DEF Estates!claim, Estates!stores
  <2> QED
    BY <2>1, <2>2, <2>3 DEF ProcessTyped
<1>11. ASSUME NEW db \in Estates!Database,
              \/ Estates!deploySweep(db) \/ Estates!resolutionPost(db)
              \/ \E m \in MarketId : Estates!marketDeploy(db, m)
       PROVE  ProcessTyped'
  <2>1. \E job, more :
          /\ Estates!complete(db, job) /\ UNCHANGED <<env, schema, phase, boots>>
          /\ \/ jobs' = [jobs EXCEPT ![db] = Estates!finish(db, job) \cup more]
             \/ jobs' = jobs
    <3>1. CASE Estates!deploySweep(db)
      BY <3>1 DEF Estates!deploySweep
    <3>2. CASE Estates!resolutionPost(db)
      <4>1. PICK job : job = Estates!Resolution(Estates!networkOf(db))
        OBVIOUS
      <4>2. /\ Estates!complete(db, job) /\ UNCHANGED <<env, schema, phase, boots>>
            /\ jobs' = [jobs EXCEPT ![db] = Estates!finish(db, job)]
        BY <3>2, <4>1 DEF Estates!resolutionPost
      <4>3. Estates!finish(db, job) = Estates!finish(db, job) \cup {}
        OBVIOUS
      <4> QED
        BY <4>2, <4>3
    <3>3. ASSUME NEW m \in MarketId, Estates!marketDeploy(db, m)
          PROVE  \E job, more :
                   /\ Estates!complete(db, job) /\ UNCHANGED <<env, schema, phase, boots>>
                   /\ \/ jobs' = [jobs EXCEPT ![db] = Estates!finish(db, job) \cup more]
                      \/ jobs' = jobs
      <4>1. PICK job : job = Estates!Deploy(m)
        OBVIOUS
      <4>2. /\ Estates!complete(db, job) /\ UNCHANGED <<env, schema, phase, boots>>
            /\ jobs' = [jobs EXCEPT ![db] = Estates!finish(db, job)] \/ jobs' = jobs
        BY <3>3, <4>1 DEF Estates!marketDeploy
      <4>3. Estates!finish(db, job) = Estates!finish(db, job) \cup {}
        OBVIOUS
      <4> QED
        BY <4>2, <4>3
    <3> QED
      BY <1>11, <3>1, <3>2, <3>3
  <2> QED
    BY <2>1, JobDone
<1>12. CASE UNCHANGED Estates!vars
  BY <1>12, JobComes DEF Estates!vars
<1> QED
  BY <1>3, <1>4, <1>5, <1>6, <1>7, <1>8, <1>9, <1>10, <1>11, <1>12 DEF Estates!Next

\* The planes keep to their types.
LEMMA EstatesTypeOK == ASSUME EstatesIInv, ProcessTyped PROVE Estates!TypeOK
PROOF
  BY DEF EstatesIInv, EstatesTyped, Rows, ProcessTyped, Estates!TypeOK

------------------------------------------------------------------------------

\* The books of the money part are sequences of one length.
BooksTyped == /\ part \in parts
              /\ amount \in Seq(1..MaxAmount) /\ outcome \in Seq(0..1)
              /\ Len(amount) = Len(outcome)

\* They stay so.
LEMMA BooksKeep == BooksTyped /\ [Next]_vars => BooksTyped'
PROOF
<1> SUFFICES ASSUME BooksTyped, [Next]_vars
             PROVE  BooksTyped'
  OBVIOUS
<1>1. ASSUME UNCHANGED <<part, moneyVars>>
      PROVE  BooksTyped'
  BY <1>1 DEF BooksTyped, moneyVars
<1>2. ASSUME NEW n \in 1..MaxAmount, NEW o \in 0..1, take(n, o), UNCHANGED part
      PROVE  BooksTyped'
  BY <1>2 DEF take, BooksTyped
<1>3. ASSUME NEW code, NEW n, NEW rates, price(code, n, rates), UNCHANGED part
      PROVE  BooksTyped'
  BY <1>3 DEF price, BooksTyped
<1> QED
  BY <1>1, <1>2, <1>3 DEF Next, Money, vars

\* Every part of the service keeps to its types, whichever is followed: rows to the
\* lists of the schema and to its ids, counts to their bounds, answers to the statuses
\* there are, and work to a process that is up.
THEOREM TypeCorrect == Spec => []TypeOK
PROOF
<1> DEFINE Inv == /\ BooksTyped /\ RouteIInv /\ RowsPriced /\ RouteBounded /\ SeedsIInv
                  /\ KeysIInv /\ RunsBounded /\ IdeasIInv /\ EstatesIInv /\ ProcessTyped
<1>1. Init => Inv
  <2> SUFFICES ASSUME Init
               PROVE  Inv
    OBVIOUS
  <2>1. RouteIInv /\ RowsPriced /\ SeedsIInv /\ KeysIInv /\ IdeasIInv /\ EstatesIInv
    BY RouteInitially, RowsPricedInit, SeedsInitially, KeysInitially, IdeasIInvInit,
       EstatesInitially DEF Init
  <2>2. BooksTyped
    BY DEF Init, BooksTyped
  <2>3. RouteBounded
    BY ServiceAssumption DEF Init, Route!Init, RouteBounded, Route!NoAnswer,
       ServiceAssumption, Route!RouteAssumption
  <2>4. RunsBounded
    BY ServiceAssumption DEF Init, Keys!Init, RunsBounded, ServiceAssumption, Keys!KeysAssumption
  <2>5. ProcessTyped
    BY ServiceAssumption DEF Init, Estates!Init, ProcessTyped, ServiceAssumption,
       Estates!EstatesAssumption
  <2> QED
    BY <2>1, <2>2, <2>3, <2>4, <2>5
<1>2. Inv /\ [Next]_vars => Inv'
  <2> SUFFICES ASSUME Inv, [Next]_vars
               PROVE  Inv'
    OBVIOUS
  <2>1. RouteIInv' /\ RowsPriced' /\ RouteBounded'
    BY RouteStepKeeps, RowsPricedKeeps, RouteBoundedKeeps, StepOfRoute
  <2>2. SeedsIInv'
    BY SeedsStepKeeps, StepOfSeeds
  <2>3. KeysIInv' /\ RunsBounded'
    BY KeysStepKeeps, RunsBoundedKeeps, StepOfKeys
  <2>4. IdeasIInv'
    BY IdeasStep, StepOfIdeas
  <2>5. EstatesIInv' /\ ProcessTyped'
    BY EstatesStepKeeps, ProcessKeeps, StepOfEstates
  <2> QED
    BY <2>1, <2>2, <2>3, <2>4, <2>5, BooksKeep
<1>3. Inv => TypeOK
  <2> SUFFICES ASSUME Inv
               PROVE  TypeOK
    OBVIOUS
  <2>1. Route!TypeOK /\ Seeds!TypeOK /\ Keys!TypeOK /\ Ideas!TypeOK /\ Estates!TypeOK
    BY RouteTypeOK, SeedsTypeOK, KeysTypeOK, IdeasTypeOK, EstatesTypeOK
  <2> QED
    BY <2>1 DEF BooksTyped, TypeOK
<1> HIDE DEF Inv
<1> QED
  BY <1>1, <1>2, <1>3, PTL DEF Spec
==============================================================================
