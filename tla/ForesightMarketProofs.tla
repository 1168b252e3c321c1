------------------------ MODULE ForesightMarketProofs ------------------------
(***************************************************************************)
(* Theorems about ForesightMarket, for every set of stakers, every purse,  *)
(* every fee up to MAX_FEE_BPS and every pair of times.                    *)
(***************************************************************************)
EXTENDS ForesightMarket, FiniteSetTheorems, TLAPS

------------------------------------------------------------------------------
(* Arithmetic of floored shares. *)

\* A floored quotient of naturals is a natural and never exceeds the exact one.
LEMMA FloorDiv ==
  ASSUME NEW a \in Nat, NEW p \in Nat, p > 0
  PROVE  a \div p \in Nat /\ (a \div p) * p <= a /\ a < (a \div p) * p + p
OBVIOUS

\* Multiplication by a natural is monotone.
LEMMA MulMono ==
  ASSUME NEW x \in Nat, NEW y \in Nat, NEW d \in Nat, x <= y
  PROVE  x * d <= y * d /\ x * d \in Nat /\ y * d \in Nat
OBVIOUS

\* A positive factor cancels.
LEMMA MulCancel ==
  ASSUME NEW x \in Nat, NEW y \in Nat, NEW p \in Nat, p > 0, x * p <= y * p
  PROVE  x <= y
OBVIOUS

\* Multiplication distributes over a sum of two terms.
LEMMA Distrib ==
  ASSUME NEW x \in Int, NEW y \in Int, NEW d \in Int
  PROVE  (x + y) * d = x * d + y * d
OBVIOUS

\* The share of one more winner fits in what the winners before left: paid is
\* what was paid to holders of c of the pool's p wei, b is the next holding.
LEMMA ShareFits ==
  ASSUME NEW paid \in Nat, NEW b \in Nat, NEW c \in Nat, NEW d \in Nat, NEW p \in Nat,
         p > 0, paid * p <= c * d, c + b <= p
  PROVE  /\ (b * d) \div p \in Nat
         /\ (paid + (b * d) \div p) * p <= (c + b) * d
         /\ paid + (b * d) \div p <= d
<1> DEFINE q == (b * d) \div p
<1>1. b * d \in Nat
  OBVIOUS
<1>2. q \in Nat /\ q * p <= b * d
  BY <1>1, FloorDiv
<1> HIDE DEF q
<1>3. (paid + q) * p = paid * p + q * p /\ (c + b) * d = c * d + b * d
  BY <1>2, Distrib
<1>4. paid * p \in Nat /\ q * p \in Nat /\ c * d \in Nat
  BY <1>2
<1>5. (paid + q) * p <= (c + b) * d
  BY <1>1, <1>2, <1>3, <1>4
<1>6. (c + b) * d <= p * d /\ p * d = d * p /\ (c + b) * d \in Nat /\ p * d \in Nat
  BY MulMono
<1>7. (paid + q) * p <= d * p
  BY <1>2, <1>5, <1>6
<1>8. paid + q <= d
  BY <1>2, <1>7, MulCancel
<1> QED
  BY <1>2, <1>5, <1>8 DEF q

\* A share of a pot at least as large as the winning pool is at least the stake.
LEMMA ShareCoversStake ==
  ASSUME NEW b \in Nat, NEW d \in Nat, NEW p \in Nat, p > 0, p <= d
  PROVE  b <= (b * d) \div p
<1> DEFINE q == (b * d) \div p
<1>1. b * d \in Nat /\ b * p <= b * d
  OBVIOUS
<1>2. q \in Nat /\ b * d < q * p + p
  BY <1>1, FloorDiv
<1>3. q * p + p = (q + 1) * p
  BY <1>2, Distrib
<1> HIDE DEF q
<1>4. CASE q + 1 <= b
  <2>1. (q + 1) * p <= b * p /\ (q + 1) * p \in Nat /\ b * p \in Nat
    BY <1>2, <1>4, MulMono
  <2> QED
    BY <1>1, <1>2, <1>3, <2>1
<1> QED
  BY <1>2, <1>4 DEF q

------------------------------------------------------------------------------
(***************************************************************************)
(* A sum over the stakers without recursion: a measure m of the sets of    *)
(* stakers that is additive, and so monotone, for the weights f.  One      *)
(* exists initially and every stake carries it along.                      *)
(***************************************************************************)
Additive(m, f) ==
  /\ m \in [SUBSET Staker -> Nat]
  /\ m[{}] = 0
  /\ \A S \in SUBSET Staker, x \in Staker : x \notin S => m[S \cup {x}] = m[S] + f[x]
  /\ \A S, T \in SUBSET Staker : S \subseteq T => m[S] <= m[T]

stakesOn(o) == [s \in Staker |-> stakes[s][o]]

\* The wei the winners have been paid so far, before any dust is swept.
paidToWinners == distributable + feeOwed - balance

\* The money of a market in each status, in terms of the measures my and mn of
\* the stakes on YES and NO.
OpenBooks ==
  /\ claimed = {} /\ winningStakeClaimed = 0 /\ ~feePaid
  /\ balance = total /\ treasury = 0

VoidBooks(m) ==
  /\ ~feePaid
  /\ balance + m[YES][claimed] + m[NO][claimed] = total

ResolvedBooks(m) ==
  /\ pool[winningOutcome] > 0
  /\ winningStakeClaimed = m[winningOutcome][claimed]
  /\ \/ feePaid /\ balance = 0 /\ winningStakeClaimed = pool[winningOutcome]
     \/ /\ paidToWinners \in Nat
        /\ paidToWinners * pool[winningOutcome] <= winningStakeClaimed * distributable

Books ==
  \E m \in [Outcome -> [SUBSET Staker -> Nat]] :
    /\ \A o \in Outcome : Additive(m[o], stakesOn(o)) /\ m[o][Staker] = pool[o]
    /\ status = "Open" => OpenBooks
    /\ status = "Void" => VoidBooks(m)
    /\ status = "Resolved" => ResolvedBooks(m)

\* What every staker holds outside the contract.
Purses ==
  \A s \in Staker :
    /\ s \notin claimed => purse[s] = Funds - (stakes[s][YES] + stakes[s][NO])
    /\ s \in claimed /\ status = "Void" => purse[s] = Funds
    /\ s \in claimed /\ status = "Resolved" =>
         purse[s] + stakes[s][1 - winningOutcome] >= Funds
    /\ stakes[s][YES] + stakes[s][NO] <= Funds

IInv == TypeOK /\ Books /\ Purses

------------------------------------------------------------------------------
(* Facts about the views in a typed state. *)

\* The fee fits in the losing pool, so the pot covers the winning pool.
LEMMA FeeFacts ==
  ASSUME TypeOK
  PROVE  /\ feeAmount \in Nat /\ feeOwed \in Nat /\ total \in Nat
         /\ distributable \in Nat /\ distributable + feeAmount = total
         /\ status # "Resolved" => feeAmount = 0
         /\ status = "Resolved" => pool[winningOutcome] <= distributable
<1>1. 1 - winningOutcome \in Outcome /\ pool[1 - winningOutcome] \in Nat
  BY DEF TypeOK, Outcome, YES, NO
<1>2. total \in Nat /\ total = pool[winningOutcome] + pool[1 - winningOutcome]
      /\ pool[winningOutcome] \in Nat
  BY DEF TypeOK, Outcome, YES, NO, total
<1>3. CASE status = "Resolved"
  <2> DEFINE l == pool[1 - winningOutcome]
  <2>1. l \in Nat /\ feeBps \in Nat /\ feeBps <= BPS
    BY <1>1, ConstructorAssumption DEF MAX_FEE_BPS, BPS
  <2>2. l * feeBps \in Nat /\ l * feeBps <= l * BPS
    BY <2>1 DEF BPS
  <2>3. (l * feeBps) \div BPS \in Nat /\ ((l * feeBps) \div BPS) * BPS <= l * feeBps
    BY <2>2, FloorDiv DEF BPS
  <2>4. feeAmount = (l * feeBps) \div BPS
    BY <1>3 DEF feeAmount
  <2>5. feeAmount \in Nat /\ feeAmount <= l
    BY <2>1, <2>2, <2>3, <2>4 DEF BPS
  <2> QED
    BY <1>2, <1>3, <2>1, <2>5 DEF distributable, feeOwed
<1>4. CASE status # "Resolved"
  BY <1>2, <1>4 DEF feeAmount, feeOwed, distributable
<1> QED
  BY <1>3, <1>4

\* The same facts one step later.
LEMMA FeeFactsNext ==
  TypeOK' => feeAmount' \in Nat /\ distributable' \in Nat
             /\ distributable' + feeAmount' = total'
<1>1. TypeOK => feeAmount \in Nat /\ distributable \in Nat /\ distributable + feeAmount = total
  BY FeeFacts
<1>2. (TypeOK => feeAmount \in Nat /\ distributable \in Nat /\ distributable + feeAmount = total)'
  BY <1>1, PTL
<1> QED
  BY <1>2

\* What a staker is owed, by status.
LEMMA PayoutFacts ==
  ASSUME TypeOK, NEW s \in Staker,
         status = "Resolved" => pool[winningOutcome] > 0
  PROVE  /\ payoutOf(s) \in Nat
         /\ status = "Void" /\ s \notin claimed =>
              payoutOf(s) = stakes[s][YES] + stakes[s][NO]
         /\ status = "Resolved" /\ s \notin claimed =>
              payoutOf(s) = (stakes[s][winningOutcome] * distributable)
                              \div pool[winningOutcome]
         /\ status = "Open" \/ s \in claimed => payoutOf(s) = 0
<1>1. stakes[s][YES] \in Nat /\ stakes[s][NO] \in Nat /\ stakes[s][winningOutcome] \in Nat
      /\ pool[winningOutcome] \in Nat /\ status \in Status
  BY DEF TypeOK, Outcome, YES, NO
<1>2. distributable \in Nat
  BY FeeFacts
<1>3. CASE status = "Resolved" /\ s \notin claimed
  <2>1. stakes[s][winningOutcome] * distributable \in Nat
    BY <1>1, <1>2
  <2>2. (stakes[s][winningOutcome] * distributable) \div pool[winningOutcome] \in Nat
    BY <1>1, <1>3, <2>1, FloorDiv
  <2>3. CASE stakes[s][winningOutcome] = 0
    <3>1. stakes[s][winningOutcome] * distributable = 0
      BY <1>2, <2>3
    <3>2. 0 \div pool[winningOutcome] = 0
      BY <1>1, <1>3
    <3> QED
      BY <1>3, <2>3, <3>1, <3>2 DEF payoutOf
  <2>4. CASE stakes[s][winningOutcome] # 0
    BY <1>3, <2>2, <2>4 DEF payoutOf
  <2> QED
    BY <2>3, <2>4
<1>4. CASE ~(status = "Resolved" /\ s \notin claimed)
  BY <1>1, <1>4 DEF payoutOf, Status
<1> QED
  BY <1>3, <1>4

------------------------------------------------------------------------------
\* The inductive invariant implies that every claim is covered.
LEMMA CoveredByIInv ==
  ASSUME IInv
  PROVE  ClaimsCovered
<1> SUFFICES ASSUME NEW s \in Staker
             PROVE  payoutOf(s) + feeOwed <= balance
  BY DEF ClaimsCovered
<1>1. PICK m \in [Outcome -> [SUBSET Staker -> Nat]] :
        /\ \A o \in Outcome : Additive(m[o], stakesOn(o)) /\ m[o][Staker] = pool[o]
        /\ status = "Open" => OpenBooks
        /\ status = "Void" => VoidBooks(m)
        /\ status = "Resolved" => ResolvedBooks(m)
  BY DEF IInv, Books
<1>2. TypeOK
  BY DEF IInv
<1>3. \A o \in Outcome : /\ pool[o] \in Nat /\ stakes[s][o] \in Nat
                         /\ m[o][claimed] \in Nat /\ m[o][claimed] <= pool[o]
                         /\ s \notin claimed => m[o][claimed] + stakes[s][o] <= pool[o]
  <2> SUFFICES ASSUME NEW o \in Outcome
               PROVE  /\ pool[o] \in Nat /\ stakes[s][o] \in Nat
                      /\ m[o][claimed] \in Nat /\ m[o][claimed] <= pool[o]
                      /\ s \notin claimed => m[o][claimed] + stakes[s][o] <= pool[o]
    OBVIOUS
  <2>1. claimed \in SUBSET Staker /\ claimed \cup {s} \in SUBSET Staker /\ Staker \in SUBSET Staker
    BY <1>2 DEF TypeOK
  <2>2. m[o][claimed \cup {s}] <= m[o][Staker] /\ m[o][claimed] <= m[o][Staker]
    BY <1>1, <2>1 DEF Additive
  <2>3. s \notin claimed => m[o][claimed \cup {s}] = m[o][claimed] + stakes[s][o]
    BY <1>1, <2>1 DEF Additive, stakesOn
  <2> QED
    BY <1>1, <1>2, <2>1, <2>2, <2>3 DEF TypeOK
<1>4. YES \in Outcome /\ NO \in Outcome /\ winningOutcome \in Outcome
      /\ status \in Status /\ balance \in Nat
  BY <1>2 DEF TypeOK, Outcome
<1>5. CASE status = "Open"
  BY <1>1, <1>2, <1>4, <1>5, FeeFacts, PayoutFacts DEF OpenBooks, feeOwed
<1>6. CASE status = "Void"
  <2>1. feeOwed = 0
    BY <1>2, <1>6, FeeFacts DEF feeOwed
  <2>2. CASE s \in claimed
    BY <1>2, <1>4, <1>6, <2>1, <2>2, PayoutFacts
  <2>3. CASE s \notin claimed
    BY <1>1, <1>2, <1>3, <1>4, <1>6, <2>1, <2>3, PayoutFacts DEF VoidBooks, total
  <2> QED
    BY <2>2, <2>3
<1>7. CASE status = "Resolved"
  <2>1. pool[winningOutcome] > 0 /\ winningStakeClaimed = m[winningOutcome][claimed]
        /\ feeOwed \in Nat /\ distributable \in Nat
    BY <1>1, <1>2, <1>7, FeeFacts DEF ResolvedBooks
  <2> DEFINE w == winningOutcome
             c == winningStakeClaimed
             b == stakes[s][w]
  <2>0. c \in Nat /\ pool[w] \in Nat /\ b \in Nat /\ c <= pool[w]
        /\ (s \notin claimed => c + b <= pool[w])
    BY <1>3, <1>4, <2>1
  <2>2. CASE feePaid /\ balance = 0 /\ winningStakeClaimed = pool[winningOutcome]
    <3>1. feeOwed = 0
      BY <2>2 DEF feeOwed
    <3>2. s \notin claimed => stakes[s][winningOutcome] = 0
      BY <2>0, <2>2
    <3>3. payoutOf(s) = 0
      BY <1>7, <3>2 DEF payoutOf
    <3> QED
      BY <2>2, <3>1, <3>3
  <2>3. CASE /\ paidToWinners \in Nat
             /\ paidToWinners * pool[winningOutcome] <= winningStakeClaimed * distributable
    <3>1. CASE s \in claimed
      <4>1. paidToWinners + 0 <= distributable
        <5>1. c * distributable <= pool[w] * distributable
              /\ c * distributable \in Nat /\ pool[w] * distributable \in Nat
              /\ pool[w] * distributable = distributable * pool[w]
              /\ paidToWinners * pool[w] \in Nat
          BY <2>0, <2>1, <2>3, MulMono
        <5>2. paidToWinners * pool[w] <= distributable * pool[w]
          BY <2>3, <5>1
        <5>3. paidToWinners <= distributable
          BY <2>0, <2>1, <2>3, <5>2, MulCancel
        <5> QED
          BY <2>1, <2>3, <5>3
      <4> QED
        BY <1>2, <1>4, <1>7, <2>1, <3>1, <4>1, PayoutFacts DEF paidToWinners
    <3>2. CASE s \notin claimed
      <4>1. paidToWinners + (stakes[s][winningOutcome] * distributable)
                              \div pool[winningOutcome] <= distributable
        BY <2>0, <2>1, <2>3, <3>2, ShareFits
      <4> QED
        BY <1>2, <1>4, <1>7, <2>1, <3>2, <4>1, PayoutFacts DEF paidToWinners
    <3> QED
      BY <3>1, <3>2
  <2> QED
    BY <1>1, <1>7, <2>2, <2>3 DEF ResolvedBooks
<1> QED
  BY <1>4, <1>5, <1>6, <1>7 DEF Status

------------------------------------------------------------------------------
(* Type correctness is preserved on its own but for the payouts, which need  *)
(* the winning pool to be positive.                                          *)

\* A market is only ever resolved to an outcome somebody staked on.
LEMMA PositivePool ==
  ASSUME IInv
  PROVE  status = "Resolved" => pool[winningOutcome] > 0
BY DEF IInv, Books, ResolvedBooks

\* Every action, and a stutter, keeps every variable in its type.
LEMMA TypeStep ==
  ASSUME IInv, [Next]_vars
  PROVE  TypeOK'
<1>0. TypeOK
  BY DEF IInv
<1>1. ASSUME NEW s \in Staker, NEW o \in Outcome, NEW v \in StakeSizes, stake(s, o, v)
      PROVE  TypeOK'
  BY <1>0, <1>1, EnvironmentAssumption DEF stake, decision, TypeOK
<1>2. ASSUME NEW c \in Caller, NEW n \in OracleNonces, NEW a \in OracleAction,
             oracleAct(c, n, a)
      PROVE  TypeOK'
  BY <1>0, <1>2 DEF oracleAct, book, TypeOK, outcomeOf, Outcome, Status, YES, NO
<1>3. ASSUME NEW s \in Staker, claim(s)
      PROVE  TypeOK'
  <2>1. payoutOf(s) \in Nat
    BY <1>0, PayoutFacts, PositivePool
  <2>2. stakes[s][winningOutcome] \in Nat
    BY <1>0 DEF TypeOK
  <2> QED
    BY <1>0, <1>3, <2>1, <2>2 DEF claim, decision, book, TypeOK
<1>4. CASE settle
  BY <1>0, <1>4, FeeFacts DEF settle, decision, book, TypeOK
<1>5. CASE sweepDust
  BY <1>0, <1>5 DEF sweepDust, decision, book, TypeOK
<1>6. CASE Tick
  BY <1>0, <1>6 DEF Tick, decision, book, TypeOK
<1>7. CASE UNCHANGED vars
  BY <1>0, <1>7 DEF vars, decision, book, TypeOK
<1> QED
  BY <1>1, <1>2, <1>3, <1>4, <1>5, <1>6, <1>7 DEF Next

\* The views read nothing but the decision, the book and the fee flag.
LEMMA SameViews ==
  ASSUME UNCHANGED <<decision, book>>
  PROVE  /\ total' = total /\ feeAmount' = feeAmount /\ distributable' = distributable
         /\ \A o \in Outcome : stakesOn(o)' = stakesOn(o)
         /\ feePaid' = feePaid => feeOwed' = feeOwed
BY DEF decision, book, total, feeAmount, distributable, stakesOn, feeOwed

\* The zero measure is additive for the empty book.
LEMMA BooksInit == Init => Books
<1> SUFFICES ASSUME Init PROVE Books
  OBVIOUS
<1> DEFINE m == [o \in Outcome |-> [S \in SUBSET Staker |-> 0]]
<1>1. m \in [Outcome -> [SUBSET Staker -> Nat]]
  OBVIOUS
<1>2. \A o \in Outcome : Additive(m[o], stakesOn(o)) /\ m[o][Staker] = pool[o]
  BY DEF Init, Additive, stakesOn
<1>3. status = "Open" /\ OpenBooks
  BY DEF Init, OpenBooks, total, Outcome, YES, NO
<1> QED
  BY <1>1, <1>2, <1>3 DEF Books

\* A stake adds one holding to the book: the measure of the larger book is
\* built from the measure of the smaller one.
LEMMA BooksStake ==
  ASSUME IInv, NEW s \in Staker, NEW o \in Outcome, NEW v \in StakeSizes, stake(s, o, v)
  PROVE  Books'
<1>1. PICK m \in [Outcome -> [SUBSET Staker -> Nat]] :
        /\ \A p \in Outcome : Additive(m[p], stakesOn(p)) /\ m[p][Staker] = pool[p]
        /\ status = "Open" => OpenBooks
  BY DEF IInv, Books
<1>2. TypeOK /\ v \in Nat
  BY EnvironmentAssumption DEF IInv
<1> DEFINE mo == [S \in SUBSET Staker |-> IF s \in S THEN m[o][S] + v ELSE m[o][S]]
           mm == [m EXCEPT ![o] = mo]
<1>3. mo \in [SUBSET Staker -> Nat] /\ mm \in [Outcome -> [SUBSET Staker -> Nat]]
  <2>1. \A S \in SUBSET Staker : m[o][S] \in Nat /\ m[o][S] + v \in Nat
    BY <1>2
  <2>2. mo \in [SUBSET Staker -> Nat]
    BY <2>1
  <2> HIDE DEF mo
  <2> QED
    BY <2>2
<1>4. stakesOn(o)' = [stakesOn(o) EXCEPT ![s] = @ + v]
      /\ \A p \in Outcome : p # o => stakesOn(p)' = stakesOn(p)
  BY <1>2 DEF stake, stakesOn, TypeOK
<1>5. Additive(mo, stakesOn(o)')
  <2>1. mo[{}] = 0
    BY <1>1 DEF Additive
  <2>2. ASSUME NEW S \in SUBSET Staker, NEW x \in Staker, x \notin S
        PROVE  mo[S \cup {x}] = mo[S] + stakesOn(o)'[x]
    <3>1. m[o][S \cup {x}] = m[o][S] + stakesOn(o)[x] /\ m[o][S] \in Nat
          /\ stakesOn(o)[x] \in Nat /\ S \cup {x} \in SUBSET Staker
      BY <1>1, <1>2, <2>2 DEF Additive, stakesOn, TypeOK
    <3>2. stakesOn(o)'[x] = IF x = s THEN stakesOn(o)[x] + v ELSE stakesOn(o)[x]
      BY <1>4 DEF stakesOn
    <3> QED
      BY <1>2, <2>2, <3>1, <3>2
  <2>3. ASSUME NEW S \in SUBSET Staker, NEW T \in SUBSET Staker, S \subseteq T
        PROVE  mo[S] <= mo[T]
    <3>1. m[o][S] <= m[o][T] /\ m[o][S] \in Nat /\ m[o][T] \in Nat
      BY <1>1, <2>3 DEF Additive
    <3> QED
      BY <1>2, <2>3, <3>1
  <2> HIDE DEF mo
  <2> QED
    BY <1>3, <2>1, <2>2, <2>3 DEF Additive
<1>6. \A p \in Outcome : Additive(mm[p], stakesOn(p)') /\ mm[p][Staker] = pool'[p]
  <2> SUFFICES ASSUME NEW p \in Outcome
               PROVE  Additive(mm[p], stakesOn(p)') /\ mm[p][Staker] = pool'[p]
    OBVIOUS
  <2>1. CASE p = o
    <3>1. mm[p] = mo
      BY <2>1
    <3>2. mo[Staker] = m[o][Staker] + v
      OBVIOUS
    <3>3. pool'[o] = pool[o] + v
      BY <1>2 DEF stake, TypeOK
    <3> HIDE DEF mo, mm
    <3> QED
      BY <1>1, <1>5, <2>1, <3>1, <3>2, <3>3
  <2>2. CASE p # o
    <3>1. mm[p] = m[p] /\ pool'[p] = pool[p]
      BY <1>2, <2>2 DEF stake, TypeOK
    <3> HIDE DEF mm
    <3> QED
      BY <1>1, <1>4, <2>2, <3>1
  <2> QED
    BY <2>1, <2>2
<1>7. status' = "Open" /\ OpenBooks'
  <2>1. status = "Open" /\ OpenBooks
    BY <1>1 DEF stake
  <2>2. total' = total + v /\ total \in Nat
    BY <1>2, FeeFacts DEF stake, total, TypeOK, Outcome, YES, NO
  <2> QED
    BY <1>2, <2>1, <2>2 DEF stake, OpenBooks, decision, TypeOK
<1> HIDE DEF mm, mo
<1> QED
  BY <1>3, <1>6, <1>7 DEF Books

\* The oracle turns an open book into a void or a resolved one, with nothing
\* paid out yet.
LEMMA BooksOracle ==
  ASSUME IInv, NEW c \in Caller, NEW n \in OracleNonces, NEW a \in OracleAction,
         oracleAct(c, n, a)
  PROVE  Books'
<1>1. PICK m \in [Outcome -> [SUBSET Staker -> Nat]] :
        /\ \A p \in Outcome : Additive(m[p], stakesOn(p)) /\ m[p][Staker] = pool[p]
        /\ status = "Open" => OpenBooks
  BY DEF IInv, Books
<1>2. TypeOK /\ TypeOK'
  BY TypeStep DEF IInv, Next
<1>3. OpenBooks /\ status' # "Open"
  BY <1>1 DEF oracleAct
<1>4. /\ \A p \in Outcome : stakesOn(p)' = stakesOn(p)
      /\ pool' = pool /\ claimed' = {} /\ winningStakeClaimed' = 0
      /\ feePaid' = feePaid /\ feePaid = FALSE /\ balance' = total /\ total' = total
  BY <1>2, <1>3 DEF oracleAct, book, stakesOn, total, OpenBooks, TypeOK
<1>5. \A p \in Outcome : m[p][claimed'] = 0
  BY <1>1, <1>4 DEF Additive
<1>6. YES \in Outcome /\ NO \in Outcome /\ winningOutcome' \in Outcome
  BY <1>2 DEF Outcome, TypeOK
<1>7. VoidBooks(m)'
  BY <1>2, <1>4, <1>5, <1>6, FeeFacts DEF VoidBooks
<1>8. ASSUME status' = "Resolved"
      PROVE  ResolvedBooks(m)'
  <2>1. pool'[winningOutcome'] > 0
    <3>1. pool[outcomeOf(a)] # 0 /\ winningOutcome' = outcomeOf(a)
      BY <1>8 DEF oracleAct
    <3>2. outcomeOf(a) \in Outcome
      BY DEF outcomeOf, Outcome
    <3> QED
      BY <1>2, <1>4, <3>1, <3>2 DEF TypeOK
  <2>2. /\ feeAmount' \in Nat /\ distributable' \in Nat
        /\ distributable' + feeAmount' = total'
    BY <1>2, FeeFactsNext
  <2>3. paidToWinners' = 0
    BY <1>2, <1>4, <2>2 DEF paidToWinners, feeOwed
  <2>4. 0 * pool'[winningOutcome'] <= 0 * distributable'
    BY <1>2, <1>6, <2>2 DEF TypeOK
  <2> QED
    BY <1>4, <1>5, <1>6, <2>1, <2>3, <2>4 DEF ResolvedBooks
<1> QED
  BY <1>1, <1>3, <1>4, <1>7, <1>8 DEF Books

\* A claim pays one more holding out of what its measure says is left.
LEMMA BooksClaim ==
  ASSUME IInv, NEW s \in Staker, claim(s)
  PROVE  Books'
<1>1. PICK m \in [Outcome -> [SUBSET Staker -> Nat]] :
        /\ \A p \in Outcome : Additive(m[p], stakesOn(p)) /\ m[p][Staker] = pool[p]
        /\ status = "Void" => VoidBooks(m)
        /\ status = "Resolved" => ResolvedBooks(m)
  BY DEF IInv, Books
<1>2. TypeOK /\ payoutOf(s) \in Nat /\ s \notin claimed /\ payoutOf(s) > 0
  BY PayoutFacts, PositivePool DEF IInv, claim
<1>3. UNCHANGED <<decision, book, feePaid>> /\ balance' = balance - payoutOf(s)
      /\ claimed' = claimed \cup {s}
  BY DEF claim
<1>4. /\ pool' = pool /\ status' = status /\ winningOutcome' = winningOutcome
      /\ total' = total /\ distributable' = distributable /\ feeOwed' = feeOwed
      /\ \A p \in Outcome : stakesOn(p)' = stakesOn(p)
  BY <1>3, SameViews DEF decision, book
<1>5. \A p \in Outcome : /\ m[p][claimed \cup {s}] = m[p][claimed] + stakes[s][p]
                         /\ m[p][claimed] \in Nat /\ stakes[s][p] \in Nat
                         /\ m[p][claimed \cup {s}] <= pool[p] /\ pool[p] \in Nat
  <2>1. claimed \in SUBSET Staker /\ claimed \cup {s} \in SUBSET Staker /\ Staker \in SUBSET Staker
    BY <1>2 DEF TypeOK
  <2> SUFFICES ASSUME NEW p \in Outcome
               PROVE  /\ m[p][claimed \cup {s}] = m[p][claimed] + stakes[s][p]
                      /\ m[p][claimed] \in Nat /\ stakes[s][p] \in Nat
                      /\ m[p][claimed \cup {s}] <= pool[p] /\ pool[p] \in Nat
    OBVIOUS
  <2>2. m[p][claimed \cup {s}] <= m[p][Staker]
    BY <1>1, <2>1 DEF Additive
  <2>3. m[p][claimed \cup {s}] = m[p][claimed] + stakes[s][p]
    BY <1>1, <1>2, <2>1 DEF Additive, stakesOn
  <2> QED
    BY <1>1, <1>2, <2>1, <2>2, <2>3 DEF TypeOK
<1>6. YES \in Outcome /\ NO \in Outcome /\ winningOutcome \in Outcome
      /\ balance \in Nat /\ status \in Status
  BY <1>2 DEF TypeOK, Outcome
<1>7. CASE status = "Void"
  <2>1. payoutOf(s) = stakes[s][YES] + stakes[s][NO]
    BY <1>2, <1>7, PayoutFacts
  <2>2. /\ m[YES][claimed'] = m[YES][claimed] + stakes[s][YES]
        /\ m[NO][claimed'] = m[NO][claimed] + stakes[s][NO]
        /\ m[YES][claimed] \in Nat /\ m[NO][claimed] \in Nat
        /\ stakes[s][YES] \in Nat /\ stakes[s][NO] \in Nat
    BY <1>3, <1>5, <1>6
  <2>3. ~feePaid' /\ balance + m[YES][claimed] + m[NO][claimed] = total
    BY <1>1, <1>3, <1>7 DEF VoidBooks
  <2>4. VoidBooks(m)'
    BY <1>3, <1>4, <1>6, <2>1, <2>2, <2>3 DEF VoidBooks
  <2> QED
    BY <1>1, <1>4, <1>7, <2>4 DEF Books
<1>8. CASE status = "Resolved"
  <2> DEFINE w == winningOutcome
             b == stakes[s][w]
             q == (b * distributable) \div pool[w]
  <2>1. /\ pool[w] > 0 /\ winningStakeClaimed = m[w][claimed]
        /\ distributable \in Nat /\ feeOwed \in Nat /\ b \in Nat
        /\ winningStakeClaimed + b <= pool[w] /\ winningStakeClaimed \in Nat
    BY <1>1, <1>2, <1>5, <1>6, <1>8, FeeFacts DEF ResolvedBooks
  <2>2. payoutOf(s) = q
    BY <1>2, <1>8, <2>1, PayoutFacts
  <2>3. balance > 0
    BY <1>2, <1>6 DEF claim
  <2>4. paidToWinners \in Nat /\ paidToWinners * pool[w] <= winningStakeClaimed * distributable
    BY <1>1, <1>8, <2>3 DEF ResolvedBooks
  <2>5. (paidToWinners + q) * pool[w] <= (winningStakeClaimed + b) * distributable
        /\ q \in Nat
    BY <1>5, <1>6, <2>1, <2>4, ShareFits
  <2> HIDE DEF q
  <2>6. paidToWinners' = paidToWinners + q
    BY <1>3, <1>4, <1>6, <2>1, <2>2, <2>5 DEF paidToWinners
  <2>7. winningStakeClaimed' = winningStakeClaimed + b
    BY <1>8 DEF claim
  <2>8. winningStakeClaimed' = m[w][claimed']
    BY <1>3, <1>5, <1>6, <2>1, <2>7
  <2>9. ResolvedBooks(m)'
    BY <1>4, <2>1, <2>4, <2>5, <2>6, <2>7, <2>8 DEF ResolvedBooks
  <2> QED
    BY <1>1, <1>4, <1>8, <2>9 DEF Books
<1> QED
  BY <1>6, <1>7, <1>8 DEF claim, Status

\* settle moves the fee from the balance to the fees paid.
LEMMA BooksSettle ==
  ASSUME IInv, settle
  PROVE  Books'
<1>1. PICK m \in [Outcome -> [SUBSET Staker -> Nat]] :
        /\ \A p \in Outcome : Additive(m[p], stakesOn(p)) /\ m[p][Staker] = pool[p]
        /\ ResolvedBooks(m)
  BY DEF IInv, Books, settle
<1>2. TypeOK
  BY DEF IInv
<1>3. /\ UNCHANGED <<decision, book>> /\ UNCHANGED <<claimed, winningStakeClaimed>>
      /\ status = "Resolved" /\ ~feePaid /\ feePaid' = TRUE /\ balance' = balance - feeAmount
  BY DEF settle
<1>4. /\ pool' = pool /\ status' = status /\ winningOutcome' = winningOutcome
      /\ distributable' = distributable
      /\ \A p \in Outcome : stakesOn(p)' = stakesOn(p)
  BY <1>3, SameViews DEF decision, book
<1>5. paidToWinners' = paidToWinners
  BY <1>2, <1>3, <1>4, FeeFacts DEF paidToWinners, feeOwed, TypeOK
<1>6. ResolvedBooks(m)'
  BY <1>1, <1>3, <1>4, <1>5 DEF ResolvedBooks
<1> QED
  BY <1>1, <1>3, <1>4, <1>6 DEF Books

\* sweepDust takes what is left once the whole winning pool has claimed.
LEMMA BooksSweep ==
  ASSUME IInv, sweepDust
  PROVE  Books'
<1>1. PICK m \in [Outcome -> [SUBSET Staker -> Nat]] :
        /\ \A p \in Outcome : Additive(m[p], stakesOn(p)) /\ m[p][Staker] = pool[p]
        /\ ResolvedBooks(m)
  BY DEF IInv, Books, sweepDust
<1>2. /\ UNCHANGED <<decision, book, feePaid>> /\ UNCHANGED <<claimed, winningStakeClaimed>>
      /\ status = "Resolved" /\ feePaid /\ balance' = 0
      /\ winningStakeClaimed = pool[winningOutcome]
  BY DEF sweepDust
<1>3. /\ pool' = pool /\ status' = status /\ winningOutcome' = winningOutcome
      /\ \A p \in Outcome : stakesOn(p)' = stakesOn(p)
  BY <1>2, SameViews DEF decision, book
<1>4. ResolvedBooks(m)'
  BY <1>1, <1>2, <1>3 DEF ResolvedBooks
<1> QED
  BY <1>1, <1>2, <1>3, <1>4 DEF Books

\* A step that only lets time pass, or stutters.
LEMMA BooksTick ==
  ASSUME IInv, UNCHANGED <<decision, book, claimed, winningStakeClaimed, feePaid,
                           balance, purse, treasury>>
  PROVE  Books'
<1>1. PICK m \in [Outcome -> [SUBSET Staker -> Nat]] :
        /\ \A o \in Outcome : Additive(m[o], stakesOn(o)) /\ m[o][Staker] = pool[o]
        /\ status = "Open" => OpenBooks
        /\ status = "Void" => VoidBooks(m)
        /\ status = "Resolved" => ResolvedBooks(m)
  BY DEF IInv, Books
<1>2. /\ pool' = pool /\ status' = status /\ winningOutcome' = winningOutcome
      /\ total' = total /\ distributable' = distributable /\ feeOwed' = feeOwed
      /\ paidToWinners' = paidToWinners
      /\ \A p \in Outcome : stakesOn(p)' = stakesOn(p)
  BY SameViews DEF decision, book, paidToWinners
<1>3. OpenBooks' = OpenBooks /\ VoidBooks(m)' = VoidBooks(m) /\ ResolvedBooks(m)' = ResolvedBooks(m)
  BY <1>2 DEF OpenBooks, VoidBooks, ResolvedBooks
<1> QED
  BY <1>1, <1>2, <1>3 DEF Books

\* Every step keeps the books: one lemma per action above.
LEMMA BooksStep ==
  ASSUME IInv, [Next]_vars
  PROVE  Books'
<1>1. CASE UNCHANGED vars
  BY <1>1, BooksTick DEF vars
<1>2. CASE Tick
  BY <1>2, BooksTick DEF Tick
<1> QED
  BY <1>1, <1>2, BooksStake, BooksOracle, BooksClaim, BooksSettle, BooksSweep DEF Next

------------------------------------------------------------------------------
(* The purses. *)

\* Every step keeps, for each staker, purse and stake adding up to the funds
\* before the claim, and at least the promised amount after it.
LEMMA PursesStep ==
  ASSUME IInv, [Next]_vars
  PROVE  Purses'
<1>0. TypeOK /\ Purses /\ (status = "Open" => claimed = {})
  BY DEF IInv, Books, OpenBooks
<1>1. ASSUME NEW t \in Staker
      PROVE  /\ stakes[t][YES] \in Nat /\ stakes[t][NO] \in Nat /\ purse[t] \in Nat
             /\ winningOutcome \in Outcome /\ {YES, NO} = Outcome
             /\ status \in Status /\ Funds \in Nat
  BY <1>0, EnvironmentAssumption DEF TypeOK, Outcome, YES, NO
<1>2. ASSUME NEW s \in Staker, NEW o \in Outcome, NEW v \in StakeSizes, stake(s, o, v)
      PROVE  Purses'
  <2> SUFFICES ASSUME NEW t \in Staker
               PROVE  /\ purse'[t] = Funds - (stakes'[t][YES] + stakes'[t][NO])
                      /\ stakes'[t][YES] + stakes'[t][NO] <= Funds
                      /\ claimed' = {}
    BY DEF Purses
  <2>1. claimed' = {} /\ claimed = {} /\ v \in Nat /\ v <= purse[s]
    BY <1>0, <1>2, EnvironmentAssumption DEF stake
  <2>2. CASE t = s
    BY <1>0, <1>1, <1>2, <2>1, <2>2 DEF stake, Purses, TypeOK, Outcome, YES, NO
  <2>3. CASE t # s
    BY <1>0, <1>1, <1>2, <2>1, <2>3 DEF stake, Purses, TypeOK
  <2> QED
    BY <2>1, <2>2, <2>3
<1>3. ASSUME NEW c \in Caller, NEW n \in OracleNonces, NEW a \in OracleAction,
             oracleAct(c, n, a)
      PROVE  Purses'
  BY <1>0, <1>3 DEF oracleAct, book, Purses
<1>4. ASSUME NEW s \in Staker, claim(s)
      PROVE  Purses'
  <2> SUFFICES ASSUME NEW t \in Staker
               PROVE  /\ t \notin claimed' =>
                           purse'[t] = Funds - (stakes'[t][YES] + stakes'[t][NO])
                      /\ t \in claimed' /\ status' = "Void" => purse'[t] = Funds
                      /\ t \in claimed' /\ status' = "Resolved" =>
                           purse'[t] + stakes'[t][1 - winningOutcome'] >= Funds
                      /\ stakes'[t][YES] + stakes'[t][NO] <= Funds
    BY DEF Purses
  <2>1. /\ UNCHANGED <<decision, book>> /\ claimed' = claimed \cup {s} /\ s \notin claimed
        /\ purse' = [purse EXCEPT ![s] = @ + payoutOf(s)] /\ status # "Open"
    BY <1>4 DEF claim
  <2>2. status' = status /\ winningOutcome' = winningOutcome /\ stakes' = stakes
    BY <2>1 DEF decision, book
  <2>3. CASE t # s
    BY <1>0, <2>1, <2>2, <2>3 DEF Purses, TypeOK
  <2>4. CASE t = s
    <3>1. purse'[t] = purse[t] + payoutOf(s) /\ payoutOf(s) \in Nat
          /\ purse[t] = Funds - (stakes[t][YES] + stakes[t][NO])
      BY <1>0, <2>1, <2>4, PayoutFacts, PositivePool DEF Purses, TypeOK
    <3>2. ASSUME status = "Void"
          PROVE  purse'[t] = Funds
      BY <1>0, <1>1, <2>1, <2>4, <3>1, <3>2, PayoutFacts
    <3>3. ASSUME status = "Resolved"
          PROVE  purse'[t] + stakes[t][1 - winningOutcome] >= Funds
      <4>1. pool[winningOutcome] > 0 /\ pool[winningOutcome] <= distributable
            /\ pool[winningOutcome] \in Nat /\ distributable \in Nat
            /\ stakes[s][winningOutcome] \in Nat
        BY <1>0, <3>3, FeeFacts, PositivePool DEF TypeOK
      <4>2. stakes[s][winningOutcome] <= payoutOf(s)
        <5>1. payoutOf(s) = (stakes[s][winningOutcome] * distributable) \div pool[winningOutcome]
          BY <1>0, <2>1, <3>3, <4>1, PayoutFacts
        <5> QED
          BY <4>1, <5>1, ShareCoversStake
      <4>3. stakes[t][YES] + stakes[t][NO]
              = stakes[t][winningOutcome] + stakes[t][1 - winningOutcome]
            /\ stakes[t][1 - winningOutcome] \in Nat
        BY <1>0, <1>1 DEF TypeOK, Outcome, YES, NO
      <4> QED
        BY <1>1, <2>4, <3>1, <4>1, <4>2, <4>3
    <3> QED
      BY <1>0, <2>1, <2>2, <2>4, <3>2, <3>3 DEF Purses
  <2> QED
    BY <2>3, <2>4
<1>5. CASE settle
  BY <1>0, <1>5 DEF settle, decision, book, Purses
<1>6. CASE sweepDust
  BY <1>0, <1>6 DEF sweepDust, decision, book, Purses
<1>7. CASE Tick
  BY <1>0, <1>7 DEF Tick, decision, book, Purses
<1>8. CASE UNCHANGED vars
  BY <1>0, <1>8 DEF vars, decision, book, Purses
<1> QED
  BY <1>2, <1>3, <1>4, <1>5, <1>6, <1>7, <1>8 DEF Next

------------------------------------------------------------------------------
(* The dust.  The floor of a share leaves less than one wei of it behind, so  *)
(* what the winners were not paid is less than one wei for each of them.      *)

\* The winners before left at most n times p - 1 parts of the p of a wei; the
\* next share leaves at most p - 1 parts more.
LEMMA ShareLeavesLittle ==
  ASSUME NEW paid \in Int, NEW b \in Nat, NEW c \in Nat, NEW d \in Nat, NEW p \in Nat,
         NEW n \in Nat, p > 0, c * d <= paid * p + n * (p - 1)
  PROVE  (c + b) * d <= (paid + (b * d) \div p) * p + (n + 1) * (p - 1)
<1> DEFINE q == (b * d) \div p
<1>1. b * d \in Nat
  OBVIOUS
<1>2. q \in Nat /\ b * d <= q * p + (p - 1)
  BY <1>1, FloorDiv
<1> HIDE DEF q
<1>3. (paid + q) * p = paid * p + q * p /\ (c + b) * d = c * d + b * d
      /\ (n + 1) * (p - 1) = n * (p - 1) + 1 * (p - 1)
  BY <1>2, Distrib
<1>4. paid * p \in Int /\ q * p \in Int /\ c * d \in Int /\ n * (p - 1) \in Int
  BY <1>2
<1> QED
  BY <1>1, <1>2, <1>3, <1>4 DEF q

\* Once the whole pool has claimed, what is left is less than a wei for each of
\* the n who did.
LEMMA LeftIsLittle ==
  ASSUME NEW left \in Nat, NEW d \in Nat, NEW p \in Nat, NEW n \in Nat,
         p > 0, left > 0, p * d <= (d - left) * p + n * (p - 1)
  PROVE  left < n
<1>1. (d - left) * p = d * p - left * p /\ p * d = d * p /\ d * p \in Int /\ left * p \in Int
      /\ n * (p - 1) \in Int
  OBVIOUS
<1>2. left * p <= n * (p - 1)
  BY <1>1
<1>3. CASE n <= left
  <2>1. n * (p - 1) <= left * (p - 1)
    BY <1>3, MulMono
  <2>2. left * (p - 1) = left * p - left
    OBVIOUS
  <2> QED
    BY <1>1, <1>2, <2>1, <2>2
<1> QED
  BY <1>3

\* Who has staked on an outcome.
Backers(o) == {s \in Staker : stakes[s][o] > 0}

\* Only so many have staked as ever called stake, and somebody has when there
\* is a pool.  Of a resolved market only winners have claimed; and either
\* nothing was swept, and their floors cost them less than a wei each, or it
\* was, and there was less than a wei for each winner.
Dust ==
  /\ \A o \in Outcome : IsFiniteSet(Backers(o)) /\ (pool[o] > 0 => Backers(o) # {})
  /\ status = "Resolved" =>
       /\ claimed \subseteq Backers(winningOutcome)
       /\ \/ /\ treasury + feeOwed = feeAmount
             /\ winningStakeClaimed * distributable
                  <= paidToWinners * pool[winningOutcome]
                     + Cardinality(claimed) * (pool[winningOutcome] - 1)
          \/ /\ feePaid /\ balance = 0
             /\ treasury < feeAmount + Cardinality(Backers(winningOutcome))

\* A contract without stakes has no dust.
LEMMA DustInit == Init => Dust
<1> SUFFICES ASSUME Init PROVE Dust
  OBVIOUS
<1>1. \A o \in Outcome : Backers(o) = {} /\ pool[o] = 0
  BY DEF Init, Backers
<1>2. IsFiniteSet({})
  BY FS_EmptySet
<1> QED
  BY <1>1, <1>2 DEF Init, Dust

\* Who staked is one more, at most, and has a stake.
LEMMA DustStake ==
  ASSUME IInv, Dust, NEW s \in Staker, NEW o \in Outcome, NEW v \in StakeSizes, stake(s, o, v)
  PROVE  Dust'
<1>1. TypeOK /\ v \in Nat /\ v > 0
  BY EnvironmentAssumption DEF IInv
<1>2. status' = "Open"
  BY DEF stake, decision
<1> SUFFICES ASSUME NEW p \in Outcome
             PROVE  IsFiniteSet(Backers(p)') /\ (pool'[p] > 0 => Backers(p)' # {})
  BY <1>2 DEF Dust
<1>3. IsFiniteSet(Backers(p)) /\ (pool[p] > 0 => Backers(p) # {})
  BY DEF Dust
<1>4. CASE p # o
  <2>1. Backers(p)' = Backers(p) /\ pool'[p] = pool[p]
    BY <1>1, <1>4 DEF stake, Backers, TypeOK
  <2> QED
    BY <1>3, <2>1
<1>5. CASE p = o
  <2>1. \A x \in Staker : stakes'[x][p] = IF x = s THEN stakes[x][p] + v ELSE stakes[x][p]
    BY <1>1, <1>5 DEF stake, TypeOK
  <2>2. stakes[s][p] \in Nat
    BY <1>1 DEF TypeOK
  <2>3. Backers(p)' = Backers(p) \cup {s}
    BY <1>1, <2>1, <2>2 DEF Backers
  <2>4. IsFiniteSet(Backers(p) \cup {s})
    BY <1>3, FS_AddElement
  <2> QED
    BY <2>3, <2>4
<1> QED
  BY <1>4, <1>5

\* Nobody has claimed when the oracle acts, and nothing is lost.
LEMMA DustOracle ==
  ASSUME IInv, Dust, NEW c \in Caller, NEW n \in OracleNonces, NEW a \in OracleAction,
         oracleAct(c, n, a)
  PROVE  Dust'
<1>1. OpenBooks /\ status = "Open"
  BY DEF IInv, Books, oracleAct
<1>2. TypeOK /\ TypeOK'
  BY TypeStep DEF IInv, Next
<1>3. /\ UNCHANGED <<book, claimed, winningStakeClaimed, feePaid, balance, treasury>>
      /\ claimed = {} /\ winningStakeClaimed = 0 /\ ~feePaid /\ balance = total /\ treasury = 0
  BY <1>1 DEF oracleAct, OpenBooks
<1>4. \A p \in Outcome : Backers(p)' = Backers(p) /\ pool'[p] = pool[p]
  BY <1>3 DEF book, Backers
<1>5. ASSUME status' = "Resolved"
      PROVE  /\ treasury' + feeOwed' = feeAmount'
             /\ winningStakeClaimed' * distributable'
                  <= paidToWinners' * pool'[winningOutcome']
                     + Cardinality(claimed') * (pool'[winningOutcome'] - 1)
  <2>1. /\ feeAmount' \in Nat /\ distributable' \in Nat
        /\ distributable' + feeAmount' = total' /\ total' = total
    BY <1>2, <1>3, FeeFactsNext DEF book, total
  <2>2. feeOwed' = feeAmount'
    BY <1>3 DEF feeOwed
  <2>6. paidToWinners' = 0
    BY <1>3, <2>1, <2>2 DEF paidToWinners
  <2>3. Cardinality(claimed') = 0
    BY <1>3, FS_EmptySet
  <2>4. pool'[winningOutcome'] \in Nat
    BY <1>2 DEF TypeOK
  <2>5. winningStakeClaimed' * distributable'
          <= paidToWinners' * pool'[winningOutcome']
             + Cardinality(claimed') * (pool'[winningOutcome'] - 1)
    <3>1. \A d, p \in Int : 0 * d <= 0 * p + 0 * (p - 1)
      OBVIOUS
    <3>2. winningStakeClaimed' = 0
      BY <1>3
    <3> QED
      BY <2>1, <2>3, <2>4, <2>6, <3>1, <3>2
  <2>7. treasury' + feeOwed' = feeAmount'
    <3>1. treasury' = 0 /\ \A x \in Nat : 0 + x = x
      BY <1>3
    <3> QED
      BY <2>1, <2>2, <3>1, Zenon
  <2> QED
    BY <2>5, <2>7
<1> QED
  BY <1>3, <1>4, <1>5 DEF Dust

\* Each claim leaves less than one wei of its share.
LEMMA DustClaim ==
  ASSUME IInv, Dust, NEW s \in Staker, claim(s)
  PROVE  Dust'
<1>1. TypeOK /\ payoutOf(s) \in Nat /\ s \notin claimed /\ payoutOf(s) > 0 /\ payoutOf(s) <= balance
  BY PayoutFacts, PositivePool DEF IInv, claim
<1>2. UNCHANGED <<decision, book, feePaid, treasury>> /\ balance' = balance - payoutOf(s)
      /\ claimed' = claimed \cup {s}
  BY DEF claim
<1>3. /\ pool' = pool /\ status' = status /\ winningOutcome' = winningOutcome
      /\ feeAmount' = feeAmount /\ distributable' = distributable /\ feeOwed' = feeOwed
      /\ treasury' = treasury
      /\ \A o \in Outcome : Backers(o)' = Backers(o)
  BY <1>2, SameViews DEF decision, book, Backers
<1>4. CASE status # "Resolved"
  BY <1>3, <1>4 DEF Dust
<1>5. CASE status = "Resolved"
  <2>1. /\ winningOutcome \in Outcome /\ pool[winningOutcome] \in Nat /\ pool[winningOutcome] > 0
        /\ stakes[s][winningOutcome] \in Nat /\ balance \in Nat /\ winningStakeClaimed \in Nat
        /\ distributable \in Nat /\ feeOwed \in Nat
    BY <1>1, <1>5, PositivePool, FeeFacts DEF TypeOK
  <2>2. stakes[s][winningOutcome] > 0
    BY <1>1, <1>5, <2>1 DEF payoutOf
  <2>3. claimed' \subseteq Backers(winningOutcome)
    BY <1>2, <1>5, <2>2 DEF Dust, Backers
  <2>4. IsFiniteSet(claimed)
    BY <1>5, <2>1, FS_Subset DEF Dust
  <2>5. Cardinality(claimed) \in Nat /\ Cardinality(claimed') = Cardinality(claimed) + 1
    BY <1>1, <1>2, <2>4, FS_CardinalityType, FS_AddElement
  <2>6. /\ treasury + feeOwed = feeAmount
        /\ winningStakeClaimed * distributable
             <= paidToWinners * pool[winningOutcome]
                + Cardinality(claimed) * (pool[winningOutcome] - 1)
    BY <1>1, <1>5, <2>1 DEF Dust
  <2>7. paidToWinners \in Int
    BY <2>1 DEF paidToWinners
  <2>8. PICK q \in Nat : q = payoutOf(s)
                         /\ q = (stakes[s][winningOutcome] * distributable)
                                  \div pool[winningOutcome]
    BY <1>1, <1>5, PayoutFacts, PositivePool DEF IInv
  <2>9. (winningStakeClaimed + stakes[s][winningOutcome]) * distributable
          <= (paidToWinners + q) * pool[winningOutcome]
             + (Cardinality(claimed) + 1) * (pool[winningOutcome] - 1)
    BY <2>1, <2>5, <2>6, <2>7, <2>8, ShareLeavesLittle
  <2>10. paidToWinners' = paidToWinners + q
    BY <1>2, <1>3, <2>1, <2>8 DEF paidToWinners
  <2>11. winningStakeClaimed' = winningStakeClaimed + stakes[s][winningOutcome]
    BY <1>5 DEF claim
  <2>12. winningStakeClaimed' * distributable'
           <= paidToWinners' * pool'[winningOutcome']
              + Cardinality(claimed') * (pool'[winningOutcome'] - 1)
    BY <1>3, <2>5, <2>9, <2>10, <2>11
  <2>13. \A o \in Outcome : IsFiniteSet(Backers(o)') /\ (pool'[o] > 0 => Backers(o)' # {})
    BY <1>3 DEF Dust
  <2>14. Backers(winningOutcome)' = Backers(winningOutcome)
    BY <1>3, <2>1 DEF Backers
  <2> QED
    BY <1>3, <2>6, <2>12, <2>13, <2>14, <2>3 DEF Dust
<1> QED
  BY <1>4, <1>5

\* The fee is taken once, and of nobody's share.
LEMMA DustSettle ==
  ASSUME IInv, Dust, settle
  PROVE  Dust'
<1>1. TypeOK /\ feeAmount \in Nat /\ distributable \in Nat /\ balance \in Nat /\ treasury \in Nat
  BY FeeFacts DEF IInv, TypeOK
<1>2. /\ UNCHANGED <<decision, book>> /\ UNCHANGED <<claimed, winningStakeClaimed>>
      /\ status = "Resolved" /\ ~feePaid /\ feePaid' = TRUE /\ balance' = balance - feeAmount
      /\ treasury' = treasury + feeAmount
  BY DEF settle
<1>3. /\ pool' = pool /\ status' = status /\ winningOutcome' = winningOutcome
      /\ feeAmount' = feeAmount /\ distributable' = distributable
      /\ \A o \in Outcome : Backers(o)' = Backers(o)
      /\ Backers(winningOutcome)' = Backers(winningOutcome)
  BY <1>2, SameViews DEF decision, book, Backers
<1>4. treasury' + feeOwed' = feeAmount' /\ paidToWinners' = paidToWinners
  BY <1>1, <1>2, <1>3 DEF Dust, feeOwed, paidToWinners
<1>5. winningOutcome \in Outcome
  BY <1>1 DEF TypeOK
<1> QED
  BY <1>2, <1>3, <1>4, <1>5 DEF Dust

\* What is swept is less than a wei for each winner.
LEMMA DustSweep ==
  ASSUME IInv, Dust, sweepDust
  PROVE  Dust'
<1>1. TypeOK /\ feeAmount \in Nat /\ distributable \in Nat /\ balance \in Nat /\ treasury \in Nat
      /\ winningOutcome \in Outcome /\ pool[winningOutcome] \in Nat
  BY FeeFacts DEF IInv, TypeOK
<1>2. /\ UNCHANGED <<decision, book, feePaid>> /\ UNCHANGED <<claimed, winningStakeClaimed>>
      /\ status = "Resolved" /\ feePaid /\ balance > 0 /\ balance' = 0
      /\ winningStakeClaimed = pool[winningOutcome]
      /\ treasury' = treasury + balance
  BY DEF sweepDust
<1>3. /\ pool' = pool /\ status' = status /\ winningOutcome' = winningOutcome
      /\ feeAmount' = feeAmount /\ feePaid' = feePaid
      /\ \A o \in Outcome : Backers(o)' = Backers(o)
      /\ Backers(winningOutcome)' = Backers(winningOutcome)
  BY <1>2, SameViews DEF decision, book, Backers
<1>4. /\ treasury + feeOwed = feeAmount
      /\ winningStakeClaimed * distributable
           <= paidToWinners * pool[winningOutcome]
              + Cardinality(claimed) * (pool[winningOutcome] - 1)
      /\ claimed \subseteq Backers(winningOutcome)
      /\ IsFiniteSet(Backers(winningOutcome))
  BY <1>1, <1>2 DEF Dust
<1>5. Cardinality(claimed) \in Nat /\ Cardinality(Backers(winningOutcome)) \in Nat
      /\ Cardinality(claimed) <= Cardinality(Backers(winningOutcome))
  BY <1>4, FS_Subset, FS_CardinalityType
<1>6. feeOwed = 0 /\ paidToWinners = distributable - balance
  BY <1>1, <1>2 DEF feeOwed, paidToWinners
<1>7. pool[winningOutcome] > 0
  BY <1>2, PositivePool
<1>8. balance < Cardinality(claimed)
  BY <1>1, <1>2, <1>4, <1>5, <1>6, <1>7, LeftIsLittle
<1>9. treasury' < feeAmount + Cardinality(Backers(winningOutcome))
  BY <1>1, <1>2, <1>4, <1>5, <1>6, <1>8
<1>10. claimed' \subseteq Backers(winningOutcome)'
  BY <1>1, <1>2, <1>3, <1>4
<1>11. treasury' < feeAmount' + Cardinality(Backers(winningOutcome)')
  BY <1>1, <1>3, <1>9
<1>12. \A o \in Outcome : IsFiniteSet(Backers(o)') /\ (pool'[o] > 0 => Backers(o)' # {})
  BY <1>3 DEF Dust
<1> QED
  BY <1>2, <1>3, <1>10, <1>11, <1>12 DEF Dust

\* A step that only lets time pass, or stutters.
LEMMA DustTick ==
  ASSUME Dust, UNCHANGED <<decision, book, claimed, winningStakeClaimed, feePaid,
                           balance, purse, treasury>>
  PROVE  Dust'
<1>1. /\ pool' = pool /\ status' = status /\ winningOutcome' = winningOutcome
      /\ feeAmount' = feeAmount /\ distributable' = distributable /\ feeOwed' = feeOwed
      /\ paidToWinners' = paidToWinners
  BY SameViews DEF decision, book, paidToWinners
<1>2. \A o \in Outcome : Backers(o)' = Backers(o)
  BY DEF book, Backers
<1>3. Backers(winningOutcome)' = Backers(winningOutcome)
  BY DEF decision, book, Backers
<1> QED
  BY <1>1, <1>2, <1>3 DEF Dust

\* Every step keeps the dust small: one lemma per action above.
LEMMA DustStep ==
  ASSUME IInv, Dust, [Next]_vars
  PROVE  Dust'
<1>1. CASE UNCHANGED vars
  BY <1>1, DustTick DEF vars
<1>2. CASE Tick
  BY <1>2, DustTick DEF Tick
<1> QED
  BY <1>1, <1>2, DustStake, DustOracle, DustClaim, DustSettle, DustSweep DEF Next

------------------------------------------------------------------------------
\* A freshly constructed contract satisfies the inductive invariant.
LEMMA IInvInit == Init => IInv
<1> SUFFICES ASSUME Init PROVE IInv
  OBVIOUS
<1>1. TypeOK
  BY EnvironmentAssumption DEF Init, TypeOK, Outcome, Status, YES, NO
<1>2. Purses
  BY EnvironmentAssumption DEF Init, Purses, Outcome, YES, NO
<1> QED
  BY <1>1, <1>2, BooksInit DEF IInv

\* The inductive invariant holds throughout.
LEMMA Invariance == Spec => []IInv
<1>1. IInv /\ [Next]_vars => IInv'
  BY TypeStep, BooksStep, PursesStep DEF IInv
<1> QED
  BY IInvInit, <1>1, PTL DEF Spec

\* Every variable stays in its type; in particular the contract's balance and
\* every staker's purse never go below zero.
THEOREM TypeCorrect == Spec => []TypeOK
<1>1. IInv => TypeOK
  BY DEF IInv
<1> QED
  BY Invariance, <1>1, PTL

\* For every number of stakers, every book and every fee the constructor
\* accepts, in whatever order claims, settle and sweepDust are called: what the
\* next caller is owed, and the fee, is in the contract.
THEOREM Solvency == Spec => []ClaimsCovered
<1>1. IInv => ClaimsCovered
  BY CoveredByIInv
<1> QED
  BY Invariance, <1>1, PTL

\* For every book and every fee: a winner who has claimed has lost at most what
\* they staked on the other side.
THEOREM PrincipalIsSafe == Spec => []WinnersKeepPrincipal
<1>1. IInv => WinnersKeepPrincipal
  BY EnvironmentAssumption DEF IInv, Purses, WinnersKeepPrincipal, TypeOK
<1> QED
  BY Invariance, <1>1, PTL

\* A claim on a void market restores exactly what was staked.
THEOREM RefundsWhole == Spec => []RefundsAreWhole
<1>1. IInv => RefundsAreWhole
  BY EnvironmentAssumption DEF IInv, Purses, RefundsAreWhole, TypeOK
<1> QED
  BY Invariance, <1>1, PTL

\* No stake is written from the second of the close on, nor after a decision.
THEOREM BookIsClosed == Spec => BookClosesBeforeOutcome
<1>1. TypeOK /\ [Next]_vars => [now >= closeTime \/ status # "Open" => UNCHANGED book]_vars
  BY ConstructorAssumption
     DEF Next, vars, TypeOK, stake, oracleAct, claim, settle, sweepDust, Tick
<1> QED
  BY TypeCorrect, <1>1, PTL DEF Spec, BookClosesBeforeOutcome

\* For every book and every fee, and in whatever order the money leaves: the
\* treasury gets the fee and less than one wei for each winner.
THEOREM DustIsSmall == Spec => []TreasuryTakesFeeAndDust
<1>1. IInv /\ Dust => TreasuryTakesFeeAndDust
  <2> SUFFICES ASSUME IInv, Dust, status = "Resolved"
               PROVE  treasury < feeAmount + Cardinality(Backers(winningOutcome))
    BY DEF TreasuryTakesFeeAndDust, Backers
  <2>1. /\ winningOutcome \in Outcome /\ pool[winningOutcome] > 0
        /\ treasury \in Nat /\ feeOwed \in Nat /\ feeAmount \in Nat
    BY PositivePool, FeeFacts DEF IInv, TypeOK
  <2>2. IsFiniteSet(Backers(winningOutcome)) /\ Backers(winningOutcome) # {}
    BY <2>1 DEF Dust
  <2>3. Cardinality(Backers(winningOutcome)) \in Nat
        /\ Cardinality(Backers(winningOutcome)) # 0
    BY <2>2, FS_CardinalityType, FS_EmptySet
  <2> QED
    BY <2>1, <2>3 DEF Dust
<1>2. IInv /\ Dust /\ [Next]_vars => Dust'
  BY DustStep
<1> QED
  BY Invariance, DustInit, <1>1, <1>2, PTL DEF Spec
==============================================================================
