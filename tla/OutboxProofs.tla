----------------------------- MODULE OutboxProofs -----------------------------
(***************************************************************************)
(* That the outbox keeps what Notification promises, and takes no event    *)
(* off the backlog that has not reached everybody it was for: for any      *)
(* changes, subscribers, replicas, batches and faults, from                *)
(* OutboxAssumption.                                                       *)
(*                                                                         *)
(* A row and its change are one (Committed), what may still arrive is of a *)
(* row (Tables), and a subscriber's inbox is the set of what it acted on   *)
(* (InboxIsActed).  An event that is written down as delivered is in the   *)
(* inbox (DeliveredArrived); a pass that is about to publish counted       *)
(* nothing outstanding, and whoever subscribes after that does so when the *)
(* row is there (PassSound).  Inboxes only grow (Grows), so no pass,       *)
(* however many overlap, comes to know something that is not so.           *)
(***************************************************************************)
EXTENDS Outbox, WellFoundedInduction, TLAPS

Pc == {"idle", "down", "next", "deliver", "post", "record", "count", "publish", "complete", "rearm"}

Pass == [pc : Pc, batch : SUBSET Change, to : SUBSET Subscriber, sent : SUBSET Request,
         mine : BOOLEAN]

\* TypeOK but for the passes, which Sound is about; what may still arrive is of
\* a row.
Tables ==
  /\ changed \subseteq Change /\ outbox \subseteq Change /\ published \subseteq outbox
  /\ active \subseteq Subscriber /\ since \in [Subscriber -> SUBSET Change]
  /\ wire \subseteq outbox \X Subscriber /\ delivered \subseteq outbox \X Subscriber
  /\ inbox \in [Subscriber -> SUBSET outbox]
  /\ acted \in [Subscriber -> Seq(Change)]
  /\ queued \in BOOLEAN /\ holder \in Process \cup {NoProcess}
  /\ unarmed \in BOOLEAN /\ (queued => ~unarmed)
  /\ faults \in 0..MaxFaults

\* Everybody event c was for has it.
Reached(c) == \A s \in active : c \notin since[s] => c \in inbox[s]

Committed == changed = outbox

DeliveredArrived == \A r \in delivered : r[1] \in inbox[r[2]]

InboxIsActed == \A s \in Subscriber, c \in Change : c \in inbox[s] <=> Contains(acted[s], c)

PublishedReached == \A c \in published : Reached(c)

\* What a pass has in hand, and what it knows at the step it is at.
Sound(r) ==
  /\ r \in Pass /\ r.batch \subseteq outbox /\ r.to \subseteq active
  /\ r.sent \subseteq outbox \X Subscriber
  /\ r.sent # {} => r.pc \in {"post", "record"}
  /\ r.pc \in {"deliver", "post", "record", "count", "publish"} => r.batch # {}
  /\ r.pc = "record" => \A q \in r.sent : q[1] \in inbox[q[2]]
  /\ r.pc = "publish" => Reached(Min(r.batch))

PassSound == run \in [Process -> Pass] /\ \A p \in Process : Sound(run[p])

IInv == /\ Tables /\ Committed /\ DeliveredArrived
        /\ InboxIsActed /\ PublishedReached /\ PassSound

------------------------------------------------------------------------------
(* Batches, and what was acted on.                                         *)

\* A batch that is not empty has an oldest row.
LEMMA OldestIsThere ==
  ASSUME NEW S \in SUBSET Nat, S # {}
  PROVE  Min(S) \in S
PROOF
<1>1. PICK x \in S : \A y \in S : ~ (<<y, x>> \in OpToRel(<, Nat))
  BY NatLessThanWellFounded, WFMin
<1>2. ASSUME NEW y \in S
      PROVE  x <= y
  <2>1. <<y, x>> \in OpToRel(<, Nat) <=> y < x
    BY DEF OpToRel
  <2>2. ~ (y < x) /\ x \in Nat /\ y \in Nat
    BY <1>1, <2>1, Zenon
  <2> QED
    BY <2>2
<1> QED
  BY <1>2 DEF Min

\* What is acted on next is in what was acted on, with all that was before.
LEMMA AppendContains ==
  ASSUME NEW S, NEW q \in Seq(S), NEW c \in S, NEW d
  PROVE  Append(q, c) \in Seq(S) /\ (Contains(Append(q, c), d) <=> Contains(q, d) \/ d = c)
PROOF
<1>1. Append(q, c) \in Seq(S) /\ Len(Append(q, c)) = Len(q) + 1 /\ Len(q) \in Nat
      /\ Append(q, c)[Len(q) + 1] = c
      /\ \A i \in 1..Len(q) : Append(q, c)[i] = q[i]
  OBVIOUS
<1>2. 1..(Len(q) + 1) = (1..Len(q)) \cup {Len(q) + 1}
  BY <1>1
<1> QED
  BY <1>1, <1>2 DEF Contains

\* The batch is of rows.
LEMMA OldestAreRows == \A n : oldest(n) \subseteq outbox
PROOF
  BY DEF oldest, backlog

------------------------------------------------------------------------------
(* What stays true however the tables grow.                                *)

\* Subscriptions, rows and inboxes only grow, and who subscribes later does so
\* to what is not there yet.
Grows ==
  /\ outbox \subseteq outbox' /\ active \subseteq active'
  /\ \A s \in Subscriber : inbox[s] \subseteq inbox'[s]
  /\ \A s \in active : since'[s] = since[s]
  /\ \A s \in active' \ active : outbox \subseteq since'[s]

\* An event that reached all has reached all.
LEMMA ReachedStays ==
  ASSUME Grows, active \subseteq Subscriber, NEW c \in outbox, Reached(c)
  PROVE  Reached(c)'
PROOF
  BY DEF Grows, Reached

\* A pass that does nothing stays sound.
LEMMA SoundStays ==
  ASSUME Grows, Tables, NEW r, Sound(r)
  PROVE  Sound(r)'
PROOF
<1>1. r.sent \subseteq outbox' \X Subscriber
  BY DEF Sound, Grows
<1>2. r.pc = "record" => \A q \in r.sent : q[1] \in inbox'[q[2]]
  BY DEF Sound, Grows
<1>3. r.pc = "publish" => Reached(Min(r.batch))'
  <2> SUFFICES ASSUME r.pc = "publish"
               PROVE  Reached(Min(r.batch))'
    OBVIOUS
  <2>1. Min(r.batch) \in outbox /\ Reached(Min(r.batch))
    BY OldestIsThere, OutboxAssumption DEF Sound, Tables
  <2> QED
    BY <2>1, ReachedStays DEF Tables
<1> QED
  BY <1>1, <1>2, <1>3 DEF Sound, Grows

\* Tables that only grow leave every pass sound that stood still.
LEMMA PassesStay ==
  ASSUME IInv, Grows, UNCHANGED run
  PROVE  PassSound'
PROOF
<1>1. ASSUME NEW p \in Process
      PROVE  Sound(run[p])'
  <2>1. PICK r : r = run[p]
    OBVIOUS
  <2>2. Sound(r)'
    BY <2>1, SoundStays DEF IInv, PassSound
  <2> QED
    BY <2>1, <2>2 DEF Sound
<1> QED
  BY <1>1 DEF IInv, PassSound

\* A step of one pass alone.
LEMMA PassSteps ==
  ASSUME IInv, UNCHANGED <<registry, consumer>>,
         NEW p \in Process, NEW r, Sound(r), run' = [run EXCEPT ![p] = r]
  PROVE  PassSound'
PROOF
<1>1. UNCHANGED <<outbox, active, since, inbox>>
  BY DEF registry, consumer
<1>2. run' \in [Process -> Pass]
  BY DEF IInv, PassSound, Sound
<1>3. ASSUME NEW q \in Process
      PROVE  Sound(run[q])'
  <2>1. PICK x : x = run'[q]
    OBVIOUS
  <2>2. Sound(x)
    BY <2>1 DEF IInv, PassSound
  <2>3. Sound(x)'
    BY <1>1, <2>2 DEF Sound, Reached
  <2> QED
    BY <2>1, <2>3 DEF Sound
<1> QED
  BY <1>2, <1>3 DEF PassSound

\* The fields of an edited pass.
LEMMA Edited ==
  ASSUME NEW r \in Pass
  PROVE  /\ \A x \in Pc : [r EXCEPT !.pc = x]
                = [pc |-> x, batch |-> r.batch, to |-> r.to, sent |-> r.sent, mine |-> r.mine]
         /\ \A x \in Pc, b \in SUBSET Change : [r EXCEPT !.pc = x, !.batch = b]
                = [pc |-> x, batch |-> b, to |-> r.to, sent |-> r.sent, mine |-> r.mine]
         /\ \A x \in Pc, t \in SUBSET Subscriber : [r EXCEPT !.pc = x, !.to = t]
                = [pc |-> x, batch |-> r.batch, to |-> t, sent |-> r.sent, mine |-> r.mine]
         /\ \A x \in Pc, t \in SUBSET Request : [r EXCEPT !.pc = x, !.sent = t]
                = [pc |-> x, batch |-> r.batch, to |-> r.to, sent |-> t, mine |-> r.mine]
         /\ \A t \in SUBSET Subscriber : [r EXCEPT !.to = t]
                = [pc |-> r.pc, batch |-> r.batch, to |-> t, sent |-> r.sent, mine |-> r.mine]
         /\ [r EXCEPT !.mine = FALSE]
                = [pc |-> r.pc, batch |-> r.batch, to |-> r.to, sent |-> r.sent, mine |-> FALSE]
PROOF
<1>0. r = [pc |-> r.pc, batch |-> r.batch, to |-> r.to, sent |-> r.sent, mine |-> r.mine]
  BY DEF Pass
<1>1. ASSUME NEW x \in Pc
      PROVE  [r EXCEPT !.pc = x]
               = [pc |-> x, batch |-> r.batch, to |-> r.to, sent |-> r.sent, mine |-> r.mine]
  <2>1. PICK q : q = [r EXCEPT !.pc = x]
    OBVIOUS
  <2>2. q = [pc |-> x, batch |-> r.batch, to |-> r.to, sent |-> r.sent, mine |-> r.mine]
    BY <1>0, <2>1
  <2> QED
    BY <2>1, <2>2
<1>2. ASSUME NEW x \in Pc, NEW b \in SUBSET Change
      PROVE  [r EXCEPT !.pc = x, !.batch = b]
               = [pc |-> x, batch |-> b, to |-> r.to, sent |-> r.sent, mine |-> r.mine]
  <2>1. PICK q : q = [r EXCEPT !.pc = x, !.batch = b]
    OBVIOUS
  <2>2. q = [pc |-> x, batch |-> b, to |-> r.to, sent |-> r.sent, mine |-> r.mine]
    BY <1>0, <2>1
  <2> QED
    BY <2>1, <2>2
<1>3. ASSUME NEW x \in Pc, NEW t \in SUBSET Subscriber
      PROVE  [r EXCEPT !.pc = x, !.to = t]
               = [pc |-> x, batch |-> r.batch, to |-> t, sent |-> r.sent, mine |-> r.mine]
  <2>1. PICK q : q = [r EXCEPT !.pc = x, !.to = t]
    OBVIOUS
  <2>2. q = [pc |-> x, batch |-> r.batch, to |-> t, sent |-> r.sent, mine |-> r.mine]
    BY <1>0, <2>1
  <2> QED
    BY <2>1, <2>2
<1>4. ASSUME NEW x \in Pc, NEW t \in SUBSET Request
      PROVE  [r EXCEPT !.pc = x, !.sent = t]
               = [pc |-> x, batch |-> r.batch, to |-> r.to, sent |-> t, mine |-> r.mine]
  <2>1. PICK q : q = [r EXCEPT !.pc = x, !.sent = t]
    OBVIOUS
  <2>2. q = [pc |-> x, batch |-> r.batch, to |-> r.to, sent |-> t, mine |-> r.mine]
    BY <1>0, <2>1
  <2> QED
    BY <2>1, <2>2
<1>5. ASSUME NEW t \in SUBSET Subscriber
      PROVE  [r EXCEPT !.to = t]
               = [pc |-> r.pc, batch |-> r.batch, to |-> t, sent |-> r.sent, mine |-> r.mine]
  <2>1. PICK q : q = [r EXCEPT !.to = t]
    OBVIOUS
  <2>2. q = [pc |-> r.pc, batch |-> r.batch, to |-> t, sent |-> r.sent, mine |-> r.mine]
    BY <1>0, <2>1
  <2> QED
    BY <2>1, <2>2
<1>6. [r EXCEPT !.mine = FALSE]
        = [pc |-> r.pc, batch |-> r.batch, to |-> r.to, sent |-> r.sent, mine |-> FALSE]
  <2>1. PICK q : q = [r EXCEPT !.mine = FALSE]
    OBVIOUS
  <2>2. q = [pc |-> r.pc, batch |-> r.batch, to |-> r.to, sent |-> r.sent, mine |-> FALSE]
    BY <1>0, <2>1
  <2> QED
    BY <2>1, <2>2
<1> QED
  BY <1>1, <1>2, <1>3, <1>4, <1>5, <1>6

------------------------------------------------------------------------------
(* The steps.                                                              *)

\* Nothing has happened yet.
LEMMA InitSound == Init => IInv
PROOF
<1> SUFFICES ASSUME Init PROVE IInv
  OBVIOUS
<1>1. Tables
  <2>1. << >> \in Seq(Change) /\ 0 \in 0..MaxFaults
    BY OutboxAssumption
  <2> QED
    BY <2>1, OutboxAssumption DEF Init, Tables
<1>2. Committed /\ DeliveredArrived /\ PublishedReached
  BY DEF Init, Committed, DeliveredArrived, PublishedReached
<1>3. InboxIsActed
  BY DEF Init, InboxIsActed, Contains
<1>4. Idle \in Pass /\ Sound(Idle)
  BY DEF Idle, Pass, Pc, Sound
<1>5. PassSound
  BY <1>4 DEF Init, PassSound
<1> QED
  BY <1>1, <1>2, <1>3, <1>5 DEF IInv

\* A change and its row.
LEMMA WithOutboxKeeps ==
  ASSUME IInv, NEW c \in Change, withOutbox(c)
  PROVE  IInv'
PROOF
<1>1. /\ outbox' = outbox \cup {c} /\ changed' = changed \cup {c}
      /\ UNCHANGED <<active, since, published, delivered, wire, inbox, acted,
                     queued, holder, unarmed, run, faults>>
  BY DEF withOutbox, consumer, job
<1>2. Tables'
  BY <1>1 DEF IInv, Tables
<1>3. Grows
  BY <1>1 DEF Grows
<1>4. PassSound'
  BY <1>1, <1>3, PassesStay
<1>5. Committed' /\ DeliveredArrived' /\ InboxIsActed'
  BY <1>1 DEF IInv, Committed, DeliveredArrived, InboxIsActed
<1>6. PublishedReached'
  BY <1>1 DEF IInv, PublishedReached, Reached
<1> QED
  BY <1>2, <1>4, <1>5, <1>6 DEF IInv

\* Somebody subscribes, to what is not there yet.
LEMMA SubscribeKeeps ==
  ASSUME IInv, NEW s \in Subscriber, subscribe(s)
  PROVE  IInv'
PROOF
<1>1. /\ s \notin active /\ active' = active \cup {s} /\ since' = [since EXCEPT ![s] = outbox]
      /\ UNCHANGED <<changed, outbox, published, delivered, wire, inbox, acted,
                     queued, holder, unarmed, run, faults>>
  BY DEF subscribe, consumer, job
<1>2. Tables'
  BY <1>1 DEF IInv, Tables
<1>3. Grows
  BY <1>1 DEF Grows, IInv, Tables
<1>4. PassSound'
  BY <1>1, <1>3, PassesStay
<1>5. Committed' /\ DeliveredArrived' /\ InboxIsActed'
  BY <1>1 DEF IInv, Committed, DeliveredArrived, InboxIsActed
<1>6. PublishedReached'
  BY <1>1, <1>3, ReachedStays DEF IInv, PublishedReached, Tables
<1> QED
  BY <1>2, <1>4, <1>5, <1>6 DEF IInv

\* A request arrives.
LEMMA ReceiveKeeps ==
  ASSUME IInv, NEW s \in Subscriber, NEW c \in Change, receive(s, c)
  PROVE  IInv'
PROOF
<1>1. /\ <<c, s>> \in wire /\ c \notin inbox[s]
      /\ inbox' = [inbox EXCEPT ![s] = @ \cup {c}] /\ acted' = [acted EXCEPT ![s] = Append(@, c)]
      /\ UNCHANGED <<changed, outbox, active, since, published, delivered, wire,
                     queued, holder, unarmed, run, faults>>
  BY DEF receive, withInbox, registry, job
<1>2. c \in outbox /\ acted[s] \in Seq(Change)
  BY <1>1 DEF IInv, Tables
<1>3. PICK q : q = acted[s]
  OBVIOUS
<1>4. PICK a : a = Append(q, c)
  OBVIOUS
<1>5. a \in Seq(Change) /\ \A d \in Change : Contains(a, d) <=> Contains(q, d) \/ d = c
  BY <1>2, <1>3, <1>4, AppendContains
<1>6. acted' = [acted EXCEPT ![s] = a]
  BY <1>1, <1>3, <1>4
<1>7. Tables'
  BY <1>1, <1>2, <1>5, <1>6 DEF IInv, Tables
<1>8. Grows
  BY <1>1 DEF Grows, IInv, Tables
<1>9. PassSound'
  BY <1>1, <1>8, PassesStay
<1>10. Committed'
  BY <1>1 DEF IInv, Committed
<1>11. DeliveredArrived'
  BY <1>1, <1>8 DEF IInv, DeliveredArrived, Grows, Tables
<1>12. PublishedReached'
  BY <1>1, <1>8, ReachedStays DEF IInv, PublishedReached, Tables
<1>13. InboxIsActed'
  <2> SUFFICES ASSUME NEW t \in Subscriber, NEW d \in Change
               PROVE  d \in inbox'[t] <=> Contains(acted'[t], d)
    BY DEF InboxIsActed
  <2>1. CASE t = s
    <3>1. inbox'[t] = inbox[t] \cup {c} /\ acted'[t] = a
      BY <1>1, <1>6, <2>1 DEF IInv, Tables
    <3> QED
      BY <1>3, <1>5, <2>1, <3>1 DEF IInv, InboxIsActed
  <2>2. CASE t # s
    <3>1. inbox'[t] = inbox[t] /\ acted'[t] = acted[t]
      BY <1>1, <1>6, <2>2 DEF IInv, Tables
    <3> QED
      BY <3>1 DEF IInv, InboxIsActed
  <2> QED
    BY <2>1, <2>2
<1> QED
  BY <1>7, <1>9, <1>10, <1>11, <1>12, <1>13 DEF IInv

\* p goes on as some sound r.
GoesOn(p) == \E r : Sound(r) /\ run' = [run EXCEPT ![p] = r]

\* What a pass has in hand.
LEMMA InHand ==
  ASSUME IInv, NEW p \in Process
  PROVE  /\ Sound(run[p]) /\ run[p] \in Pass
         /\ run[p].batch # {} => event(p) \in run[p].batch /\ event(p) \in outbox
PROOF
<1>1. Sound(run[p])
  BY DEF IInv, PassSound
<1>2. run[p].batch \in SUBSET Nat /\ run[p].batch \subseteq outbox /\ run[p] \in Pass
  BY <1>1, OutboxAssumption DEF Sound, IInv, Tables
<1> QED
  BY <1>1, <1>2, OldestIsThere DEF event

\* An idle pass, and one that is down, have nothing.
LEMMA NothingInHand == Sound(Idle) /\ Sound(Down) /\ Sound([Idle EXCEPT !.pc = "rearm"])
PROOF
<1>1. Idle \in Pass
  BY DEF Idle, Pass, Pc
<1>2. /\ [Idle EXCEPT !.pc = "down"]
           = [pc |-> "down", batch |-> {}, to |-> {}, sent |-> {}, mine |-> FALSE]
      /\ [Idle EXCEPT !.pc = "rearm"]
           = [pc |-> "rearm", batch |-> {}, to |-> {}, sent |-> {}, mine |-> FALSE]
  <2>1. "down" \in Pc /\ "rearm" \in Pc
    BY DEF Pc
  <2> QED
    BY <1>1, <2>1, Edited DEF Idle
<1> QED
  BY <1>1, <1>2 DEF Down, Idle, Pass, Pc, Sound

\* To a step that needs nothing but what the pass has.
LEMMA Goto ==
  ASSUME IInv, NEW p \in Process, NEW pc \in Pc, goto(p, pc),
         run[p].sent # {} => pc \in {"post", "record"},
         pc \in {"deliver", "post", "record", "count", "publish"} => run[p].batch # {},
         pc = "record" => \A q \in run[p].sent : q[1] \in inbox[q[2]],
         pc = "publish" => Reached(event(p))
  PROVE  GoesOn(p)
PROOF
<1>1. PICK r : r = run[p]
  OBVIOUS
<1>2. r \in Pass /\ Sound(r)
  BY <1>1, InHand
<1>3. PICK q : q = [r EXCEPT !.pc = pc]
  OBVIOUS
<1>4. q = [pc |-> pc, batch |-> r.batch, to |-> r.to, sent |-> r.sent, mine |-> r.mine]
  BY <1>2, <1>3, Edited
<1>5. Sound(q)
  BY <1>1, <1>2, <1>4 DEF Sound, Pass, event
<1> QED
  BY <1>1, <1>3, <1>5 DEF GoesOn, goto, set

\* On to the next event.
LEMMA Onward ==
  ASSUME IInv, NEW p \in Process, onward(p), run[p].sent = {}
  PROVE  GoesOn(p)
PROOF
<1>1. PICK r : r = run[p]
  OBVIOUS
<1>2. r \in Pass /\ Sound(r)
  BY <1>1, InHand
<1>3. PICK q : q = [r EXCEPT !.pc = "next", !.batch = r.batch \ {event(p)}]
  OBVIOUS
<1>4. r.batch \ {event(p)} \in SUBSET Change /\ "next" \in Pc
  BY <1>2 DEF Pass, Pc
<1>5. PICK b \in SUBSET Change : b = r.batch \ {event(p)}
  BY <1>4
<1>6. q = [pc |-> "next", batch |-> b, to |-> r.to, sent |-> r.sent, mine |-> r.mine]
  BY <1>2, <1>3, <1>4, <1>5, Edited, ZenonT(40)
<1>7. Sound(q)
  BY <1>1, <1>2, <1>4, <1>5, <1>6 DEF Sound, Pass
<1> QED
  BY <1>1, <1>3, <1>7 DEF GoesOn, onward, set

\* Back to the subscriptions that are left.
LEMMA Leave ==
  ASSUME IInv, NEW p \in Process, run[p].pc \in {"post", "record"},
         run' = [run EXCEPT ![p] = [run[p] EXCEPT !.pc = "deliver", !.sent = {}]]
  PROVE  GoesOn(p)
PROOF
<1>1. PICK r : r = run[p]
  OBVIOUS
<1>2. r \in Pass /\ Sound(r)
  BY <1>1, InHand
<1>3. PICK q : q = [r EXCEPT !.pc = "deliver", !.sent = {}]
  OBVIOUS
<1>4. "deliver" \in Pc /\ {} \in SUBSET Request
  BY DEF Pc
<1>5. q = [pc |-> "deliver", batch |-> r.batch, to |-> r.to, sent |-> {}, mine |-> r.mine]
  BY <1>2, <1>3, <1>4, Edited
<1>6. Sound(q)
  BY <1>1, <1>2, <1>4, <1>5 DEF Sound, Pass
<1> QED
  BY <1>1, <1>3, <1>6 DEF GoesOn

\* Nothing counted outstanding is something that reached everybody.
LEMMA NothingOutstanding ==
  ASSUME IInv, NEW c \in outbox, outstanding(c) = {}
  PROVE  Reached(c)
PROOF
<1> SUFFICES ASSUME NEW s \in active
             PROVE  c \in inbox[s]
  BY DEF Reached
<1>1. <<c, s>> \in delivered
  BY DEF outstanding
<1> QED
  BY <1>1 DEF IInv, DeliveredArrived

\* Every step of a pass but the end of its job leaves it sound.
LEMMA PassGoesOn ==
  ASSUME IInv, NEW p \in Process,
         \/ startRelay(p) \/ readSubscriptions(p) \/ deliver(p) \/ answered(p) \/ deadline(p)
         \/ recordDelivered(p) \/ countOutstanding(p) \/ publish(p)
         \/ rescheduleRecurring(p) \/ seedRecurring(p)
         \/ notAnswered(p) \/ throw(p) \/ crash(p) \/ rearmFails(p)
  PROVE  GoesOn(p)
PROOF
<1>0. Sound(run[p]) /\ run[p] \in Pass
  BY InHand
<1>1. CASE startRelay(p)
  <2>1. PICK q : q = [Idle EXCEPT !.pc = "next", !.batch = oldest(BatchSize), !.mine = TRUE]
    OBVIOUS
  <2>2. q = [pc |-> "next", batch |-> oldest(BatchSize), to |-> {}, sent |-> {}, mine |-> TRUE]
    BY <2>1 DEF Idle
  <2>3. oldest(BatchSize) \subseteq outbox /\ outbox \subseteq Change
    BY OldestAreRows DEF IInv, Tables
  <2>4. Sound(q)
    BY <2>2, <2>3 DEF Sound, Pass, Pc
  <2> QED
    BY <1>1, <2>1, <2>4 DEF startRelay, set, GoesOn
<1>2. CASE readSubscriptions(p)
  <2>1. at(p, "next") /\ run[p].sent = {} /\ "complete" \in Pc
    BY <1>0, <1>2 DEF readSubscriptions, at, Sound, Pc
  <2>2. CASE goto(p, "complete")
    BY <2>1, <2>2, Goto
  <2>3. CASE run[p].batch # {} /\ set(p, [run[p] EXCEPT !.pc = "deliver", !.to = active])
    <3>1. PICK r : r = run[p]
      OBVIOUS
    <3>2. PICK q : q = [r EXCEPT !.pc = "deliver", !.to = active]
      OBVIOUS
    <3>3. "deliver" \in Pc /\ active \in SUBSET Subscriber /\ r \in Pass /\ Sound(r)
      BY <1>0, <3>1 DEF Pc, IInv, Tables
    <3>4. q = [pc |-> "deliver", batch |-> r.batch, to |-> active, sent |-> r.sent,
               mine |-> r.mine]
      BY <3>2, <3>3, Edited
    <3>5. Sound(q)
      BY <2>1, <2>3, <3>1, <3>3, <3>4 DEF Sound, Pass
    <3> QED
      BY <2>3, <3>1, <3>2, <3>5 DEF set, GoesOn
  <2> QED
    BY <1>2, <2>2, <2>3 DEF readSubscriptions
<1>3. CASE deliver(p)
  <2>1. at(p, "deliver") /\ run[p].sent = {} /\ run[p].batch # {} /\ "count" \in Pc
    BY <1>0, <1>3 DEF deliver, at, Sound, Pc
  <2>2. CASE goto(p, "count")
    BY <2>1, <2>2, Goto
  <2>3. CASE ~ goto(p, "count")
    <3>1. PICK s \in run[p].to :
            \/ set(p, [run[p] EXCEPT !.to = @ \ {s}])
            \/ set(p, [[run[p] EXCEPT !.to = @ \ {s}] EXCEPT !.pc = "post", !.sent = {<<event(p), s>>}])
      BY <1>3, <2>3 DEF deliver
    <3>2. PICK r : r = run[p]
      OBVIOUS
    <3>3. PICK e : e = event(p)
      OBVIOUS
    <3>4. r \in Pass /\ Sound(r) /\ r.sent = {} /\ r.batch # {} /\ r.pc = "deliver"
          /\ s \in Subscriber /\ r.to \ {s} \in SUBSET Subscriber /\ e \in outbox
      BY <1>0, <2>1, <3>1, <3>2, <3>3, InHand DEF Pass, at
    <3>5. PICK q : q = [r EXCEPT !.to = r.to \ {s}]
      OBVIOUS
    <3>6. q = [pc |-> r.pc, batch |-> r.batch, to |-> r.to \ {s}, sent |-> r.sent, mine |-> r.mine]
      BY <3>4, <3>5, Edited
    <3>7. Sound(q)
      BY <3>4, <3>6 DEF Sound, Pass
    <3>8. PICK x : x = [q EXCEPT !.pc = "post", !.sent = {<<e, s>>}]
      OBVIOUS
    <3>9. {<<e, s>>} \in SUBSET Request /\ "post" \in Pc /\ q \in Pass
      BY <3>4, <3>7 DEF Request, Pc, IInv, Tables, Sound
    <3>10. x = [pc |-> "post", batch |-> r.batch, to |-> r.to \ {s}, sent |-> {<<e, s>>},
                mine |-> r.mine]
      BY <3>6, <3>8, <3>9, Edited
    <3>11. Sound(x)
      BY <3>4, <3>9, <3>10 DEF Sound, Pass
    <3>12. run' = [run EXCEPT ![p] = q] \/ run' = [run EXCEPT ![p] = x]
      BY <3>1, <3>2, <3>3, <3>5, <3>8 DEF set
    <3> QED
      BY <3>7, <3>11, <3>12 DEF GoesOn
  <2> QED
    BY <2>2, <2>3
<1>4. CASE answered(p)
  <2>1. /\ run[p].batch # {} /\ "record" \in Pc /\ goto(p, "record")
        /\ \A q \in run[p].sent : q[1] \in inbox[q[2]]
    BY <1>0, <1>4 DEF answered, at, Sound, Pc
  <2> QED
    BY <2>1, Goto
<1>5. CASE deadline(p) \/ recordDelivered(p) \/ notAnswered(p)
  <2>1. run[p].pc \in {"post", "record"}
    BY <1>5 DEF deadline, recordDelivered, notAnswered, at
  <2>2. run' = [run EXCEPT ![p] = [run[p] EXCEPT !.pc = "deliver", !.sent = {}]]
    BY <1>5 DEF deadline, recordDelivered, notAnswered, leave, set
  <2> QED
    BY <2>1, <2>2, Leave
<1>6. CASE countOutstanding(p)
  <2>1. run[p].batch # {} /\ run[p].sent = {} /\ "publish" \in Pc
    BY <1>0, <1>6 DEF countOutstanding, at, Sound, Pc
  <2>2. event(p) \in outbox
    BY <2>1, InHand
  <2>3. CASE outstanding(event(p)) = {}
    <3>1. Reached(event(p)) /\ goto(p, "publish")
      BY <1>6, <2>2, <2>3, NothingOutstanding DEF countOutstanding
    <3> QED
      BY <2>1, <3>1, Goto
  <2>4. CASE outstanding(event(p)) # {}
    BY <1>6, <2>1, <2>4, Onward DEF countOutstanding
  <2> QED
    BY <2>3, <2>4
<1>7. CASE publish(p)
  <2>1. run[p].sent = {} /\ onward(p)
    BY <1>0, <1>7 DEF publish, at, Sound
  <2> QED
    BY <2>1, Onward
<1>8. CASE rescheduleRecurring(p) \/ seedRecurring(p) \/ throw(p) \/ crash(p) \/ rearmFails(p)
  <2>1. set(p, Idle) \/ set(p, Down)
    BY <1>8 DEF rescheduleRecurring, seedRecurring, throw, crash, rearmFails
  <2> QED
    BY <2>1, NothingInHand DEF set, GoesOn
<1> QED
  BY <1>1, <1>2, <1>3, <1>4, <1>5, <1>6, <1>7, <1>8

\* The end of a run: its row is deleted, and is nobody's any more.
LEMMA CompleteKeepsPasses ==
  ASSUME IInv, NEW p \in Process, complete(p)
  PROVE  PassSound'
PROOF
<1>0. Sound(run[p]) /\ run[p] \in Pass
  BY InHand
<1>1. UNCHANGED <<registry, consumer>> /\ UNCHANGED <<outbox, active, since, inbox>>
      /\ run[p].pc = "complete"
  BY DEF complete, registry, consumer, at
<1>2. CASE goto(p, "rearm")
  <2>1. run[p].sent = {} /\ "rearm" \in Pc
    BY <1>0, <1>1 DEF Sound, Pc
  <2>2. GoesOn(p)
    BY <1>2, <2>1, Goto
  <2> QED
    BY <1>1, <2>2, PassSteps DEF GoesOn
<1>3. CASE run' = [q \in Process |-> IF q = p THEN [Idle EXCEPT !.pc = "rearm"]
                                     ELSE [run[q] EXCEPT !.mine = FALSE]]
  <2>1. ASSUME NEW q \in Process
        PROVE  run'[q] \in Pass /\ Sound(run[q])'
    <3>1. PICK x : x = run'[q]
      OBVIOUS
    <3>2. Sound(x)
      <4>1. CASE q = p
        BY <1>3, <3>1, <4>1, NothingInHand
      <4>2. CASE q # p
        <5>1. PICK r : r = run[q]
          OBVIOUS
        <5>2. r \in Pass /\ Sound(r)
          BY <5>1, InHand
        <5>3. x = [r EXCEPT !.mine = FALSE]
          BY <1>3, <3>1, <4>2, <5>1
        <5>4. x = [pc |-> r.pc, batch |-> r.batch, to |-> r.to, sent |-> r.sent, mine |-> FALSE]
          BY <5>2, <5>3, Edited
        <5> QED
          BY <5>2, <5>4 DEF Sound, Pass
      <4> QED
        BY <4>1, <4>2
    <3>3. Sound(x)'
      BY <1>1, <3>2 DEF Sound, Reached
    <3> QED
      BY <3>1, <3>2, <3>3 DEF Sound
  <2>2. run' \in [Process -> Pass]
    BY <1>3, <2>1
  <2> QED
    BY <2>1, <2>2 DEF PassSound
<1> QED
  BY <1>2, <1>3 DEF complete

\* What a pass writes.
LEMMA PassWrites ==
  ASSUME IInv, NEW p \in Process,
         relayStep(p) \/ notAnswered(p) \/ throw(p) \/ crash(p) \/ rearmFails(p)
  PROVE  /\ UNCHANGED <<registry, consumer>>
         /\ Tables' /\ DeliveredArrived' /\ PublishedReached'
PROOF
<1>0. Sound(run[p]) /\ run[p] \in Pass /\ Tables
  BY InHand DEF IInv
<1>1. UNCHANGED <<changed, outbox, active, since, inbox, acted>>
  BY DEF relayStep, startRelay, readSubscriptions, deliver, answered, deadline, recordDelivered,
         countOutstanding, publish, complete, rescheduleRecurring, seedRecurring, notAnswered,
         throw, crash, rearmFails, registry, consumer
<1>2. /\ queued' \in BOOLEAN /\ unarmed' \in BOOLEAN /\ (queued' => ~unarmed')
      /\ holder' \in Process \cup {NoProcess}
  <2>1. \/ UNCHANGED <<queued, unarmed>>
        \/ queued' = FALSE /\ unarmed' = unarmed
        \/ queued' = TRUE /\ unarmed' = FALSE
        \/ queued' = queued /\ unarmed' = ~queued
    BY DEF job, relayStep, startRelay, readSubscriptions, deliver, answered, deadline,
         recordDelivered, countOutstanding, publish, complete, rescheduleRecurring, seedRecurring,
         notAnswered, throw, crash, rearmFails
  <2>2. holder' \in {holder, p, NoProcess}
    BY DEF job, relayStep, startRelay, readSubscriptions, deliver, answered, deadline,
         recordDelivered, countOutstanding, publish, complete, rescheduleRecurring, seedRecurring,
         notAnswered, throw, crash, rearmFails
  <2>3. holder' \in Process \cup {NoProcess}
    BY <1>0, <2>2 DEF Tables
  <2>4. queued \in BOOLEAN /\ unarmed \in BOOLEAN /\ (queued => ~unarmed)
    BY <1>0 DEF Tables
  <2>5. queued' \in BOOLEAN /\ unarmed' \in BOOLEAN /\ (queued' => ~unarmed')
    <3>1. CASE UNCHANGED <<queued, unarmed>>
      BY <2>4, <3>1
    <3>2. CASE queued' = FALSE /\ unarmed' = unarmed
      BY <2>4, <3>2
    <3>3. CASE queued' = TRUE /\ unarmed' = FALSE
      BY <3>3
    <3>4. CASE queued' = queued /\ unarmed' = ~queued
      BY <2>4, <3>4
    <3> QED
      BY <2>1, <3>1, <3>2, <3>3, <3>4
  <2> QED
    BY <2>3, <2>5
<1>3. faults' \in 0..MaxFaults
  <2>1. faults' = faults \/ fault
    BY DEF relayStep, startRelay, readSubscriptions, deliver, answered, deadline, recordDelivered,
         countOutstanding, publish, complete, rescheduleRecurring, seedRecurring, notAnswered,
         throw, crash, rearmFails
  <2> QED
    BY <1>0, <2>1, OutboxAssumption DEF Tables, fault
<1>4. wire' \subseteq outbox \X Subscriber
  <2>1. CASE deliver(p)
    <3>1. wire' = wire \/ \E s \in run[p].to : wire' = wire \cup {<<event(p), s>>}
      BY <2>1 DEF deliver
    <3>2. run[p].batch # {} /\ run[p].to \subseteq Subscriber
      BY <1>0, <2>1 DEF deliver, at, Sound, Pass
    <3>3. event(p) \in outbox
      BY <3>2, InHand
    <3> QED
      BY <1>0, <3>1, <3>2, <3>3 DEF Tables
  <2>2. CASE ~ deliver(p)
    <3>1. wire' = wire
      BY <2>2 DEF relayStep, startRelay, readSubscriptions, answered, deadline, recordDelivered,
         countOutstanding, publish, complete, rescheduleRecurring, seedRecurring, notAnswered,
         throw, crash, rearmFails
    <3> QED
      BY <1>0, <3>1 DEF Tables
  <2> QED
    BY <2>1, <2>2
<1>5. delivered' \subseteq outbox \X Subscriber /\ DeliveredArrived'
  <2>1. CASE recordDelivered(p)
    <3>1. /\ delivered' = delivered \cup run[p].sent /\ run[p].sent \subseteq outbox \X Subscriber
          /\ \A q \in run[p].sent : q[1] \in inbox[q[2]]
      BY <1>0, <2>1 DEF recordDelivered, at, Sound
    <3> QED
      BY <1>0, <1>1, <3>1 DEF Tables, IInv, DeliveredArrived
  <2>2. CASE ~ recordDelivered(p)
    <3>1. delivered' = delivered
      BY <2>2 DEF relayStep, startRelay, readSubscriptions, deliver, answered, deadline,
         countOutstanding, publish, complete, rescheduleRecurring, seedRecurring, notAnswered,
         throw, crash, rearmFails
    <3> QED
      BY <1>0, <1>1, <3>1 DEF Tables, IInv, DeliveredArrived
  <2> QED
    BY <2>1, <2>2
<1>6. published' \subseteq outbox /\ PublishedReached'
  <2>1. CASE publish(p)
    <3>1. run[p].batch # {} /\ Reached(event(p)) /\ published' = published \cup {event(p)}
      BY <1>0, <2>1 DEF publish, at, Sound, event
    <3>2. event(p) \in outbox
      BY <3>1, InHand
    <3> QED
      BY <1>0, <1>1, <3>1, <3>2 DEF Tables, IInv, PublishedReached, Reached
  <2>2. CASE ~ publish(p)
    <3>1. published' = published
      BY <2>2 DEF relayStep, startRelay, readSubscriptions, deliver, answered, deadline,
         recordDelivered, countOutstanding, complete, rescheduleRecurring, seedRecurring,
         notAnswered, throw, crash, rearmFails
    <3> QED
      BY <1>0, <1>1, <3>1 DEF Tables, IInv, PublishedReached, Reached
  <2> QED
    BY <2>1, <2>2
<1>7. Tables'
  BY <1>0, <1>1, <1>2, <1>3, <1>4, <1>5, <1>6 DEF Tables
<1> QED
  BY <1>1, <1>5, <1>6, <1>7 DEF registry, consumer

\* A step of a pass keeps the invariant.
LEMMA PassKeeps ==
  ASSUME IInv, NEW p \in Process,
         relayStep(p) \/ notAnswered(p) \/ throw(p) \/ crash(p) \/ rearmFails(p)
  PROVE  IInv'
PROOF
<1>1. /\ UNCHANGED <<registry, consumer>>
      /\ Tables' /\ DeliveredArrived' /\ PublishedReached'
  BY PassWrites
<1>2. PassSound'
  <2>1. CASE complete(p)
    BY <2>1, CompleteKeepsPasses
  <2>2. CASE ~ complete(p)
    <3>1. GoesOn(p)
      BY <2>2, PassGoesOn DEF relayStep
    <3> QED
      BY <1>1, <3>1, PassSteps DEF GoesOn
  <2> QED
    BY <2>1, <2>2
<1>3. Committed' /\ InboxIsActed'
  BY <1>1 DEF IInv, Committed, InboxIsActed, registry, consumer
<1> QED
  BY <1>1, <1>2, <1>3 DEF IInv

\* What the environment does to the requests and the lease.
LEMMA OutsideKeeps ==
  ASSUME IInv, (\E r \in wire : lose(r)) \/ leaseLapses \/ UNCHANGED vars
  PROVE  IInv'
PROOF
<1>1. /\ UNCHANGED <<changed, outbox, active, since, inbox, acted, published, delivered, run,
                     queued, unarmed>>
      /\ wire' \subseteq wire /\ holder' \in {holder, NoProcess}
      /\ faults' = faults \/ fault
  BY DEF lose, leaseLapses, vars, registry, consumer, job
<1>2. Tables'
  BY <1>1, OutboxAssumption DEF IInv, Tables, fault
<1>3. Grows
  BY <1>1 DEF Grows
<1>4. PassSound'
  BY <1>1, <1>3, PassesStay
<1>5. Committed' /\ DeliveredArrived' /\ InboxIsActed' /\ PublishedReached'
  BY <1>1 DEF IInv, Committed, DeliveredArrived, InboxIsActed, PublishedReached, Reached
<1> QED
  BY <1>2, <1>4, <1>5 DEF IInv

------------------------------------------------------------------------------
(* What always holds.                                                      *)

\* The invariant is one.
LEMMA Invariant == Spec => []IInv
PROOF
<1>1. IInv /\ [Next]_vars => IInv'
  BY WithOutboxKeeps, SubscribeKeeps, ReceiveKeeps, PassKeeps, OutsideKeeps DEF Next
<1> QED
  BY InitSound, <1>1, PTL DEF Spec

\* Every table keeps to the schema, and a pass that has a request under way is
\* at an event.
THEOREM TypeCorrect == Spec => []TypeOK
PROOF
<1>1. IInv => TypeOK
  <2> SUFFICES ASSUME IInv PROVE TypeOK
    OBVIOUS
  <2>1. outbox \X Subscriber \subseteq Request
    BY DEF IInv, Tables, Request
  <2>2. ASSUME NEW p \in Process
        PROVE  /\ run[p].pc \in Pc
               /\ run[p].batch \subseteq outbox /\ run[p].to \subseteq active
               /\ run[p].sent \subseteq Request
               /\ run[p].sent # {} => run[p].pc \in {"post", "record"} /\ run[p].batch # {}
    BY <2>1, InHand DEF Sound, Pass
  <2> QED
    BY <2>1, <2>2 DEF IInv, Tables, TypeOK, Pc
<1> QED
  BY Invariant, <1>1, PTL

\* However many passes overlap, and whoever subscribes meanwhile: an event is
\* taken off the backlog only when every subscription there was when it was
\* written has acted on it.
THEOREM PublishedIsReached == Spec => []PublishedReachedAll
PROOF
<1>1. IInv => PublishedReachedAll
  BY DEF IInv, PublishedReached, Reached, InboxIsActed, PublishedReachedAll, Tables
<1> QED
  BY Invariant, <1>1, PTL

\* Every step is a change that happens, a subscriber that acts on one for the
\* first time, or nothing to either.
LEMMA StepIsNotified ==
  ASSUME IInv, [Next]_vars
  PROVE  [Notified!Next]_<<changed, acted>>
PROOF
<1>1. ASSUME NEW c \in Change, withOutbox(c)
      PROVE  Notified!Happen(c)
  BY <1>1 DEF withOutbox, consumer, Notified!Happen
<1>2. ASSUME NEW s \in Subscriber, NEW c \in Change, receive(s, c)
      PROVE  Notified!ActOn(s, c)
  <2>1. <<c, s>> \in wire /\ c \notin inbox[s] /\ acted' = [acted EXCEPT ![s] = Append(@, c)]
        /\ changed' = changed
    BY <1>2 DEF receive, withInbox, registry
  <2>2. c \in changed
    BY <2>1 DEF IInv, Tables, Committed
  <2>3. ~ Contains(acted[s], c)
    BY <2>1 DEF IInv, InboxIsActed
  <2> QED
    BY <2>1, <2>2, <2>3 DEF Notified!ActOn, Contains, Notified!Contains
<1>3. ASSUME NEW p \in Process,
             relayStep(p) \/ notAnswered(p) \/ throw(p) \/ crash(p) \/ rearmFails(p)
      PROVE  UNCHANGED <<changed, acted>>
  BY <1>3, PassWrites DEF registry, consumer
<1>4. ASSUME NEW s \in Subscriber, subscribe(s)
      PROVE  UNCHANGED <<changed, acted>>
  BY <1>4 DEF subscribe, consumer
<1>5. ASSUME (\E r \in wire : lose(r)) \/ leaseLapses \/ UNCHANGED vars
      PROVE  UNCHANGED <<changed, acted>>
  BY <1>5 DEF lose, leaseLapses, vars, registry, consumer
<1> QED
  BY <1>1, <1>2, <1>3, <1>4, <1>5 DEF Next, Notified!Next

\* Outbox implements Notification: nobody acts on a change that did not commit,
\* or twice on one that did.
THEOREM ActsOnce == Spec => EffectivelyOnce
PROOF
<1>1. Init => Notified!Init
  BY DEF Init, Notified!Init
<1>2. IInv /\ [Next]_vars => [Notified!Next]_<<changed, acted>>
  BY StepIsNotified
<1> QED
  BY <1>1, <1>2, Invariant, PTL DEF Spec, EffectivelyOnce, Notified!Spec
==============================================================================
