------------------------------- MODULE Outbox --------------------------------
(***************************************************************************)
(* Events about the registry's changes (src/src/outbox.ts): written with   *)
(* the change, relayed by a leased recurring job (src/src/jobs.ts,         *)
(* src/src/index.ts) to every subscription, and handled by a subscriber    *)
(* that keeps an inbox.                                                    *)
(*                                                                         *)
(* One topic.  A change is named by a number, the place of its occurred_at *)
(* among the others: a transaction gets that when it begins, so changes    *)
(* commit in any order.  Left out: envelopes and signatures; a             *)
(* subscription that is withdrawn; outages in such number that the job     *)
(* dies.                                                                   *)
(***************************************************************************)
EXTENDS Integers, FiniteSets, Sequences, SequencesExt, FiniteSetsExt

CONSTANTS Change, Subscriber,
          Process, NoProcess,   \* replicas of the service
          Early,                \* subscriptions made before any change
          BatchSize,            \* rows one pass of the relay reads
          MaxFaults             \* bound on crashes, outages, lost answers, lapses

ASSUME OutboxAssumption ==
  /\ Change \subseteq Nat /\ IsFiniteSet(Change) /\ NoProcess \notin Process
  /\ Early \subseteq Subscriber
  /\ BatchSize \in Nat \ {0} /\ MaxFaults \in Nat

VARIABLES
  changed,    \* the changes the registry shows
  outbox,     \* rows of outbox
  published,  \* those with a published_at
  active,     \* subscriptions
  since,      \* the rows there were when each subscription was made
  delivered,  \* rows of outbox_deliveries with a delivered_at
  wire,       \* requests that may still reach a subscriber
  inbox,      \* each subscriber's inbox
  acted,      \* the changes each subscriber's handler committed
  queued,     \* is there an outbox.relay job?
  holder,     \* who holds it
  unarmed,    \* was a failure to enqueue it again logged, and nothing has since?
  run,        \* what each process is doing with it
  faults

registry == <<changed, outbox, active, since>>
consumer == <<inbox, acted>>
job == <<queued, holder, unarmed>>
vars == <<registry, published, delivered, wire, consumer, job, run, faults>>

fault == faults < MaxFaults /\ faults' = faults + 1

------------------------------------------------------------------------------
(* The change and its event, in one transaction. *)

\* Wrong: the event is published before the change commits.
withOutbox_eventFirst(c) ==
  /\ c \notin outbox
  /\ outbox' = outbox \cup {c} /\ changed' \in {changed, changed \cup {c}}
  /\ UNCHANGED <<active, since, published, delivered, wire, consumer, job, run, faults>>

withOutbox(c) ==
  /\ c \notin outbox
  /\ outbox' = outbox \cup {c} /\ changed' = changed \cup {c}
  /\ UNCHANGED <<active, since, published, delivered, wire, consumer, job, run, faults>>

\* An operator registers a subscription.
subscribe(s) ==
  /\ s \notin active
  /\ active' = active \cup {s} /\ since' = [since EXCEPT ![s] = outbox]
  /\ UNCHANGED <<changed, outbox, published, delivered, wire, consumer, job, run, faults>>

------------------------------------------------------------------------------
(* The subscriber. *)

\* The inbox row and the handler's effect commit together; a second delivery
\* finds the row and does nothing.
withInbox(s, c) ==
  /\ c \notin inbox[s]
  /\ inbox' = [inbox EXCEPT ![s] = @ \cup {c}]
  /\ acted' = [acted EXCEPT ![s] = Append(@, c)]

\* A request arrives, early or late, once or more often.
receive(s, c) ==
  /\ <<c, s>> \in wire
  /\ withInbox(s, c)
  /\ UNCHANGED <<registry, published, delivered, wire, job, run, faults>>

------------------------------------------------------------------------------
(* The relay. *)

\* batch: the rows still to relay, the oldest first.  to: the subscriptions still
\* to be sent that one.  sent: the request under way.  mine: is the job's row still the
\* one this run was started for?
Idle == [pc |-> "idle", batch |-> {}, to |-> {}, sent |-> {}, mine |-> FALSE]
Down == [Idle EXCEPT !.pc = "down"]
at(p, pc) == run[p].pc = pc
event(p) == Min(run[p].batch)
set(p, r) == run' = [run EXCEPT ![p] = r]
goto(p, pc) == set(p, [run[p] EXCEPT !.pc = pc])

\* The oldest n of the unpublished rows.
backlog == outbox \ published
oldest(n) == {c \in backlog : Cardinality({d \in backlog : d < c}) < n}

startRelay(p) ==
  /\ at(p, "idle") /\ queued /\ holder = NoProcess
  /\ holder' = p
  /\ set(p, [Idle EXCEPT !.pc = "next", !.batch = oldest(BatchSize), !.mine = TRUE])
  /\ UNCHANGED <<registry, published, delivered, wire, consumer, queued, unarmed, faults>>

\* The subscriptions as they are at this event's turn.  A pass whose lease is
\* gone may be told to stop.
readSubscriptions(p) ==
  /\ at(p, "next")
  /\ \/ run[p].batch = {} /\ goto(p, "complete")
     \/ run[p].batch # {} /\ set(p, [run[p] EXCEPT !.pc = "deliver", !.to = active])
     \/ holder # p /\ goto(p, "complete")
  /\ UNCHANGED <<registry, published, delivered, wire, consumer, job, faults>>

\* deliver, for one of the subscriptions left: nothing if it has the event,
\* otherwise a request.
deliver(p) ==
  /\ at(p, "deliver")
  /\ \/ run[p].to = {} /\ goto(p, "count") /\ UNCHANGED wire
     \/ \E s \in run[p].to :
          LET r == <<event(p), s>>
              left == [run[p] EXCEPT !.to = @ \ {s}]
          IN  IF r \in delivered THEN set(p, left) /\ UNCHANGED wire
              ELSE /\ wire' = wire \cup {r}
                   /\ set(p, [left EXCEPT !.pc = "post", !.sent = {r}])
  /\ UNCHANGED <<registry, published, delivered, consumer, job, faults>>

\* The subscriber answers 2xx once it has the event.
answered(p) ==
  /\ at(p, "post") /\ \A r \in run[p].sent : r[1] \in inbox[r[2]]
  /\ goto(p, "record")
  /\ UNCHANGED <<registry, published, delivered, wire, consumer, job, faults>>

\* A request, or what is left of one, is lost.
lose(r) ==
  /\ r \in wire /\ fault
  /\ wire' = wire \ {r}
  /\ UNCHANGED <<registry, published, delivered, consumer, job, run>>

\* Wrong: the request that was given up counts as the one under way.
leave_sent(p) == goto(p, "deliver")

\* deliver's catch: this subscription is left to the next pass.
leave(p) == set(p, [run[p] EXCEPT !.pc = "deliver", !.sent = {}])

\* No answer to a lost request.
deadline(p) ==
  /\ at(p, "post") /\ run[p].sent \cap wire = {}
  /\ leave(p)
  /\ UNCHANGED <<registry, published, delivered, wire, consumer, job, faults>>

\* Refused, or slow and on its way still, or taken and not written down.
notAnswered(p) ==
  /\ run[p].pc \in {"post", "record"} /\ fault
  /\ leave(p)
  /\ UNCHANGED <<registry, published, delivered, wire, consumer, job>>

recordDelivered(p) ==
  /\ at(p, "record")
  /\ delivered' = delivered \cup run[p].sent
  /\ set(p, [run[p] EXCEPT !.pc = "deliver", !.sent = {}])
  /\ UNCHANGED <<registry, published, wire, consumer, job, faults>>

\* Wrong: a request that was tried counts.
outstanding_untried(c) == {}

\* The subscriptions, as they are by now, that an event has not reached.
outstanding(c) == {s \in active : <<c, s>> \notin delivered}

\* ctx.heartbeat, and on to the next event.
onward(p) == set(p, [run[p] EXCEPT !.pc = "next", !.batch = @ \ {event(p)}])

countOutstanding(p) ==
  /\ at(p, "count")
  /\ IF outstanding(event(p)) = {} THEN goto(p, "publish") ELSE onward(p)
  /\ UNCHANGED <<registry, published, delivered, wire, consumer, job, faults>>

publish(p) ==
  /\ at(p, "publish")
  /\ published' = published \cup {event(p)}
  /\ onward(p)
  /\ UNCHANGED <<registry, delivered, wire, consumer, job, faults>>

------------------------------------------------------------------------------
(* The job and its recurrence. *)

\* The run's row is deleted, if it is still there, whoever holds it by now.
complete(p) ==
  /\ at(p, "complete")
  /\ IF run[p].mine
       THEN /\ queued' = FALSE /\ holder' = NoProcess /\ UNCHANGED unarmed
            /\ run' = [q \in Process |-> IF q = p THEN [Idle EXCEPT !.pc = "rearm"]
                                         ELSE [run[q] EXCEPT !.mine = FALSE]]
       ELSE goto(p, "rearm") /\ UNCHANGED job
  /\ UNCHANGED <<registry, published, delivered, wire, consumer, faults>>

rescheduleRecurring(p) ==
  /\ at(p, "rearm")
  /\ queued' = TRUE /\ unarmed' = FALSE /\ set(p, Idle)
  /\ UNCHANGED <<registry, published, delivered, wire, consumer, holder, faults>>

\* The enqueue is not awaited: its failure is logged.
rearmFails(p) ==
  /\ at(p, "rearm") /\ fault
  /\ unarmed' = ~queued /\ set(p, Idle)
  /\ UNCHANGED <<registry, published, delivered, wire, consumer, queued, holder>>

\* The database is away: the pass ends in a throw, and the runner tries again.
throw(p) ==
  /\ run[p].pc \notin {"idle", "down", "rearm"} /\ fault
  /\ set(p, Idle)
  /\ holder' = IF holder = p /\ run[p].mine THEN NoProcess ELSE holder
  /\ UNCHANGED <<registry, published, delivered, wire, consumer, queued, unarmed>>

crash(p) ==
  /\ ~at(p, "down") /\ fault
  /\ set(p, Down)
  /\ UNCHANGED <<registry, published, delivered, wire, consumer, job>>

\* Wrong: a replica that starts leaves the jobs as they are.
seedRecurring_not(p) ==
  /\ at(p, "down")
  /\ set(p, Idle) /\ UNCHANGED <<queued, unarmed>>
  /\ UNCHANGED <<registry, published, delivered, wire, consumer, holder, faults>>

\* A replica starts, and puts the recurring jobs where they are missing.
seedRecurring(p) ==
  /\ at(p, "down")
  /\ set(p, Idle) /\ queued' = TRUE /\ unarmed' = FALSE
  /\ UNCHANGED <<registry, published, delivered, wire, consumer, holder, faults>>

\* A lease runs out under a process that is gone, or that is merely slow.
leaseLapses ==
  /\ holder # NoProcess /\ holder' = NoProcess
  /\ IF run[holder].mine THEN fault ELSE UNCHANGED faults
  /\ UNCHANGED <<registry, published, delivered, wire, consumer, queued, unarmed, run>>

------------------------------------------------------------------------------
Init ==
  /\ changed = {} /\ outbox = {} /\ published = {}
  /\ active = Early /\ since = [s \in Subscriber |-> {}]
  /\ delivered = {} /\ wire = {}
  /\ inbox = [s \in Subscriber |-> {}] /\ acted = [s \in Subscriber |-> << >>]
  /\ queued = TRUE /\ holder = NoProcess /\ unarmed = FALSE
  /\ run = [p \in Process |-> Idle]
  /\ faults = 0

relayStep(p) ==
  \/ startRelay(p) \/ readSubscriptions(p) \/ deliver(p) \/ answered(p) \/ deadline(p)
  \/ recordDelivered(p) \/ countOutstanding(p) \/ publish(p)
  \/ complete(p) \/ rescheduleRecurring(p) \/ seedRecurring(p)

Next ==
  \/ \E c \in Change : withOutbox(c)
  \/ \E s \in Subscriber : subscribe(s) \/ \E c \in Change : receive(s, c)
  \/ \E p \in Process : relayStep(p) \/ notAnswered(p) \/ throw(p) \/ crash(p) \/ rearmFails(p)
  \/ leaseLapses
  \/ \E r \in wire : lose(r)

Spec == Init /\ [][Next]_vars

\* A process goes on, and a new one starts where one died; a request that was
\* not lost arrives; an abandoned lease ends.
FairSpec ==
  /\ Spec
  /\ \A p \in Process : WF_vars(relayStep(p))
  /\ \A s \in Subscriber, c \in Change : WF_vars(receive(s, c))
  /\ WF_vars(leaseLapses /\ UNCHANGED faults)

------------------------------------------------------------------------------
(* What must hold. *)

Request == Change \X Subscriber

\* Rows and requests are about changes that have one; a run that holds a request
\* is at an event.
TypeOK ==
  /\ changed \subseteq Change /\ outbox \subseteq Change /\ published \subseteq outbox
  /\ active \subseteq Subscriber /\ since \in [Subscriber -> SUBSET Change]
  /\ wire \subseteq Request /\ delivered \subseteq Request
  /\ inbox \in [Subscriber -> SUBSET outbox]
  /\ acted \in [Subscriber -> Seq(Change)]
  /\ queued \in BOOLEAN /\ holder \in Process \cup {NoProcess}
  /\ unarmed \in BOOLEAN /\ (queued => ~unarmed)
  /\ \A p \in Process :
       /\ run[p].pc \in {"idle", "down", "next", "deliver", "post", "record", "count",
                         "publish", "complete", "rearm"}
       /\ run[p].batch \subseteq outbox /\ run[p].to \subseteq active /\ run[p].sent \subseteq Request
       /\ run[p].sent # {} => run[p].pc \in {"post", "record"} /\ run[p].batch # {}
  /\ faults \in 0..MaxFaults

\* "Delivery is at-least-once. The consumer is what makes it effectively-once":
\* nobody acts on a change that did not commit, or twice on one that did,
\* however many relays ran and however often the request arrived (withOutbox,
\* withInbox).
Notified == INSTANCE Notification WITH happened <- changed
EffectivelyOnce == Notified!Spec

\* createRelay: an event is taken off the backlog only when it has reached every
\* subscription that was there when it was written.
PublishedReachedAll ==
  \A c \in published, s \in active : c \notin since[s] => Contains(acted[s], c)

\* withOutbox, createRelay, rescheduleRecurring, seedRecurring: a change that
\* committed reaches everybody who had subscribed, whatever crashes; one thing
\* ends the recurrence until some replica starts, and it is in the log.
EveryChangeReaches ==
  \A c \in Change, s \in Subscriber :
    c \in changed /\ s \in active /\ c \notin since[s] ~> Contains(acted[s], c) \/ unarmed
==============================================================================
