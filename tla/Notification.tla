---------------------------- MODULE Notification -----------------------------
(***************************************************************************)
(* What the outbox promises a subscriber: it is told of changes that did   *)
(* happen, and acts on each of them at most once.                          *)
(***************************************************************************)
EXTENDS Sequences, SequencesExt

CONSTANTS Change, Subscriber

VARIABLES
  happened,   \* the changes that were made
  acted       \* what each subscriber acted on, in the order it did

Init == happened = {} /\ acted = [s \in Subscriber |-> << >>]

Happen(c) == happened' = happened \cup {c} /\ UNCHANGED acted

ActOn(s, c) ==
  /\ c \in happened /\ ~Contains(acted[s], c)
  /\ acted' = [acted EXCEPT ![s] = Append(@, c)]
  /\ UNCHANGED happened

Next == \E c \in Change : Happen(c) \/ \E s \in Subscriber : ActOn(s, c)

Spec == Init /\ [][Next]_<<happened, acted>>
==============================================================================
