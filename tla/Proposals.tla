------------------------------ MODULE Proposals ------------------------------
(***************************************************************************)
(* From a question somebody has to the document a market is decided on:    *)
(* the idea queue (src/src/ideas.ts), the allowlist it is held to          *)
(* (src/src/categories.ts), the pipeline that asks a search and a model    *)
(* for questions (src/src/proposer.ts, ideaProposeHandler in jobs.ts), the *)
(* operators' routes (src/src/server.ts), and the draft of a market with   *)
(* the hash of its document (src/src/markets.ts, src/src/questiondoc.ts).  *)
(*                                                                         *)
(* A text is a record: its words, whether there is white space around      *)
(* them, category, kind of source, and a close time in ticks, Second of    *)
(* them to a second.  A hash is the document it is of: the encoding is     *)
(* length-prefixed and keccak is taken to have no collisions.  Limits of   *)
(* length are Vague words.  Left out: the reason an empty run gives,       *)
(* prompts and their hash, notes, the images of ideas and of markets.      *)
(***************************************************************************)
EXTENDS Integers, Sequences, FiniteSets, SequencesExt

CONSTANTS
  Idea, Operator, Market,
  Text,          \* the texts somebody may write
  Vague,         \* words that are too short or too long
  CATEGORIES,    \* a function from each allowed category to its kinds of source
  Source,        \* what a search may find
  PROPOSAL_TOPICS, \* how many topics a run goes through
  Count,         \* proposalBatchSize
  REFUSALS,
  None,          \* no row, no person, no reason
  Second, MaxTime, MaxRuns, MaxAnswer

ProposalsAssumption ==
  /\ {Second, PROPOSAL_TOPICS} \subseteq Nat \ {0} /\ {MaxTime, MaxRuns, MaxAnswer, Count} \subseteq Nat
  /\ \A t \in Text :
       /\ t = [words |-> t.words, spaces |-> t.spaces, category |-> t.category, kind |-> t.kind,
               close |-> t.close]
       /\ t.close \in Nat /\ t.spaces \in BOOLEAN

VARIABLES
  ideas,    \* ideas: the row of each idea, or None
  editing,  \* per operator: what editIdea read and is to write, or None
  run,      \* the pipeline's job: topic it is at (0: idle), proposals left to store, runs started
  markets,  \* markets: the row of each market, or None
  now

vars == <<ideas, editing, run, markets, now>>

stored(i) == ideas[i] # None
decided(i) == stored(i) /\ ideas[i].status # "proposed"
trim(t) == [t EXCEPT !.spaces = FALSE]

------------------------------------------------------------------------------
(* What is asked of a proposal.                                            *)

isCategory(c) == c \in DOMAIN CATEGORIES
isSourceKindFor(c, kind) == isCategory(c) /\ kind \in CATEGORIES[c]

validateProposal(p) ==
  /\ p.text.words \notin Vague
  /\ isSourceKindFor(p.text.category, p.text.kind)
  /\ p.text.close > now
  /\ p.origin = "model" => p.sources # {}

\* The first row that is free; a proposal that is not valid is not stored.
insertIdea(p) ==
  /\ validateProposal(p)
  /\ \E i \in Idea :
       /\ ~stored(i)
       /\ ideas' = [ideas EXCEPT ![i] = [status |-> "proposed", text |-> trim(p.text),
            origin |-> p.origin, sources |-> p.sources, by |-> None, refusal |-> None]]

------------------------------------------------------------------------------
(* The pipeline.                                                           *)

toProposal(text, sources) == [text |-> text, origin |-> "model", sources |-> sources]

\* A candidate that does not parse is dropped, whatever comes after Count of
\* them is cut, and nothing is asked of the model when the search found nothing.
proposals(sources, candidates) ==
  IF sources = {} THEN <<>>
  ELSE [n \in {n \in DOMAIN candidates : n <= Count} |-> toProposal(candidates[n], sources)]

\* The runner claims the job; a run that threw is run again from its first topic.
ideaPropose ==
  /\ run.topic = 0 /\ run.started < MaxRuns
  /\ run' = [topic |-> 1, asked |-> FALSE, left |-> <<>>, started |-> run.started + 1]
  /\ UNCHANGED <<ideas, editing, markets, now>>

\* No sources stands for a search, or a model, that failed.
propose(sources, candidates) ==
  /\ run.topic > 0 /\ ~run.asked
  /\ run' = [run EXCEPT !.asked = TRUE, !.left = proposals(sources, candidates)]
  /\ UNCHANGED <<ideas, editing, markets, now>>

\* One proposal is stored, or dropped.
store ==
  /\ run.left # <<>>
  /\ run' = [run EXCEPT !.left = Tail(run.left)]
  /\ \/ insertIdea(Head(run.left))
     \/ ~validateProposal(Head(run.left)) /\ UNCHANGED ideas
  /\ UNCHANGED <<editing, markets, now>>

nextTopic ==
  /\ run.topic > 0 /\ run.asked /\ run.left = <<>>
  /\ run' = [run EXCEPT !.topic = IF @ < PROPOSAL_TOPICS THEN @ + 1 ELSE 0, !.asked = FALSE]
  /\ UNCHANGED <<ideas, editing, markets, now>>

\* The database refuses one row, or the worker dies: what was stored stays.
runFails ==
  /\ run.topic > 0
  /\ run' = [run EXCEPT !.topic = 0, !.asked = FALSE, !.left = <<>>]
  /\ UNCHANGED <<ideas, editing, markets, now>>

------------------------------------------------------------------------------
(* The operators.                                                          *)

\* POST /ideas
postIdea(text) ==
  /\ insertIdea([text |-> text, origin |-> "operator", sources |-> {}])
  /\ UNCHANGED <<editing, run, markets, now>>

approveIdea(o, i) ==
  /\ stored(i) /\ ~decided(i)
  /\ ideas' = [ideas EXCEPT ![i].status = "approved", ![i].by = o]
  /\ UNCHANGED <<editing, run, markets, now>>

discardIdea(o, i, refusal) ==
  /\ refusal \in REFUSALS
  /\ stored(i) /\ ~decided(i)
  /\ ideas' = [ideas EXCEPT ![i].status = "discarded", ![i].by = o, ![i].refusal = refusal]
  /\ UNCHANGED <<editing, run, markets, now>>

\* editIdea reads the row and checks the whole proposal it would become, with
\* the origin and sources it has; then it writes, if the row is still proposed.
readForEdit(o, i, text) ==
  /\ editing[o] = None
  /\ stored(i) /\ ~decided(i)
  /\ validateProposal([ideas[i] EXCEPT !.text = text])
  /\ editing' = [editing EXCEPT ![o] = [idea |-> i, text |-> trim(text)]]
  /\ UNCHANGED <<ideas, run, markets, now>>

\* Wrong: the update asks for the id alone.
editIdea_byId(o) ==
  /\ editing[o] # None
  /\ editing' = [editing EXCEPT ![o] = None]
  /\ ideas' = [ideas EXCEPT ![editing[o].idea].text = editing[o].text]
  /\ UNCHANGED <<run, markets, now>>

editIdea(o) ==
  /\ editing[o] # None
  /\ editing' = [editing EXCEPT ![o] = None]
  /\ ideas' = IF decided(editing[o].idea) THEN ideas
              ELSE [ideas EXCEPT ![editing[o].idea].text = editing[o].text]
  /\ UNCHANGED <<run, markets, now>>

------------------------------------------------------------------------------
(* The draft and its document.                                             *)

\* Close time in whole seconds.
document(text) == [text EXCEPT !.close = @ \div Second]
questionHash(doc) == doc

hashed(text) == questionHash(document(trim(text)))

\* POST /markets: the text is the caller's, the idea only a reference, and its
\* status is read from its row.  The row keeps the close time to the tick.
createDraft(m, i, text) ==
  /\ markets[m] = None
  /\ i # None => stored(i)
  /\ isSourceKindFor(text.category, text.kind) /\ text.close > now
  /\ markets' = [markets EXCEPT ![m] = [status |-> "draft", idea |-> i, text |-> trim(text),
                                         hash |-> hashed(text)]]
  /\ UNCHANGED <<ideas, editing, run, now>>

\* The status of the idea reaches the market's row through the foreign key.
approveMarket(m) ==
  /\ markets[m] # None /\ markets[m].status = "draft"
  /\ markets[m].idea # None => ideas[markets[m].idea].status = "approved"
  /\ markets[m].text.close > now
  /\ markets' = [markets EXCEPT ![m].status = "approved"]
  /\ UNCHANGED <<ideas, editing, run, now>>

tick ==
  /\ now < MaxTime
  /\ now' = now + 1
  /\ UNCHANGED <<ideas, editing, run, markets>>

------------------------------------------------------------------------------

Init ==
  /\ ideas = [i \in Idea |-> None] /\ editing = [o \in Operator |-> None]
  /\ run = [topic |-> 0, asked |-> FALSE, left |-> <<>>, started |-> 0]
  /\ markets = [m \in Market |-> None] /\ now = 0

Next ==
  \/ ideaPropose \/ store \/ nextTopic \/ runFails \/ tick
  \/ \E sources \in SUBSET Source : \E candidates \in BoundedSeq(Text, MaxAnswer) :
       propose(sources, candidates)
  \/ \E text \in Text : postIdea(text)
  \/ \E o \in Operator : editIdea(o)
  \/ \E o \in Operator, i \in Idea :
       \/ approveIdea(o, i)
       \/ \E refusal \in REFUSALS : discardIdea(o, i, refusal)
       \/ \E text \in Text : readForEdit(o, i, text)
  \/ \E m \in Market :
       \/ approveMarket(m)
       \/ \E i \in Idea \cup {None}, text \in Text : createDraft(m, i, text)

Spec == Init /\ [][Next]_vars

------------------------------------------------------------------------------
(* What must hold.                                                         *)

\* The CHECKs of ideas: a machine's proposal cites its sources, a decision has
\* a person, a discard a reason from the list.  And of the pipeline: no more
\* proposals are on their way than the batch asked for.
TypeOK ==
  /\ \A i \in Idea : stored(i) =>
       /\ ideas[i].status \in {"proposed", "approved", "discarded"}
       /\ ideas[i].origin = "model" => ideas[i].sources # {}
       /\ decided(i) => ideas[i].by \in Operator
       /\ ideas[i].status = "discarded" => ideas[i].refusal \in REFUSALS
  /\ Len(run.left) <= Count /\ run.topic \in 0 .. PROPOSAL_TOPICS
  /\ \A m \in Market : markets[m] # None => markets[m].status \in {"draft", "approved"}

\* documentFor: who hashes the document of a market's row gets its question_hash,
\* and a row in the queue is one that an operator could approve.
RowsAreTheirDocuments ==
  /\ \A m \in Market : markets[m] # None =>
       questionHash(document(markets[m].text)) = markets[m].hash
  /\ \A i \in Idea : stored(i) =>
       isSourceKindFor(ideas[i].text.category, ideas[i].text.kind) /\ ideas[i].text.words \notin Vague

\* editIdea, approveIdea, discardIdea: what a person decided on stays the text
\* it was, decided once, by them; no edit makes a machine's proposal a person's
\* or takes its sources away; and no step leaves a row that is not its document.
DecisionsStand ==
  [][/\ \A i \in Idea : stored(i) =>
          /\ ideas'[i].origin = ideas[i].origin /\ ideas'[i].sources = ideas[i].sources
          /\ decided(i) => ideas'[i] = ideas[i]
     /\ RowsAreTheirDocuments']_vars
==============================================================================
