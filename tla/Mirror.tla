------------------------------- MODULE Mirror --------------------------------
(***************************************************************************)
(* The position mirror of one market (src/src/mirror.ts): mirror.sync      *)
(* copies the contract's Staked logs, as the indexer shows them, into the  *)
(* positions table, row by row and over several calls.  A transaction      *)
(* carries one stake, stakeOf of it.  Blocks, the cursor and the display   *)
(* of the pool's odds are left out.                                        *)
(*                                                                         *)
(* The indexer is another service.  It lists a transaction it has not      *)
(* finished writing, marks one orphaned when the chain drops it, and shows *)
(* both sightings for a while when the chain takes it again.  This module  *)
(* holds actions; Registry composes them with the market.                  *)
(***************************************************************************)
EXTENDS Integers, FiniteSets, FiniteSetsExt, Functions

CONSTANTS Tx,               \* transactions that stake into the contract
          Staker, Outcome,
          stakeOf,          \* the staker, outcome and amount of each
          PageSize,         \* items the indexer returns to one call
          Worker, NoWorker, \* job runners that may hold mirror.sync
          MaxReorgs,        \* bound on transactions the chain drops
          MaxFaults         \* bound on crashes, outages and lapsed leases

ASSUME MirrorAssumption ==
  /\ IsFiniteSet(Tx) /\ IsFiniteSet(Worker) /\ NoWorker \notin Worker
  /\ stakeOf \in [Tx -> [staker : Staker, outcome : Outcome, amount : Nat \ {0}]]
  /\ PageSize \in Nat \ {0} /\ MaxReorgs \in Nat /\ MaxFaults \in Nat

VARIABLES
  seen,       \* the indexer's view of every transaction
  reorgs,
  positions,  \* the mirrored stakes: "none", "live" or "orphaned"
  queued,     \* is there a mirror.sync job?
  holder,     \* who holds it
  sync,       \* what each worker's run of it has read
  faults

chain == <<seen, reorgs>>
runner == <<queued, holder, sync>>
mirrorVars == <<chain, positions, runner, faults>>

fault == faults < MaxFaults /\ faults' = faults + 1

------------------------------------------------------------------------------
(* The chain through the indexer.                                          *)

listed == {t \in Tx : seen[t] # "unseen"}
canonical == {t \in Tx : seen[t] \in {"unfinished", "included", "moving"}}

\* What activity and what the transaction read say of t.
activityOrphaned == {t \in Tx : seen[t] \in {"orphaned", "moving"}}
transactionOrphaned(t) == seen[t] = "orphaned"

include(t) ==
  /\ seen[t] \in {"unseen", "orphaned"}
  /\ seen' = [seen EXCEPT ![t] = IF seen[t] = "unseen" THEN "unfinished" ELSE "moving"]
  /\ UNCHANGED reorgs

drop(t) ==
  /\ t \in canonical /\ reorgs < MaxReorgs
  /\ seen' = [seen EXCEPT ![t] = "orphaned"]
  /\ reorgs' = reorgs + 1

\* The indexer finishes writing a block.
finish(t) ==
  /\ seen[t] \in {"unfinished", "moving"}
  /\ seen' = [seen EXCEPT ![t] = "included"]
  /\ UNCHANGED reorgs

------------------------------------------------------------------------------
(* mirror.sync: one job per market, one worker at a time while its lease   *)
(* lasts.  A run reads the page, then each transaction on it, and writes   *)
(* the rows one at a time.                                                 *)

Idle == [pc |-> "idle", page |-> {}, suspect |-> {}, rows |-> {}]

\* enqueue changes nothing while the job's row is there.
enqueue == queued' = TRUE /\ UNCHANGED <<holder, sync>>

\* The handler returns: the job's row is deleted, whoever holds it by now.
complete(w) ==
  /\ sync' = [sync EXCEPT ![w] = Idle]
  /\ queued' = FALSE /\ holder' = NoWorker

\* The first page is the only one that is read.  Any orphaned sighting wins.
readActivity(w) ==
  /\ queued /\ holder = NoWorker /\ sync[w].pc = "idle"
  /\ \E page \in kSubset(Min({PageSize, Cardinality(listed)}), listed) :
       sync' = [sync EXCEPT ![w] = [pc |-> "read", page |-> page, rows |-> {},
                                    suspect |-> page \cap activityOrphaned]]
  /\ holder' = w
  /\ UNCHANGED <<queued, chain, positions, faults>>

\* A transaction the indexer has not finished writing is left for the next run.
readTransaction(w, t) ==
  /\ sync[w].pc = "read" /\ t \in sync[w].page
  /\ sync' = [sync EXCEPT
       ![w].page = @ \ {t},
       ![w].rows = IF seen[t] = "unfinished" THEN @ ELSE @ \cup
         {[tx |-> t, as |-> IF t \in sync[w].suspect \/ transactionOrphaned(t)
                            THEN "orphaned" ELSE "live"]}]
  /\ UNCHANGED <<queued, holder, chain, positions, faults>>

\* Wrong: a row that is there is left as it is.
recordStakes_insertOnly(w) ==
  /\ sync[w].pc = "read" /\ sync[w].page = {}
  /\ \E r \in sync[w].rows :
       /\ positions' = [positions EXCEPT ![r.tx] = IF @ = "none" THEN r.as ELSE @]
       /\ sync' = [sync EXCEPT ![w].rows = @ \ {r}]
  /\ UNCHANGED <<queued, holder, chain, faults>>

\* The upsert: the row is keyed on the log, and its flag follows the last write.
recordStakes(w) ==
  /\ sync[w].pc = "read" /\ sync[w].page = {}
  /\ \E r \in sync[w].rows :
       /\ positions' = [positions EXCEPT ![r.tx] = r.as]
       /\ sync' = [sync EXCEPT ![w].rows = @ \ {r}]
  /\ UNCHANGED <<queued, holder, chain, faults>>

finishSync(w) ==
  /\ sync[w].pc = "read" /\ sync[w].page = {} /\ sync[w].rows = {}
  /\ complete(w)
  /\ UNCHANGED <<chain, positions, faults>>

\* The indexer is away: recordSyncError, and the job completes.
syncFails(w) ==
  /\ sync[w].pc = "read" /\ sync[w].page # {} /\ fault
  /\ complete(w)
  /\ UNCHANGED <<chain, positions>>

\* A worker dies with what it read; its lease lapses in time.
crashWorker(w) ==
  /\ sync[w].pc # "idle" /\ fault
  /\ sync' = [sync EXCEPT ![w] = Idle]
  /\ holder' = IF holder = w THEN NoWorker ELSE holder
  /\ UNCHANGED <<queued, chain, positions>>

\* A run outlives its lease, and another may start.
leaseLapses ==
  /\ holder # NoWorker /\ fault
  /\ holder' = NoWorker
  /\ UNCHANGED <<queued, sync, chain, positions>>

------------------------------------------------------------------------------
(* What the mirror shows.                                                  *)

\* housePositionOf, positionOf: what s holds on o, of the rows in S.
position(S, s, o) ==
  SumFunctionOnSet([t \in Tx |-> stakeOf[t].amount],
                   {t \in S : stakeOf[t].staker = s /\ stakeOf[t].outcome = o})
live == {t \in Tx : positions[t] = "live"}

MirrorInit ==
  /\ seen = [t \in Tx |-> "unseen"] /\ reorgs = 0
  /\ positions = [t \in Tx |-> "none"]
  /\ queued = FALSE /\ holder = NoWorker /\ sync = [w \in Worker |-> Idle]
  /\ faults = 0

syncStep(w) ==
  \/ readActivity(w) \/ recordStakes(w) \/ finishSync(w)
  \/ \E t \in Tx : readTransaction(w, t)

MirrorTypeOK ==
  /\ seen \in [Tx -> {"unseen", "unfinished", "included", "orphaned", "moving"}]
  /\ reorgs \in 0..MaxReorgs /\ faults \in 0..MaxFaults
  /\ positions \in [Tx -> {"none", "live", "orphaned"}]
  /\ \A t \in Tx : positions[t] # "none" => seen[t] # "unseen"
  /\ queued \in BOOLEAN /\ holder \in Worker \cup {NoWorker}
  /\ \A w \in Worker :
       /\ sync[w].pc \in {"idle", "read"} /\ sync[w].page \cup sync[w].suspect \subseteq listed
       /\ sync[w].rows \subseteq [tx : listed, as : {"live", "orphaned"}]
==============================================================================
