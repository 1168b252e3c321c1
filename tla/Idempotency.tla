---------------------------- MODULE Idempotency ------------------------------
(***************************************************************************)
(* withIdempotency (src/src/idempotency.ts) around the one route that uses *)
(* it, POST /markets/:id/deploy (src/src/server.ts).  The claim of a key,  *)
(* the work and the recorded response are one transaction; but the work is *)
(* to enqueue a job through the queue's own connection, so it stays when   *)
(* the transaction is rolled back.  Another claim of a key that is being   *)
(* claimed waits for that transaction to end.                              *)
(*                                                                         *)
(* Nothing in the service calls reapIdempotencyKeys, so keys stay.  What   *)
(* the deploy job does is in Deploy; here it takes its row and ends.       *)
(***************************************************************************)
EXTENDS Integers, FiniteSets

CONSTANTS
  Market,
  Key,         \* what clients send; deps.producer and the route are the same for all
  Request,
  MaxRuns      \* bound on how often the job is enqueued for one key

KeysAssumption == MaxRuns \in Nat

VARIABLES
  status,      \* of each market: approved, open
  keys,        \* idempotency_keys: committed rows [key, hash, told]
  request,     \* per request: its step, key and market
  queue,       \* the markets that have a deploy job
  runs,        \* per key: how often its work was done
  lost,        \* per key: how many of those transactions did not commit
  answer       \* per request: its answer, and the market it speaks of

vars == <<status, keys, request, queue, runs, lost, answer>>

NoRequest == [step |-> "idle", key |-> "none", market |-> "none"]
NoAnswer == [status |-> 0, told |-> "none"]
Reused == [status |-> 409, told |-> "reuse"]
key(r) == request[r].key
rowOf(k) == {row \in keys : row.key = k}
goto(r, step) == request' = [request EXCEPT ![r].step = step]
reply(r, code, told) == answer' = [answer EXCEPT ![r] = [status |-> code, told |-> told]]

\* The hash of a request: what it asks, without what belongs to the attempt.
requestFingerprint(r) == <<request[r].market>>

findMarket(r) ==
  /\ request[r].step = "idle"
  /\ \E k \in Key, m \in Market :
       /\ request' = [request EXCEPT ![r] =
            [step |-> IF status[m] = "approved" THEN "claim" ELSE "answered",
             key |-> k, market |-> m]]
       /\ IF status[m] = "approved" THEN answer' = answer ELSE reply(r, 409, "none")
  /\ UNCHANGED <<status, keys, queue, runs, lost>>

claimed(k) == \E r \in Request : key(r) = k /\ request[r].step \in {"run", "respond"}

\* Wrong: the row of a key is its response, whatever was asked with it.
claim_anyBody(r) ==
  /\ request[r].step = "claim" /\ ~ claimed(key(r))
  /\ \/ /\ rowOf(key(r)) = {} /\ goto(r, "run") /\ answer' = answer
     \/ \E row \in rowOf(key(r)) : goto(r, "answered") /\ reply(r, 202, row.told)
  /\ UNCHANGED <<status, keys, queue, runs, lost>>

\* insert ... on conflict do nothing: the key is ours, or it has a response already.
claim(r) ==
  /\ request[r].step = "claim" /\ ~ claimed(key(r))
  /\ \/ /\ rowOf(key(r)) = {} /\ goto(r, "run") /\ answer' = answer
     \/ \E row \in rowOf(key(r)) :
          /\ goto(r, "answered")
          /\ IF row.hash = requestFingerprint(r) THEN reply(r, 202, row.told)
             ELSE reply(r, 409, "reuse")
  /\ UNCHANGED <<status, keys, queue, runs, lost>>

\* input.run: the job is enqueued (one row per market), or the queue fails.
run(r) ==
  /\ request[r].step = "run"
  /\ \/ /\ runs[key(r)] < MaxRuns
        /\ queue' = queue \cup {request[r].market}
        /\ runs' = [runs EXCEPT ![key(r)] = @ + 1]
        /\ goto(r, "respond") /\ answer' = answer
     \/ goto(r, "answered") /\ reply(r, 500, "none") /\ UNCHANGED <<queue, runs>>
  /\ UNCHANGED <<status, keys, lost>>

\* The response is recorded and the transaction commits; the answer may be lost.
respond(r) ==
  /\ request[r].step = "respond"
  /\ keys' = keys \cup {[key |-> key(r), hash |-> requestFingerprint(r),
                         told |-> request[r].market]}
  /\ goto(r, "answered")
  /\ reply(r, 202, request[r].market) \/ answer' = answer
  /\ UNCHANGED <<status, queue, runs, lost>>

\* The replica dies: the claim was never there, the job may be.
crash(r) ==
  /\ request[r].step \in {"claim", "run", "respond"}
  /\ goto(r, "answered")
  /\ lost' = IF request[r].step = "respond" THEN [lost EXCEPT ![key(r)] = @ + 1] ELSE lost
  /\ UNCHANGED <<status, keys, queue, runs, answer>>

\* The deploy job ends, and an operator opens the market.
deployed(m) ==
  /\ m \in queue
  /\ queue' = queue \ {m}
  /\ \E s \in {"approved", "open"} : status' = [status EXCEPT ![m] = s]
  /\ UNCHANGED <<keys, request, runs, lost, answer>>

Init ==
  /\ status = [m \in Market |-> "approved"]
  /\ keys = {} /\ queue = {}
  /\ request = [r \in Request |-> NoRequest]
  /\ runs = [k \in Key |-> 0] /\ lost = [k \in Key |-> 0]
  /\ answer = [r \in Request |-> NoAnswer]

Next ==
  \/ \E r \in Request : findMarket(r) \/ claim(r) \/ run(r) \/ respond(r) \/ crash(r)
  \/ \E m \in Market : deployed(m)

Spec == Init /\ [][Next]_vars

------------------------------------------------------------------------------

TypeOK ==
  /\ status \in [Market -> {"approved", "open"}] /\ queue \subseteq Market
  /\ \A row \in keys : row.key \in Key /\ row.told \in Market
  /\ runs \in [Key -> 0..MaxRuns] /\ lost \in [Key -> 0..MaxRuns]
  /\ \A r \in Request : answer[r].status \in {0, 202, 409, 500}

\* withIdempotency and the deploy route: the work of a key is done once, except that a
\* transaction which did not commit leaves it to be done again; a 202 speaks of the
\* caller's own market and of work that was done; and a retry, which asks the same
\* with the same key, is never told that its key is somebody else's.
OneEffectPerKey ==
  /\ \A k \in Key : runs[k] <= lost[k] + 1
  /\ \A r \in Request : answer[r].status = 202 =>
       answer[r].told = request[r].market /\ runs[key(r)] > lost[key(r)]
  /\ \A r \in Request : answer[r] = Reused =>
       \E s \in Request : key(s) = key(r) /\ request[s].market # request[r].market
==============================================================================
