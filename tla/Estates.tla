------------------------------- MODULE Estates -------------------------------
(***************************************************************************)
(* One process that serves two networks: the environment it refuses or     *)
(* starts with (src/src/env.ts), the databases its migrator brings up to   *)
(* date (src/src/migrator.ts), the planes it builds, with a database, a    *)
(* queue and a runner each (src/src/index.ts, jobs.ts), the attribution of *)
(* a request to a network (createServer and forRequest in server.ts), and  *)
(* the chain a market's contract ends up on (chains.ts, deploy.ts).        *)
(*                                                                         *)
(* A market is followed as far as its network matters: drafted, to be      *)
(* deployed, deployed or refused.  What a deploy does is in Deploy, what   *)
(* lies between a completion and the re-arming of its job in Outbox; both  *)
(* are one step here.  A variable of the environment that only has to be   *)
(* well-formed is "good" or not.  Probes, metrics and logs are left out.   *)
(***************************************************************************)
EXTENDS Integers, FiniteSets

CONSTANTS
  Network,          \* "mainnet" and "testnet"
  Environment,      \* the environments somebody may start the process with
  MarketId,
  SCHEMA_VERSION,
  MaxBoots

EstatesAssumption ==
  /\ Network = {"mainnet", "testnet"} /\ {SCHEMA_VERSION, MaxBoots} \subseteq Nat
  /\ \A e \in Environment :
       /\ {e.mainnetEnabled, e.testnetUrl, e.required, e.optional} \subseteq BOOLEAN
       /\ {e.minGasPrice, e.maxGasPrice} \subseteq Nat

Database == {"primary", "testnet"}
Absent == ""

VARIABLES
  env,      \* the environment this deployment has
  schema,   \* per database: the version it was migrated to
  phase,    \* of the process: down, asserted, serving, draining
  boots,
  markets,  \* per database: the rows of markets
  jobs,     \* per database: the rows of jobs
  claimed,  \* the jobs that a runner of this process works at, with their database
  contracts \* what was created: market, database of its row, network of the chain it is on

vars == <<env, schema, phase, boots, markets, jobs, claimed, contracts>>
stores == <<markets, jobs, contracts>>

------------------------------------------------------------------------------
(* The environment.                                                        *)

\* FORESIGHT_NETWORK has a default and is one of the two.
parseNetwork == IF env.network = Absent THEN "testnet" ELSE env.network

\* What is required is there and well-formed, and what is optional is well-formed
\* if it is there: "required" and "optional" say so of all the variables that
\* make no other difference.
wellFormed == env.required /\ env.optional

loadEnv ==
  /\ wellFormed
  /\ env.minGasPrice <= env.maxGasPrice
  /\ parseNetwork \in Network
  /\ parseNetwork = "mainnet" => env.mainnetEnabled

\* CF_NETWORK_SINGLE is not checked by anything.
ownNetwork == IF env.singleNetwork = Absent THEN "mainnet" ELSE env.singleNetwork

\* The second database is a plane unless the first is already that network's.
held == {"primary"} \cup IF env.testnetUrl /\ ownNetwork # "testnet" THEN {"testnet"} ELSE {}

networkOf(db) == IF db = "primary" THEN ownNetwork ELSE "testnet"

\* networkSql: the handle of a network, if this deployment holds one.
handles(n) == {db \in held : networkOf(db) = n}

------------------------------------------------------------------------------
(* Migrating and starting.                                                 *)

\* The migrator tries every database it was given and goes on after one that fails.
targets == {"primary"} \cup IF env.testnetUrl THEN {"testnet"} ELSE {}

migrate(failed) ==
  /\ loadEnv /\ phase = "down"
  /\ schema' = [db \in Database |-> IF db \in targets \ failed THEN SCHEMA_VERSION ELSE schema[db]]
  /\ UNCHANGED <<env, phase, boots, stores, claimed>>

assertSchema == \A db \in held : schema[db] >= SCHEMA_VERSION

\* A process whose environment or whose schema is refused exits.
boot ==
  /\ phase = "down" /\ boots < MaxBoots
  /\ loadEnv /\ assertSchema
  /\ phase' = "asserted" /\ boots' = boots + 1
  /\ UNCHANGED <<env, schema, stores, claimed>>

resolutionLeaseKey(n) == <<"oracle", n>>
Resolution(n) == [kind |-> "resolution.post", key |-> resolutionLeaseKey(n)]
Sweep == [kind |-> "deploy.sweep", key |-> <<"global">>]
Deploy(m) == [kind |-> "market.deploy", key |-> <<m>>]

recurringJobs(n) == {Resolution(n), Sweep}

\* seedRecurring in every plane, then the runners, the socket and /readyz.
serve ==
  /\ phase = "asserted"
  /\ phase' = "serving"
  /\ jobs' = [db \in Database |->
               IF db \in held THEN jobs[db] \cup recurringJobs(networkOf(db)) ELSE jobs[db]]
  /\ UNCHANGED <<env, schema, boots, markets, claimed, contracts>>

\* SIGTERM: no request and no claim any more; what is claimed ends, or the
\* twenty seconds do.
drain ==
  /\ phase = "serving"
  /\ phase' = "draining"
  /\ UNCHANGED <<env, schema, boots, stores, claimed>>

\* A crash at any time, or the end of a drain.  A claimed row stays and is
\* claimed again once its lease has lapsed.
exit ==
  /\ phase # "down"
  /\ phase' = "down" /\ claimed' = {}
  /\ UNCHANGED <<env, schema, boots, stores>>

------------------------------------------------------------------------------
(* Requests.  The header is a network, another word, or absent.            *)

\* A request without the header is the deployment's own; one with another word
\* in it is a 500.
known(header) == header \in Network \cup {Absent}
requestNetwork(header) == IF header = Absent THEN ownNetwork ELSE header

\* forRequest: the route's network is the request's.
scopedNetwork(header) == requestNetwork(header)

\* Every route but the operational ones: without a handle it is a 500, and
\* nothing was touched.
request(header, db) ==
  phase = "serving" /\ known(header) /\ db \in handles(requestNetwork(header))

\* POST /markets
createDraft(header, db, m) ==
  /\ request(header, db)
  /\ \A d \in Database : ~\E row \in markets[d] : row.id = m
  /\ markets' = [markets EXCEPT ![db] = @ \cup
                   {[id |-> m, network |-> scopedNetwork(header), state |-> "draft"]}]
  /\ UNCHANGED <<env, schema, phase, boots, jobs, claimed, contracts>>

moved(row, s) == [row EXCEPT !.state = s]
advance(db, row, s) == markets' = [markets EXCEPT ![db] = (@ \ {row}) \cup {moved(row, s)}]

\* POST /markets/:id/approve
approveMarket(header, db, row) ==
  /\ request(header, db) /\ row \in markets[db] /\ row.state = "draft"
  /\ advance(db, row, "pending")
  /\ UNCHANGED <<env, schema, phase, boots, jobs, claimed, contracts>>

\* Wrong: the boot-time queue, whichever network the request is of.
queueFor_own(header) == "primary"

\* planeFor: the queue of the same plane.
queueFor(header) == CHOOSE db \in handles(requestNetwork(header)) : TRUE

\* POST /markets/:id/deploy
deployMarket(header, db, row) ==
  /\ request(header, db) /\ row \in markets[db] /\ row.state = "pending"
  /\ jobs' = [jobs EXCEPT ![queueFor(header)] = @ \cup {Deploy(row.id)}]
  /\ UNCHANGED <<env, schema, phase, boots, markets, claimed, contracts>>

\* POST /markets/:id/resolve, as far as the queue goes.
resolve(header, db, row) ==
  /\ request(header, db) /\ row \in markets[db] /\ row.state = "deployed"
  /\ jobs' = [jobs EXCEPT ![queueFor(header)] = @ \cup {Resolution(scopedNetwork(header))}]
  /\ UNCHANGED <<env, schema, phase, boots, markets, claimed, contracts>>

------------------------------------------------------------------------------
(* The runners: one to a plane, over its own queue and handle.             *)

claim(db, job) ==
  /\ phase = "serving" /\ db \in held /\ job \in jobs[db]
  /\ claimed' = claimed \cup {[db |-> db, job |-> job]}
  /\ UNCHANGED <<env, schema, phase, boots, stores>>

\* The row goes, and comes back at once if it is one of the schedule.
complete(db, job) ==
  /\ [db |-> db, job |-> job] \in claimed
  /\ claimed' = claimed \ {[db |-> db, job |-> job]}

finish(db, job) ==
  IF job \in recurringJobs(networkOf(db)) THEN jobs[db] ELSE jobs[db] \ {job}

\* deploySweepHandler
deploySweep(db) ==
  /\ complete(db, Sweep)
  /\ jobs' = [jobs EXCEPT ![db] = finish(db, Sweep) \cup
                {Deploy(row.id) : row \in {r \in markets[db] : r.state = "pending"}}]
  /\ UNCHANGED <<env, schema, phase, boots, markets, contracts>>

\* resolutionPostHandler
resolutionPost(db) ==
  LET job == Resolution(networkOf(db)) IN
  /\ complete(db, job)
  /\ jobs' = [jobs EXCEPT ![db] = finish(db, job)]
  /\ UNCHANGED <<env, schema, phase, boots, markets, contracts>>

\* chainIdOf: no chain id is published for any other word.
hasChainId(n) == n \in Network

\* rpcRouter: one node for the chain, the same one for both planes; a node takes
\* a creation signed for its own chain id only.
taken(row) == hasChainId(row.network) /\ env.rpc = row.network

\* marketDeployHandler: the chain is that of the row.  A market that is not here, or
\* not to be deployed, is skipped; the job is run again if its row could not be removed.
marketDeploy(db, m) ==
  /\ complete(db, Deploy(m))
  /\ jobs' = [jobs EXCEPT ![db] = finish(db, Deploy(m))] \/ jobs' = jobs
  /\ LET mine == {row \in markets[db] : row.id = m /\ row.state = "pending"} IN
       \/ mine = {} /\ UNCHANGED <<markets, contracts>>
       \/ \E row \in mine :
            IF taken(row)
              THEN /\ advance(db, row, "deployed")
                   /\ contracts' = contracts \cup {[id |-> m, db |-> db, network |-> env.rpc]}
              ELSE /\ advance(db, row, IF env.rpc = Absent THEN "failed" ELSE "pending")
                   /\ UNCHANGED contracts
  /\ UNCHANGED <<env, schema, phase, boots>>

------------------------------------------------------------------------------

Init ==
  /\ env \in Environment
  /\ schema = [db \in Database |-> 0] /\ phase = "down" /\ boots = 0
  /\ markets = [db \in Database |-> {}] /\ jobs = [db \in Database |-> {}]
  /\ claimed = {} /\ contracts = {}

Header == Network \cup {"other", Absent}

Next ==
  \/ boot \/ serve \/ drain \/ exit
  \/ \E failed \in SUBSET Database : migrate(failed)
  \/ \E header \in Header, db \in Database :
       \/ \E m \in MarketId : createDraft(header, db, m)
       \/ \E row \in markets[db] :
            \/ approveMarket(header, db, row) \/ deployMarket(header, db, row)
            \/ resolve(header, db, row)
  \/ \E db \in Database :
       \/ deploySweep(db) \/ resolutionPost(db)
       \/ \E job \in jobs[db] : claim(db, job)
       \/ \E m \in MarketId : marketDeploy(db, m)

Spec == Init /\ [][Next]_vars

------------------------------------------------------------------------------
(* What must hold.                                                         *)

\* Rows and jobs are what the code writes, and only a process that is up works.
TypeOK ==
  /\ env \in Environment /\ schema \in [Database -> Nat] /\ boots \in 0 .. MaxBoots
  /\ phase \in {"down", "asserted", "serving", "draining"}
  /\ \A db \in Database : \A row \in markets[db] :
       row.id \in MarketId /\ row.state \in {"draft", "pending", "deployed", "failed"}
  /\ claimed # {} => phase \in {"serving", "draining"}
  /\ \A c \in claimed : c.job \in jobs[c.db]

\* index.ts, forRequest: whatever is written for one network stays in its
\* database, its queue and its chain - the rows, the deploy of each, the oracle's
\* key - and the process that writes has found the schema of that database.
EstatesStayApart ==
  \A db \in Database :
    /\ \A row \in markets[db] : row.network = networkOf(db)
    /\ \A job \in jobs[db] :
         \/ job \in recurringJobs(networkOf(db))
         \/ \E row \in markets[db] : job = Deploy(row.id)
    /\ \A c \in contracts : c.db = db => c.network = networkOf(db)
    /\ phase = "serving" /\ db \in held => schema[db] >= SCHEMA_VERSION

\* Env.mainnetEnabled, "mainnet is a deliberate act of configuration and the
\* default refuses": no contract is on the mainnet unless it was enabled.
MainnetIsDeliberate ==
  \A c \in contracts : c.network = "mainnet" => env.mainnetEnabled
==============================================================================
