------------------------------ MODULE MCService ------------------------------
(***************************************************************************)
(* A small instance of each part of Service.                               *)
(***************************************************************************)
EXTENDS Service, SequencesExt, TLC

(* route: two attempts, which may be one and its retry; decimals in base 2.*)
(* A second client's key is the first one's; rates make BTC dust or dear.  *)

PowersOfTwo == [d \in 0..MAX_DECIMALS |-> 2^d]
asset(decimals, on, token) == [decimals |-> decimals, enabled |-> on, token |-> token]
RegistryRows == "EMBER" :> asset(2, TRUE, FALSE) @@ "BTC" :> asset(1, TRUE, FALSE)
                @@ "USDT" :> asset(0, FALSE, TRUE) @@ "DOGE" :> asset(3, FALSE, FALSE)
ChainDecimals == "EMBER" :> 2 @@ "BTC" :> 1 @@ "DOGE" :> 3 @@ "SOL" :> 1 @@ "SHARD" :> 1
Purses == "u1" :> ("EMBER" :> 4 @@ "BTC" :> 2 @@ "USDT" :> 0)
          @@ "u2" :> ("EMBER" :> 4 @@ "BTC" :> 0 @@ "USDT" :> 0)

ask(route, kind, subject, m, code, n) ==
  [route |-> route, kind |-> kind, subject |-> subject, key |-> "k",
   market |-> m, asset |-> code, amount |-> n]
Resting == ask("intent", "service", "s", "m", "EMBER", 1)
SomeBodies ==
  {ask("stake", "user", "u1", "m", "BTC", 2), ask("stake", "user", "u1", "m", "EMBER", 3),
   ask("stake", "user", "u2", "m", "BTC", 1), ask("stake", "user", "u1", "m", "EMBER", 0),
   ask("stake", "service", "s", "m", "BTC", 1), ask("stake", "none", "u1", "d", "BTC", 1),
   Resting, ask("quote", "user", "u1", "m", "BTC", 1),
   ask("quote", "user", "u1", "d", "SHARD", 1), ask("quote", "user", "u1", "x", "BTC", 1),
   ask("quote", "user", "u1", "m", "SOL", 1), ask("quote", "user", "u1", "m", "USDT", 1),
   ask("quote", "user", "u1", "d", "BTC", 1), ask("stake", "user", "u1", "m", "BTC", -1)}

(* seeds: three approvals of two drafts, a ceiling of 3 a market and 5 a   *)
(* day, and policies on both sides of those.                               *)

policyOf(perMarket, perDay) == [perMarketWei |-> perMarket, perDayWei |-> perDay]

SomePolicies == {NoPolicy, policyOf(3, 4), policyOf(4, 9)}

(* ideas: a batch of one, of answers that may hold two; texts with white   *)
(* space, of a kind of source that is not allowed, and a close time between*)
(* two seconds.                                                            *)

text(words, spaces, category, kind, close) ==
  [words |-> words, spaces |-> spaces, category |-> category, kind |-> kind, close |-> close]

SomeTexts == {text("a", TRUE, "prices", "api", 3), text("b", FALSE, "events", "notice", 2),
              text("c", FALSE, "prices", "notice", 2)}
SomeCategories == "prices" :> {"api"} @@ "events" :> {"notice"}

(* estates: the environments are those of MCEstates.                       *)

Samples == INSTANCE MCEstates WITH Environment <- {}
SomeEnvironments == Samples!Environments

------------------------------------------------------------------------------

\* The requests and the environment of a part that is not followed make no difference.
MCInit ==
  /\ Init
  /\ part # "route" => body = [a \in Attempt |-> Resting]
  /\ part # "estates" => env = Samples!Usual

MCSpec == MCInit /\ [][Next]_vars

Symmetry == Permutations(Attempt) \cup Permutations(Idea)
==============================================================================
