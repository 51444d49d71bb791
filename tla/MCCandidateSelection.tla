----------------------- MODULE MCCandidateSelection -------------------------
(* Three candidates at two providers, one without a price, and an empty    *)
(* route; the averages start in one of two states.                         *)
EXTENDS CandidateSelection, TLC
CONSTANTS a, b, c, A, B

MCProviderOf == a :> A @@ b :> B @@ c :> B
MCKind == A :> "openai" @@ B :> "anthropic"
MCPrice == a :> 2 @@ b :> 1 @@ c :> Unset
MCQuality == a :> 1 @@ b :> 1 @@ c :> 2
MCRoutes == [all |-> <<a, b, c>>, two |-> <<b, a>>, empty |-> <<>>]
MCAutoRoutes == [models |-> [simple |-> "all", medium |-> "empty", complex |-> "two"],
                 simple_max_score |-> 40, medium_max_score |-> 90]
MCPrompts == {[messages |-> 1, tokens |-> 30, flags |-> {}],
              [messages |-> 3, tokens |-> 5, flags |-> {"tools"}]}
(* The clock passes the midnight after 31 January 1970, within a week.     *)
MCFreeTiers == a :> [monthly_free_tokens |-> 2, period |-> "weekly"]
            @@ b :> [monthly_free_tokens |-> 1, period |-> "monthly"]
MCEwma == { [latency |-> a :> 1 @@ b :> Unset @@ c :> 2, uptime |-> u] :
              u \in {a :> 2 @@ b :> 0 @@ c :> Unset, a :> 0 @@ b :> 2 @@ c :> 1} }

(* A request that holds or asks for more never gets a simpler model, and   *)
(* of two biases the one towards cost never the more complex one.          *)
Scale == [simple |-> 1, medium |-> 2, complex |-> 3]
TiersAreMonotone ==
  LET prompts == [messages : 0..3, tokens : {0, 10, 39, 40, 41, 90, 200}, flags : SUBSET Flags]
      TierOf(p, bias) == Scale[Tier(MCAutoRoutes, p, bias)]
  IN \A p \in prompts, bias \in {"cost", "balanced", "quality"} :
       /\ \A q \in prompts :
            p.messages <= q.messages /\ p.tokens <= q.tokens /\ p.flags \subseteq q.flags
              => TierOf(p, bias) <= TierOf(q, bias)
       /\ TierOf(p, "cost") <= TierOf(p, bias) /\ TierOf(p, bias) <= TierOf(p, "quality")

ASSUME AutoAssumption == TiersAreMonotone
=============================================================================
