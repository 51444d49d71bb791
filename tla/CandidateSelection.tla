------------------------- MODULE CandidateSelection -------------------------
(***************************************************************************)
(* How a request's `model` becomes the chain the dispatch loop walks:      *)
(* resolve_target_model, resolve_chain, apply_preferences,                 *)
(* deprioritize_unhealthy, filter_by_required_parameters and               *)
(* apply_request_budget, in the order dispatch_uncached and                *)
(* dispatch_stream_uncached call them.  The request's fields are chosen    *)
(* where they are first read.                                              *)
(*                                                                         *)
(* Other requests finish meanwhile and move the EWMA tables, and a ranking *)
(* by such a table looks it up anew in every comparison of the sort, so    *)
(* those comparisons are steps.  The standard library sorts slices of up   *)
(* to twenty elements by insertion, which is what the steps do.  A ranking *)
(* by free tiers takes one snapshot of them; what other requests use of    *)
(* them, and the midnights that renew them, come before it.                *)
(***************************************************************************)
EXTENDS Integers, Sequences, SequencesExt, FreeTiers

CONSTANTS
  Candidates, Providers, ProviderOf,
  Kind,          (* Provider -> its adapter kind.                          *)
  Zdr,           (* Providers flagged zdr, and no_training.                *)
  NoTraining,
  Price,         (* Candidate -> its price, or Unset; both rates alike.    *)
  Quality,       (* Candidate -> its quality_score, or Unset.              *)
  Routes,        (* Alias -> chain of entries.                             *)
  Malformed,     (* An entry without a "/".                                *)
  AutoRoutes,    (* [auto_routing].                                        *)
  Prompts,       (* What "auto" requests hold.                             *)
  ProviderSets,  (* Values of provider.only and provider.ignore.           *)
  Bounds,        (* Values of max_price and max_request_price_usd.         *)
  InitialEwma,   (* EWMA tables the selection may start from.              *)
  Levels,        (* Values an average moves to.                            *)
  Threshold,     (* UNHEALTHY_UPTIME_THRESHOLD.                            *)
  MaxUpdates,    (* Bound on the averages other requests move meanwhile.   *)
  TokenCounts,   (* Tokens another request uses.                           *)
  MaxTokens,     (* Bound on the tokens they use in a period.              *)
  Unset

-----------------------------------------------------------------------------
(* `model: "auto"` (auto_routing.rs): a request is scored, and the score   *)
(* picks one of the three models of [auto_routing].                        *)

(* What is scored of a request: `tokens` is the estimate summed over its   *)
(* messages, and the flags say what else it holds or asks for.             *)
Flags == {"code", "tools", "reasoning", "json_schema"}
Prompt == [messages : Nat, tokens : Nat, flags : SUBSET Flags]

AutoRoutingConfig ==
  [models : [{"simple", "medium", "complex"} -> STRING],
   simple_max_score : Nat, medium_max_score : Nat]

Bonus == [code |-> 50, tools |-> 50, reasoning |-> 50, json_schema |-> 30]
PER_EXTRA_MESSAGE_BONUS == 10

estimate_complexity(p) ==
  LET bonus(f) == IF f \in p.flags THEN Bonus[f] ELSE 0
      extra == IF p.messages > 1 THEN p.messages - 1 ELSE 0
  IN p.tokens + extra * PER_EXTRA_MESSAGE_BONUS
       + bonus("code") + bonus("tools") + bonus("reasoning") + bonus("json_schema")

(* The threshold times 2.0, 0.5 or 1.0, cut to a whole number; a value of  *)
(* provider.auto_bias that is not known changes nothing.                   *)
Biased(threshold, bias) ==
  CASE bias = "cost" -> 2 * threshold
    [] bias = "quality" -> threshold \div 2
    [] OTHER -> threshold

Tier(config, p, bias) ==
  LET score == estimate_complexity(p)
  IN IF score <= Biased(config.simple_max_score, bias) THEN "simple"
     ELSE IF score <= Biased(config.medium_max_score, bias) THEN "medium"
     ELSE "complex"

resolve_tier(config, p, bias) == config.models[Tier(config, p, bias)]

-----------------------------------------------------------------------------
Entries == Candidates \cup {Malformed}
Ewma == [{"latency", "uptime"} -> [Candidates -> Nat \cup {Unset}]]
Modes == {"price", "quality", "latency", "uptime", "random", "free_tier_remaining"}
Kinds == {"openai", "anthropic", "gemini"}

ASSUME SelectionAssumption ==
  /\ ProviderOf \in [Candidates -> Providers] /\ Kind \in [Providers -> Kinds]
  /\ Zdr \subseteq Providers /\ NoTraining \subseteq Providers
  /\ Price \in [Candidates -> Nat \cup {Unset}] /\ Quality \in [Candidates -> Nat \cup {Unset}]
  /\ \A alias \in DOMAIN Routes : Routes[alias] \in Seq(Entries)
  /\ ProviderSets \subseteq SUBSET Providers /\ Bounds \subseteq Nat
  /\ InitialEwma \subseteq Ewma /\ Levels \subseteq Nat /\ Threshold \in Nat
  /\ AutoRoutes \in AutoRoutingConfig /\ Prompts \subseteq Prompt
  /\ \A tier \in DOMAIN AutoRoutes.models : AutoRoutes.models[tier] \in DOMAIN Routes
  /\ TokenCounts \subseteq Nat /\ MaxTokens \in Nat
  /\ MaxUpdates \in Nat /\ Unset \notin Nat \cup Modes

VARIABLES
  stage,      (* Where the selection is.                                   *)
  wanted,     (* The request's fields read so far.                         *)
  resolved,   (* History: the chain as resolved.                           *)
  chain,      (* The chain so far.                                         *)
  tail, hole, (* The insertion sort's two indices.                         *)
  ewma,       (* The router's latency and uptime averages.                 *)
  updates,    (* Averages moved so far.                                    *)
  unhealthy,  (* History: what the health partition judged unhealthy.      *)
  uses        (* History: the tokens used of a free tier in each period.   *)

selection_vars ==
  <<stage, wanted, resolved, chain, tail, hole, ewma, updates, unhealthy, uses, tier_vars>>

(* The keys of the periods a free tier sees.                               *)
PeriodKeysOf(c) == {KeyOfDay(FreeTierSettings[c].period, d) : d \in FirstDay..LastDay}

(* The parameters active_params() may find in a request, two of them.      *)
Params == {"response_format", "logprobs"}

Wanted == [prefs : BOOLEAN, auto : BOOLEAN,
           only : ProviderSets \cup {Unset}, ignore : ProviderSets \cup {Unset},
           zdr : BOOLEAN, data_collection : BOOLEAN, max_price : Bounds \cup {Unset},
           sort : Modes \cup {Unset}, require : (SUBSET Params) \cup {Unset},
           cap : Bounds \cup {Unset}, strict : BOOLEAN]

Stages == {"new", "resolved", "filtered", "snapshot", "sorting", "sorted", "ranked",
           "honoured", "done", "invalid_model", "no_eligible_provider",
           "request_budget_exceeded"}

SelectionTypeOK ==
  /\ stage \in Stages
  /\ wanted \in Wanted
  /\ resolved \in Seq(Candidates) /\ chain \in Seq(Candidates)
  /\ tail \in Nat /\ hole \in Nat
  /\ (stage = "sorting" => 1 < hole /\ hole <= tail /\ tail <= Len(chain))
  /\ ewma \in Ewma /\ updates \in 0..MaxUpdates
  /\ unhealthy \subseteq Candidates
  /\ DOMAIN uses = DOMAIN FreeTierSettings
  /\ \A c \in DOMAIN uses : uses[c] \in [PeriodKeysOf(c) -> Nat]
  /\ FreeTierType

SelectionInit ==
  /\ stage = "new"
  /\ wanted = [prefs |-> FALSE, auto |-> FALSE, only |-> Unset, ignore |-> Unset,
               zdr |-> FALSE, data_collection |-> FALSE, max_price |-> Unset,
               sort |-> Unset, require |-> Unset, cap |-> Unset, strict |-> FALSE]
  /\ resolved = <<>> /\ chain = <<>>
  /\ tail = 1 /\ hole = 1
  /\ ewma \in InitialEwma
  /\ updates = 0
  /\ unhealthy = {}
  /\ uses = [c \in DOMAIN FreeTierSettings |-> [k \in PeriodKeysOf(c) |-> 0]]
  /\ FreeTierInit

Untouched == UNCHANGED <<ewma, updates, uses, tier_vars>>

-----------------------------------------------------------------------------
(* What s has at the positions S, stably sorted by an ascending key.       *)
Arranged(s, S, key) ==
  LET Place(i) == Cardinality({j \in S : \/ key[s[j]] < key[s[i]]
                                         \/ key[s[j]] = key[s[i]] /\ j <= i})
  IN [k \in 1..Cardinality(S) |-> s[CHOOSE i \in S : Place(i) = k]]

SortedBy(s, key) == Arranged(s, DOMAIN s, key)
Kept(s, S) == Arranged(s, {i \in DOMAIN s : s[i] \in S}, [c \in Candidates |-> 0])

Unranked == 1000   (* Larger than every key: f64::MAX, or f64::MIN negated. *)
Ascending(v) == IF v = Unset THEN Unranked ELSE v
Descending(v) == IF v = Unset THEN Unranked ELSE -v

(* resolve_target_model and resolve_chain: `model: "auto"` picks a tier's  *)
(* alias; a non-empty `models` bypasses the routes.                        *)
ResolveTo(entries, auto, prefs) ==
  /\ stage = "new"
  /\ wanted' = [wanted EXCEPT !.auto = auto, !.prefs = prefs]
  /\ IF \E i \in DOMAIN entries : entries[i] = Malformed
     THEN stage' = "invalid_model" /\ UNCHANGED <<resolved, chain>>
     ELSE stage' = "resolved" /\ resolved' = entries /\ chain' = entries
  /\ UNCHANGED <<tail, hole, unhealthy>> /\ Untouched

Resolve ==
  \E prefs \in BOOLEAN :
    \/ \E model \in Candidates \cup {Malformed} : ResolveTo(<<model>>, FALSE, prefs)
    \/ \E model \in Entries, next \in Entries : ResolveTo(<<model, next>>, FALSE, prefs)
    \/ \E alias \in DOMAIN Routes : ResolveTo(Routes[alias], FALSE, prefs)
    \/ \E p \in Prompts, bias \in {"cost", "quality", Unset} :
         /\ bias # Unset => prefs
         /\ ResolveTo(Routes[resolve_tier(AutoRoutes, p, bias)], TRUE, prefs)

(* The filters of apply_preferences, in the code's order.                  *)
Allows(w, c) ==
  /\ w.only # Unset => ProviderOf[c] \in w.only
  /\ w.ignore # Unset => ProviderOf[c] \notin w.ignore
  /\ w.zdr => ProviderOf[c] \in Zdr
  /\ w.data_collection => ProviderOf[c] \in NoTraining
  /\ w.max_price # Unset => Price[c] # Unset /\ Price[c] <= w.max_price

Filter ==
  /\ stage = "resolved" /\ wanted.prefs
  /\ \E only, ignore \in ProviderSets \cup {Unset}, zdr, data_collection \in BOOLEAN,
        max_price \in Bounds \cup {Unset} :
       /\ ignore # Unset => only = Unset   (* one provider list at a time *)
       /\ wanted' = [wanted EXCEPT !.only = only, !.ignore = ignore, !.zdr = zdr,
                       !.data_collection = data_collection, !.max_price = max_price]
  /\ chain' = Kept(chain, {c \in Candidates : Allows(wanted', c)})
  /\ stage' = IF chain' = <<>> THEN "no_eligible_provider" ELSE "filtered"
  /\ UNCHANGED <<resolved, tail, hole, unhealthy>> /\ Untouched

(* auto_routed_price_preference: an auto-routed request without preferences *)
(* gets default ones, which filter nothing -- but reject an empty chain.   *)
FilterDefault ==
  /\ stage = "resolved" /\ ~wanted.prefs /\ wanted.auto
  /\ stage' = IF chain = <<>> THEN "no_eligible_provider" ELSE "filtered"
  /\ UNCHANGED <<wanted, resolved, chain, tail, hole, unhealthy>> /\ Untouched

Mode == IF wanted.auto /\ wanted.sort = Unset THEN "price" ELSE wanted.sort

(* A static ranking, over tables no request changes, or none.              *)
StaticSort(mode) ==
  CASE mode = "price" -> SortedBy(chain, [c \in Candidates |-> Ascending(Price[c])])
    [] mode = "quality" -> SortedBy(chain, [c \in Candidates |-> Descending(Quality[c])])
    [] OTHER -> chain

(* Any order of the chain: the seed is the clock's.                        *)
shuffle_chain(ch) ==
  { [i \in DOMAIN ch |-> ch[p[i]]] :
      p \in { p \in [DOMAIN ch -> DOMAIN ch] : \A i, j \in DOMAIN ch : p[i] = p[j] => i = j } }

Sort ==
  /\ stage = "filtered"
  /\ \E mode \in Modes \cup {Unset} :
       /\ mode # Unset => wanted.prefs
       /\ wanted' = [wanted EXCEPT !.sort = mode]
  /\ LET mode == Mode' IN
     /\ stage' = CASE mode \in {"latency", "uptime"} /\ Len(chain) > 1 -> "sorting"
                   [] mode = "free_tier_remaining" -> "snapshot"
                   [] OTHER -> "sorted"
     /\ chain' \in IF mode = "random" THEN shuffle_chain(chain) ELSE {StaticSort(mode)}
     /\ IF stage' = "sorting"
        THEN tail' = 2 /\ hole' = 2
        ELSE UNCHANGED <<tail, hole>>
  /\ UNCHANGED <<resolved, unhealthy>> /\ Untouched

(* Another request uses a free tier.  (One of a candidate without an entry *)
(* is not tracked.)                                                        *)
UseFreeTier(c, tokens) ==
  /\ stage = "snapshot" /\ uses[c][PeriodKey(c)] + tokens <= MaxTokens
  /\ RecordTokens(c, tokens)
  /\ uses' = [uses EXCEPT ![c][PeriodKey(c)] = @ + tokens]
  /\ UNCHANGED <<stage, wanted, resolved, chain, tail, hole, ewma, updates, unhealthy>>

RenewFreeTiers ==
  /\ stage = "snapshot" /\ Midnight
  /\ UNCHANGED <<stage, wanted, resolved, chain, tail, hole, ewma, updates, unhealthy, uses>>

(* The snapshot, and the ranking by it: a candidate without a free tier is *)
(* last, after those that used theirs up.                                  *)
TierRemaining(c) == IF c \in DOMAIN FreeTierSettings THEN TokensRemaining(c) ELSE Unset

SortByFreeTier ==
  /\ stage = "snapshot"
  /\ SnapshotRolls
  /\ chain' = SortedBy(chain, [c \in Candidates |-> Descending(TierRemaining(c))])
  /\ stage' = "sorted"
  /\ UNCHANGED <<wanted, resolved, tail, hole, ewma, updates, unhealthy, uses, day>>

(* One comparison: does chain[hole] rank before its predecessor?  An       *)
(* unobserved latency is f64::MAX, an unobserved uptime 0.0.               *)
Key(c) == LET average == ewma[Mode][c] IN
  IF Mode = "latency" THEN Ascending(average)
  ELSE IF average = Unset THEN 0 ELSE -average

Swapped == [chain EXCEPT ![hole] = chain[hole - 1], ![hole - 1] = chain[hole]]

Compare ==
  /\ stage = "sorting" /\ tail <= Len(chain)
  /\ LET moves == Key(chain[hole]) < Key(chain[hole - 1]) IN
     /\ chain' = IF moves THEN Swapped ELSE chain
     /\ IF moves /\ hole > 2 THEN hole' = hole - 1 /\ UNCHANGED tail
        ELSE tail' = tail + 1 /\ hole' = tail + 1
  /\ stage' = IF tail' > Len(chain) THEN "sorted" ELSE "sorting"
  /\ UNCHANGED <<wanted, resolved, unhealthy>> /\ Untouched

(* Another request finishes and moves an average.                          *)
MoveAverage(table, c, level) ==
  /\ stage \in {"sorting", "sorted"} /\ updates < MaxUpdates
  /\ ewma[table][c] # level
  /\ ewma' = [ewma EXCEPT ![table][c] = level]
  /\ updates' = updates + 1
  /\ UNCHANGED <<stage, wanted, resolved, chain, tail, hole, unhealthy, uses, tier_vars>>

(* deprioritize_unhealthy: a stable partition under one read lock; an      *)
(* unobserved candidate counts as healthy.                                 *)
Unhealthy == {c \in Candidates : ewma["uptime"][c] # Unset /\ ewma["uptime"][c] < Threshold}

DeprioritizedAway(s, bad) ==   \* slip: drops the unhealthy candidates
  Kept(s, Candidates \ bad)

Deprioritized(s, bad) == SortedBy(s, [c \in Candidates |-> IF c \in bad THEN 1 ELSE 0])

(* apply_preferences without preferences, after which nothing else applies. *)
DefaultOrder ==
  /\ stage = "resolved" /\ ~wanted.prefs /\ ~wanted.auto
  /\ chain' = Deprioritized(chain, Unhealthy) /\ unhealthy' = Unhealthy
  /\ stage' = "done"
  /\ UNCHANGED <<wanted, resolved, tail, hole>> /\ Untouched

Deprioritize ==
  /\ stage = "sorted"
  /\ IF Mode = "uptime" THEN UNCHANGED <<chain, unhealthy>>
     ELSE chain' = Deprioritized(chain, Unhealthy) /\ unhealthy' = Unhealthy
  /\ stage' = IF wanted.prefs THEN "ranked" ELSE "done"
  /\ UNCHANGED <<wanted, resolved, tail, hole>> /\ Untouched

(* supported_params(kind), of the parameters modelled here.                *)
Supported(kind) == IF kind = "openai" THEN Params ELSE {"response_format"}

Honours(c, active) == active \subseteq Supported(Kind[ProviderOf[c]])

RequireParameters ==
  /\ stage = "ranked"
  /\ \E active \in (SUBSET Params) \cup {Unset} :   (* Unset: not required *)
       /\ wanted' = [wanted EXCEPT !.require = active]
       /\ chain' = IF active = Unset THEN chain
                   ELSE Kept(chain, {c \in Candidates : Honours(c, active)})
  /\ stage' = IF wanted'.require # Unset /\ chain' = <<>> THEN "no_eligible_provider" ELSE "honoured"
  /\ UNCHANGED <<resolved, tail, hole, unhealthy>> /\ Untouched

(* apply_request_budget; max_tokens is part of the estimated price.  A cap *)
(* without max_tokens has no effect, like no cap.                          *)
Fits(c, cap) == Price[c] # Unset /\ Price[c] <= cap

NoneFits(cap) == \A i \in DOMAIN chain : ~Fits(chain[i], cap)

BudgetedKeepingOrder(cap, strict) ==   \* slip: the fitting ones are not put first
  IF strict /\ \E i \in DOMAIN chain : Fits(chain[i], cap)
  THEN Kept(chain, {c \in Candidates : Fits(c, cap)}) ELSE chain

Budgeted(cap, strict) ==
  LET fits == Kept(chain, {c \in Candidates : Fits(c, cap)})
  IN SortedBy(IF fits # <<>> /\ strict THEN fits ELSE chain,
              [c \in Candidates |-> Ascending(Price[c])])

RequestBudget ==
  /\ stage = "honoured"
  /\ \E cap \in Bounds \cup {Unset}, strict \in BOOLEAN :
       /\ strict => cap # Unset
       /\ wanted' = [wanted EXCEPT !.cap = cap, !.strict = strict]
       /\ IF cap = Unset \/ chain = <<>>
          THEN stage' = "done" /\ UNCHANGED chain
          ELSE IF strict /\ NoneFits(cap)
          THEN stage' = "request_budget_exceeded" /\ UNCHANGED chain
          ELSE stage' = "done" /\ chain' = Budgeted(cap, strict)
  /\ UNCHANGED <<resolved, tail, hole, unhealthy>> /\ Untouched

SelectionNext ==
  \/ Resolve \/ Filter \/ FilterDefault \/ Sort \/ Compare
  \/ \E table \in {"latency", "uptime"}, c \in Candidates, level \in Levels :
       MoveAverage(table, c, level)
  \/ \E c \in DOMAIN FreeTierSettings, tokens \in TokenCounts : UseFreeTier(c, tokens)
  \/ RenewFreeTiers \/ SortByFreeTier
  \/ DefaultOrder \/ Deprioritize \/ RequireParameters \/ RequestBudget

SelectionSpec == SelectionInit /\ [][SelectionNext]_selection_vars

-----------------------------------------------------------------------------
Ok == stage = "done"

(* What the request's constraints leave of a chain, stated as one set of   *)
(* conditions on a candidate.                                              *)
Eligible(c) ==
  /\ wanted.prefs => Allows(wanted, c)
  /\ wanted.require # Unset => Honours(c, wanted.require)
  /\ wanted.cap # Unset /\ wanted.strict => Fits(c, wanted.cap)

Times(s, c) == Cardinality({i \in DOMAIN s : s[i] = c})

(* Property: the loop walks exactly the eligible candidates of the resolved *)
(* chain, each as often as the chain names it: neither the filters nor the *)
(* rankings, racing updates included, lose or repeat one.  A selection     *)
(* fails only when no candidate is eligible, and succeeds with an empty    *)
(* chain only for an empty route.                                          *)
ChainIsEligible ==
  /\ Ok => \A c \in Candidates :
             Times(chain, c) = IF Eligible(c) THEN Times(resolved, c) ELSE 0
  /\ stage \in {"no_eligible_provider", "request_budget_exceeded"} =>
       \A i \in DOMAIN resolved :
         \/ ~Eligible(resolved[i])
         \/ stage = "request_budget_exceeded" /\ ~Fits(resolved[i], wanted.cap)
  /\ Ok /\ chain = <<>> => resolved = <<>>

(* What is left of c's free tier: only uses in the current period count.   *)
Left(c) == Max({0, FreeTierSettings[c].monthly_free_tokens - uses[c][PeriodKey(c)]})

Rank(c) ==
  CASE Mode = "price" -> Ascending(Price[c])
    [] Mode = "quality" -> Descending(Quality[c])
    [] Mode = "free_tier_remaining" ->
         Descending(IF c \in DOMAIN FreeTierSettings THEN Left(c) ELSE Unset)
    [] OTHER -> 0

(* Of the positions i and j of the resolved chain, the order asked for.    *)
InOrder(i, j) ==
  LET former == resolved[i]  latter == resolved[j]
      Cost(x) == IF wanted.cap = Unset THEN 0 ELSE Ascending(Price[x])
      Health(x) == IF x \in unhealthy THEN 1 ELSE 0
  IN \/ Cost(former) < Cost(latter)
     \/ Cost(former) = Cost(latter) /\ Health(former) < Health(latter)
     \/ /\ Cost(former) = Cost(latter) /\ Health(former) = Health(latter)
        /\ \/ Rank(former) < Rank(latter)
           \/ Rank(former) = Rank(latter) /\ i <= j

(* Property: the final chain is the eligible part of the resolved one,     *)
(* under a price cap cheapest first, then healthy candidates before        *)
(* unhealthy ones, then in the requested order, then as configured: no     *)
(* later ordering step scrambles what an earlier one established.  What is *)
(* left of a free tier never counts a use of a period that is over, and    *)
(* every use of the current one, midnights between them included.          *)
OrderIsAsRequested ==
  Ok /\ Mode \in {"price", "quality", "free_tier_remaining", Unset} =>
    \E at \in [DOMAIN chain -> DOMAIN resolved] :
      /\ {at[k] : k \in DOMAIN chain} = {i \in DOMAIN resolved : Eligible(resolved[i])}
      /\ \A k \in DOMAIN chain : chain[k] = resolved[at[k]]
      /\ \A k, l \in DOMAIN chain : k < l => at[k] # at[l] /\ InOrder(at[k], at[l])
=============================================================================
