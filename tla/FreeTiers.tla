------------------------------ MODULE FreeTiers ------------------------------
(***************************************************************************)
(* The operator's free token budgets (free_tiers.rs): what this process    *)
(* used of each in its current period.  The mutex is taken first and the   *)
(* clock read under it, so a record and a snapshot are one step each.      *)
(***************************************************************************)
EXTENDS PeriodKeys

CONSTANTS
  FreeTierSettings,   (* Candidate -> [monthly_free_tokens, period], for   *)
                      (* those with a [[free_tiers]] entry.                *)
  FirstDay, LastDay   (* The clock, in days since 1970-01-01.              *)

ASSUME FreeTierAssumption ==
  /\ \A c \in DOMAIN FreeTierSettings :
       FreeTierSettings[c] \in [monthly_free_tokens : Nat, period : BudgetPeriod]
  /\ FirstDay \in Nat /\ LastDay \in Nat /\ FirstDay <= LastDay

VARIABLES
  day,               (* The clock.                                         *)
  free_tier_usage    (* Candidate -> its TokenState.                       *)

tier_vars == <<day, free_tier_usage>>

(* An absent entry is one of period key 0 without tokens.                  *)
TokenState == [period_key : Int, tokens_used : Nat]

FreeTierType ==
  /\ day \in FirstDay..LastDay
  /\ free_tier_usage \in [DOMAIN FreeTierSettings -> TokenState]

FreeTierInit ==
  /\ day = FirstDay
  /\ free_tier_usage = [c \in DOMAIN FreeTierSettings |-> [period_key |-> 0, tokens_used |-> 0]]

PeriodKey(c) == KeyOfDay(FreeTierSettings[c].period, day)

RolledState(c) ==
  IF free_tier_usage[c].period_key = PeriodKey(c) THEN free_tier_usage[c]
  ELSE [period_key |-> PeriodKey(c), tokens_used |-> 0]

RecordTokens(c, tokens) ==
  /\ free_tier_usage' = [free_tier_usage EXCEPT
                           ![c] = [RolledState(c) EXCEPT !.tokens_used = @ + tokens]]
  /\ UNCHANGED day

(* Midnight (UTC) passes.                                                  *)
Midnight ==
  /\ day < LastDay /\ day' = day + 1
  /\ UNCHANGED free_tier_usage

(* tokens_remaining of a snapshot, saturating at 0.                        *)
TokensRemaining(c) ==
  LET free == FreeTierSettings[c].monthly_free_tokens
      used == RolledState(c).tokens_used
  IN IF used > free THEN 0 ELSE free - used

SnapshotRolls == free_tier_usage' = [c \in DOMAIN FreeTierSettings |-> RolledState(c)]
=============================================================================
