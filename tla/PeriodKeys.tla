----------------------------- MODULE PeriodKeys -----------------------------
(***************************************************************************)
(* The calendar arithmetic behind budget periods (client_budget.rs): the   *)
(* key that changes exactly when a budget or free tier must reset.         *)
(* Rust's `/` on i64 truncates toward zero; every quotient below has a     *)
(* non-negative dividend except the one in `era`, which the code shifts so *)
(* that truncation gives the floor.                                        *)
(***************************************************************************)
EXTENDS Integers

BudgetPeriod == {"total", "daily", "weekly", "monthly"}

SecondsPerDay == 86400

(* Division of i64 as Rust does it.                                        *)
Truncated(n, d) == IF n >= 0 THEN n \div d ELSE -((-n) \div d)

(* A day count since 1970-01-01 as a civil date.                           *)
Era(z) == Truncated(IF z >= 0 THEN z ELSE z - 146096, 146097)

YearOfEra(doe) == (doe - (doe \div 1460) + (doe \div 36524) - (doe \div 146096)) \div 365

ymd_from_days(days) ==
  LET z == days + 719468
      doe == z - Era(z) * 146097
      yoe == YearOfEra(doe)
      doy == doe - (365 * yoe + (yoe \div 4) - (yoe \div 100))
      mp == (5 * doy + 2) \div 153
      m == IF mp < 10 THEN mp + 3 ELSE mp - 9
      y == yoe + Era(z) * 400
  IN [y |-> IF m <= 2 THEN y + 1 ELSE y,
      m |-> m,
      d |-> doy - ((153 * mp + 2) \div 5) + 1]

MonthKey(date) == date.y * 12 + date.m

KeyOfDay(period, days) ==
  CASE period = "total"   -> 0
    [] period = "daily"   -> days
    [] period = "weekly"  -> days \div 7
    [] period = "monthly" -> MonthKey(ymd_from_days(days))

period_key_at(period, now_unix) == KeyOfDay(period, now_unix \div SecondsPerDay)
=============================================================================
