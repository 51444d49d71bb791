--------------------------- MODULE MCClientBudget ---------------------------
(* ClientBudget on a small instance, with the period keys of real days.    *)
EXTENDS ClientBudget, TLC

Cal == INSTANCE PeriodKeys

CONSTANT FirstDay   \* The day since 1970-01-01 at which the clock starts.

(* The calendar counted day by day, as a definition of it.                 *)
Leap(y) == y % 4 = 0 /\ (y % 100 = 0 => y % 400 = 0)
MonthLength(y, m) ==
  IF m = 2 THEN IF Leap(y) THEN 29 ELSE 28 ELSE IF m \in {4, 6, 9, 11} THEN 30 ELSE 31
DayAfter(date) ==
  IF date.d < MonthLength(date.y, date.m) THEN [date EXCEPT !.d = @ + 1]
  ELSE IF date.m < 12 THEN [date EXCEPT !.d = 1, !.m = @ + 1]
  ELSE [y |-> date.y + 1, m |-> 1, d |-> 1]

LastDay == 49308   \* Bound: the last day of 2104, past 2000 and 2100.

(* ymd_from_days gives every day from 1970 to 2104 its date, and every     *)
(* period's key changes on the first day of the period and on no other,    *)
(* and grows: no period is mistaken for an earlier one.                    *)
ASSUME CalendarIsCivil ==
  /\ Cal!ymd_from_days(0) = [y |-> 1970, m |-> 1, d |-> 1]
  /\ \A n \in 0..LastDay - 1 :
       LET date == Cal!ymd_from_days(n + 1)
           begins == [total |-> FALSE, daily |-> TRUE,
                      weekly |-> (n + 1) % 7 = 0, monthly |-> date.d = 1]
       IN /\ date = DayAfter(Cal!ymd_from_days(n))
          /\ \A p \in Cal!BudgetPeriod :
               IF begins[p] THEN Cal!KeyOfDay(p, n + 1) > Cal!KeyOfDay(p, n)
               ELSE Cal!KeyOfDay(p, n + 1) = Cal!KeyOfDay(p, n)


MCPeriodKeyAt ==
  [p \in Cal!BudgetPeriod |-> [d \in 0..MaxDay |->
     Cal!period_key_at(p, (FirstDay + d) * Cal!SecondsPerDay)]]

Slots == Permutations(Requests)
=============================================================================
