----------------------------- MODULE BondRules -----------------------------
(***************************************************************************)
(* The rules of src/rules.c: which bonds exist, when they mature, when     *)
(* their value last rose and when it rises next.  Dates are months since   *)
(* year 0, as in gbDate.                                                   *)
(*                                                                         *)
(* The state is what an open inventory shows of one bond while the user    *)
(* moves the redemption date, month by month, through the tables.          *)
(***************************************************************************)
EXTENDS Integers

CONSTANTS
  FirstRdate, LastRdate, \* the months the redemption tables cover
  LastIdate              \* the latest issue date entered (bound)

GB_DATE(month, year) == 12 * year + month - 1

\* The oldest table that comes with the program is of May 1992.
ASSUME RulesAssumption ==
  /\ FirstRdate \in Nat /\ FirstRdate >= GB_DATE(5, 1992)
  /\ LastRdate \in Nat
  /\ LastIdate \in Nat

VARIABLES series, idate, rdate

vars == <<series, idate, rdate>>

Series == {"E", "S", "EE", "I"}

\* gb_rules_test_issue.
TestIssue(s, i) ==
  CASE s = "EE" -> i >= GB_DATE(1, 1980)
    [] s = "S"  -> GB_DATE(5, 1967) <= i /\ i <= GB_DATE(10, 1970)
    [] s = "I"  -> i >= GB_DATE(9, 1998)
    [] s = "E"  -> GB_DATE(5, 1941) <= i /\ i <= GB_DATE(6, 1980)

\* gb_rules_determine_maturity.
Maturity(s, i) ==
  i + 12 * (IF s = "E" /\ i <= GB_DATE(11, 1965) THEN 40 ELSE 30)

\* Where a bond earns by the month: an EE bond of May 1997 or later for good,
\* one of March 1993 to April 1995 for its first five years.
Monthly(s, i, total_months) ==
  s = "EE" /\ \/ i >= GB_DATE(5, 1997)
              \/ /\ GB_DATE(3, 1993) <= i /\ i <= GB_DATE(4, 1995)
                 /\ total_months < 60

\* Where in its half year an E bond earns.
Offset(s, i) ==
  IF s # "E" THEN 0
  ELSE IF GB_DATE(5, 1952) <= i /\ i <= GB_DATE(1, 1957)  THEN 2
  ELSE IF GB_DATE(2, 1957) <= i /\ i <= GB_DATE(5, 1959)  THEN 5
  ELSE IF GB_DATE(6, 1959) <= i /\ i <= GB_DATE(11, 1965) THEN 3
  ELSE IF GB_DATE(6, 1969) <= i /\ i <= GB_DATE(11, 1973) THEN 4
  ELSE 0

\* An offset taken off and not put back (mutant).
AccruedShifted(s, i, total_months) ==
  IF s = "I" \/ Monthly(s, i, total_months) THEN total_months
  ELSE ((total_months + Offset(s, i)) \div 6) * 6

\* The division of gb_rules_get_last_accrual.  C rounds towards zero, \div
\* down: the same here, since no E bond is redeemed in its first months.
AccruedMonths(s, i, total_months) ==
  IF s = "I" \/ Monthly(s, i, total_months) THEN total_months
  ELSE ((total_months - Offset(s, i)) \div 6) * 6 + Offset(s, i)

\* gb_rules_get_last_accrual, 0 before the issue date.
LastAccrual(s, i, r) ==
  IF r < i THEN 0
  ELSE IF r >= Maturity(s, i) THEN Maturity(s, i)
  ELSE i + AccruedMonths(s, i, r - i)

\* The step taken where the bond ends up, not where it is (mutant).
AccrualStepLater(s, i, total_months) ==
  IF Monthly(s, i, total_months + 1) THEN 1 ELSE 6

\* The step of gb_rules_get_next_accrual.
AccrualStep(s, i, total_months) ==
  IF Monthly(s, i, total_months) THEN 1 ELSE 6

\* gb_rules_get_next_accrual.
NextAccrual(s, i, r) ==
  IF r < i THEN 0
  ELSE LET a2 == LastAccrual(s, i, r) + AccrualStep(s, i, r - i)
       IN  IF a2 >= Maturity(s, i) THEN Maturity(s, i) ELSE a2

---------------------------------------------------------------------------
Init ==
  /\ series \in Series
  /\ idate \in 0 .. LastIdate
  /\ TestIssue(series, idate)
  /\ rdate = FirstRdate

\* The user moves the redemption date on by a month.
NextMonth ==
  /\ rdate < LastRdate
  /\ rdate' = rdate + 1
  /\ UNCHANGED <<series, idate>>

Next == NextMonth

Spec == Init /\ [][Next]_vars

---------------------------------------------------------------------------
TypeOK ==
  /\ series \in Series
  /\ idate \in 0 .. LastIdate
  /\ TestIssue(series, idate)
  /\ rdate \in Nat /\ rdate >= FirstRdate

a1date == LastAccrual(series, idate, rdate)
a2date == NextAccrual(series, idate, rdate)
mdate  == Maturity(series, idate)

\* From its issue on, a bond's last accrual is not after the redemption date,
\* nor before its issue; its next accrual is after it, but at maturity, where
\* both are the maturity date.
AccrualsBracket ==
  rdate >= idate =>
    /\ idate <= a1date /\ a1date <= rdate
    /\ IF rdate < mdate THEN rdate < a2date /\ a2date <= mdate
       ELSE a1date = mdate /\ a2date = mdate

\* Month after month, what was the next accrual becomes the last one, and
\* nothing else does: for every series but I, whose step is taken as 6.
NextAccrualKept ==
  [][series # "I" /\ rdate >= idate /\ a1date' # a1date => a1date' = a2date]_vars

\* "... the next date that the bond will increase in value": the same of every
\* series.
NextAccrualComes ==
  [][rdate >= idate /\ a1date' # a1date => a1date' = a2date]_vars
=============================================================================
