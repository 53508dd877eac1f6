----------------------------- MODULE TableModel -----------------------------
(***************************************************************************)
(* The redemption tables in memory (src/table-model.c) and what they say   *)
(* of a bond.  A table file covers a few months; its lines, one for each   *)
(* series and year of issue, are taken as a whole.  No two files cover the *)
(* same month, so that the order they are read in makes no difference.     *)
(***************************************************************************)
EXTENDS Integers, FiniteSetsExt

CONSTANTS
  Table,    \* names of table files
  MonthsOf  \* the redemption dates each covers

\* A line of a table has four digits for the year of redemption and two for the
\* month: extract_int takes no more, and a published table has digits there.
LastMonth == 12 * 9999 + 98

ASSUME TableAssumption ==
  /\ MonthsOf \in [Table -> SUBSET (0 .. LastMonth)]
  /\ \A t \in Table : MonthsOf[t] # {}
  /\ \A s, t \in Table : s # t => MonthsOf[s] \cap MonthsOf[t] = {}

\* GB_DATE (0, 0), which no string of gb_date_fmt comes back from.
NoDate == -1

\* gb_table_model_update: the tables of both directories, or none at all when
\* ~/.gbonds cannot be opened.
Update(system, home, readable) ==
  IF readable THEN system \cup home ELSE {}

\* The dates a list of tables has entries for.
Months(table) == UNION {MonthsOf[t] : t \in table}

\* gb_table_model_get_rdate_min and _max.
RdateMin(table) == IF table = {} THEN NoDate ELSE Min(Months(table))
RdateMax(table) == IF table = {} THEN NoDate ELSE Max(Months(table))

\* A list that ends a month too late (mutant).
RdateListPastEnd(table, max_dates) ==
  IF table = {} THEN {}
  ELSE LET hi    == RdateMax(table) + 1
           limit == hi - max_dates + 1
           lo    == IF max_dates > 0 /\ limit > RdateMin(table)
                    THEN limit ELSE RdateMin(table)
       IN  lo .. hi

\* gb_table_model_get_rdate_list: every date from the first to the last, or
\* the last max_dates of them.
RdateList(table, max_dates) ==
  IF table = {} THEN {}
  ELSE LET hi    == RdateMax(table)
           limit == hi - max_dates + 1
           lo    == IF max_dates > 0 /\ limit > RdateMin(table)
                    THEN limit ELSE RdateMin(table)
       IN  lo .. hi

\* gb_table_model_get_best_rdate_today: the lower bound first, then the upper.
BestRdateToday(table, today) ==
  LET date == IF today < RdateMin(table) THEN RdateMin(table) ELSE today
  IN  IF date > RdateMax(table) THEN RdateMax(table) ELSE date

\* gb_table_model_get_value.  An entry of the table says NO PAY of the bonds of
\* which gb_rules_determine_nopay does; without an entry the rule decides, and
\* a bond that pays is worth nothing.
GetValue(table, nopay, rdate) ==
  CASE nopay                              -> [value |-> "issue price", nopay_flag |-> TRUE]
    [] ~nopay /\ rdate \in Months(table)  -> [value |-> "table", nopay_flag |-> FALSE]
    [] ~nopay /\ rdate \notin Months(table) -> [value |-> "nothing", nopay_flag |-> TRUE]
=============================================================================
