------------------------------ MODULE BondInfo ------------------------------
(***************************************************************************)
(* A bond from what the user types to what a row shows: the conversions of *)
(* src/types.c, gb_doc_bond_new and gb_doc_bond_new_from_sn_idate of       *)
(* src/doc.c, and the flags and colours of gb_doc_bond_get_info.           *)
(*                                                                         *)
(* A text is what its parser tells apart: a serial number is a letter, a   *)
(* count of digits and what follows them; a date is two numbers; an amount *)
(* is the numbers between its thousands separators.                        *)
(***************************************************************************)
EXTENDS BondRules, Sequences

\* The months the tables have entries for: not all of the redemption list, the
\* tables that come with the program have a gap.  In such a month an entry says
\* NO PAY of the bonds of which gb_rules_determine_nopay does and no other, as
\* every entry of data/*.asc and debian/*.asc does.
CONSTANT Entries

ASSUME InfoAssumption == Entries \in SUBSET (FirstRdate .. LastRdate)

SerialNumber == [letter : {"Q", "L", "K", "C", "R", "D", "M", "V", "X", "?"},
                 digits : {0, 1, 10, 11}, \* at and beyond the limits of 1 and 10
                 suffix : {"", "E", "EE", "I", "?"}]

Failed(status) == [status |-> status]

---------------------------------------------------------------------------
(* src/types.c.                                                            *)

DenomOf  == [Q |-> 25, L |-> 50, K |-> 75, C |-> 100, R |-> 200,
             D |-> 500, M |-> 1000, V |-> 5000, X |-> 10000]
SeriesOf(suffix) == CASE suffix = ""   -> "S"
                      [] suffix = "E"  -> "E"
                      [] suffix = "EE" -> "EE"
                      [] suffix = "I"  -> "I"

\* gb_serial_number_parse.
SerialNumberParse(sn) ==
  IF sn.letter \notin DOMAIN DenomOf    THEN Failed("PARSE_SN_BAD_DENOM")
  ELSE IF sn.digits \notin 1 .. 10      THEN Failed("PARSE_SN_DIGITS")
  ELSE IF sn.suffix \notin {"", "E", "EE", "I"} THEN Failed("PARSE_SN_BAD_SERIES")
  ELSE [status |-> "OK", series |-> SeriesOf(sn.suffix), denom |-> DenomOf[sn.letter]]

\* gb_series_fmt: unlike in a serial number, Series S has a letter.
SeriesFmt(s) == [E |-> "E", S |-> "S", EE |-> "EE", I |-> "I"][s]

\* A parser for the suffix of a serial number, where nothing means S (mutant).
SeriesParseSuffix(text) ==
  IF text \in {"", "E", "EE", "I"} THEN [status |-> "OK", series |-> SeriesOf(text)]
  ELSE Failed("PARSE_SERIES_BAD_SERIES")

\* gb_series_parse.
SeriesParse(text) ==
  IF text = "" THEN Failed("PARSE_SERIES_EMPTY")
  ELSE IF text = "S" THEN [status |-> "OK", series |-> "S"]
  ELSE IF text \in {"E", "EE", "I"} THEN [status |-> "OK", series |-> SeriesOf(text)]
  ELSE Failed("PARSE_SERIES_BAD_SERIES")

\* gb_date_fmt, with GB_MONTH and GB_YEAR.
DateFmt(date) == [month |-> (date % 12) + 1, year |-> date \div 12]

\* gb_date_parse.
DateParse(text) ==
  IF text.month \notin 1 .. 12 THEN Failed("PARSE_DATE_MONTH")
  ELSE IF text.year < 1940     THEN Failed("PARSE_DATE_YEAR")
  ELSE [status |-> "OK", date |-> GB_DATE(text.month, text.year)]

\* gb_value_fmt of whole dollars, below a million: a comma before the last
\* three digits.
ValueFmt(value) ==
  IF value < 1000 THEN <<value>> ELSE <<value \div 1000, value % 1000>>

\* The denomination in an inventory file: "%.0f", without a separator.
XmlDenom(denom) == <<denom>>

\* g_strtod and sscanf's "%lf" alike: the number up to the first separator.
Strtod(text) == Head(text)

---------------------------------------------------------------------------
(* src/rules.c.                                                            *)

\* gb_rules_test_series_denom.
TestSeriesDenom(s, denom) ==
  CASE s = "E" -> denom <= 1000
    [] s = "S" -> denom <= 100
    [] s \in {"EE", "I"} -> denom >= 50

\* gb_rules_determine_issue, in cents.
DetermineIssue(s, denom) ==
  CASE s = "EE" -> 50 * denom
    [] s = "E"  -> 75 * denom
    [] s \in {"I", "S"} -> 100 * denom

\* The year of grace lost on the wrong side of maturity (mutant).
ExchangeableLate(s, i, r) == s \in {"E", "EE"} /\ r > Maturity(s, i) + 12

\* gb_rules_determine_exchangeability.
Exchangeable(s, i, r) ==
  s \in {"E", "EE"} /\ i + 6 <= r /\ r <= Maturity(s, i) + 12

\* gb_rules_determine_nopay.
Nopay(s, i, r) ==
  r - i < IF s \in {"I", "EE"} /\ i >= GB_DATE(2, 2003) THEN 12 ELSE 6

---------------------------------------------------------------------------
(* src/doc.c.                                                              *)

\* The checks gb_doc_bond_new and gb_doc_bond_new_from_sn_idate share.
Checked(s, date, denom) ==
  IF date.status # "OK" THEN date
  ELSE IF ~TestSeriesDenom(s, denom) THEN Failed("BAD_SERIES_DENOM")
  ELSE IF ~TestIssue(s, date.date)   THEN Failed("BAD_ISSUE_DATE")
  ELSE [status |-> "OK", series |-> s, denom |-> denom, idate |-> date.date,
        issue |-> DetermineIssue(s, denom), mdate |-> Maturity(s, date.date)]

BondNew(text, date, denom) ==
  LET s == SeriesParse(text)
  IN  IF s.status # "OK" THEN s ELSE Checked(s.series, DateParse(date), denom)

BondNewFromSnIdate(sn, date) ==
  LET parsed == SerialNumberParse(sn)
  IN  IF parsed.status # "OK" THEN parsed
      ELSE Checked(parsed.series, DateParse(date), parsed.denom)

\* gb_doc_bond_get_info.  The flag of a bond that does not pay is
\* gb_table_model_get_value's, which sets it where no entry is found as well;
\* before its issue a bond has no accrual to show.
Info(s, i, r) ==
  [nopay_flag        |-> Nopay(s, i, r) \/ r \notin Entries,
   matured_flag      |-> r >= Maturity(s, i),
   exchangeable_flag |-> Exchangeable(s, i, r),
   next_accrual      |-> IF i <= r THEN DateFmt(NextAccrual(s, i, r)) ELSE "   -   "]

\* The colour update_view (view.c) gives a row.
Color(info) ==
  CASE info.nopay_flag -> "nopay"
    [] ~info.nopay_flag /\ ~info.matured_flag -> "normal"
    [] ~info.nopay_flag /\ info.matured_flag /\ info.exchangeable_flag -> "matured_exch"
    [] ~info.nopay_flag /\ info.matured_flag /\ ~info.exchangeable_flag -> "matured_not_exch"

---------------------------------------------------------------------------
\* Whatever serial number and date the Add dialog accepts, the bond it makes is
\* made again, the same in every field, from the texts an inventory file has of
\* it; from the texts on the clipboard it is just when its denomination is below
\* a thousand dollars (types.c and doc-xml.c: three parsers and their formatters;
\* view.c, selection_received_cb).
EnteredReadsBack ==
  rdate = FirstRdate =>
    \A sn \in SerialNumber :
      LET b == BondNewFromSnIdate(sn, DateFmt(idate))
          Again(denom) == BondNew(SeriesFmt(b.series), DateFmt(b.idate), Strtod(denom))
      IN  b.status = "OK" => /\ Again(XmlDenom(b.denom)) = b
                             /\ Again(ValueFmt(b.denom)) = b <=> b.denom < 1000

\* Over the redemption dates the tables have entries for, a row goes through the
\* colours of the legend in their order, gaps between such dates left out
\* (view.c).  If it stops being normal from one month to the next it had announced
\* that month, its maturity, as its next accrual: the flags and the accruals are
\* computed by functions that share no code (rules.c).
Rank == [nopay |-> 0, normal |-> 1, matured_exch |-> 2, matured_not_exch |-> 3]

ColorsInOrder ==
  rdate \in Entries =>
    LET now   == Info(series, idate, rdate)
        color == Color(now)
    IN  \A r \in Entries :
          LET next == Color(Info(series, idate, r))
          IN  rdate < r =>
                /\ Rank[color] <= Rank[next]
                /\ r = rdate + 1 /\ color = "normal" /\ next # "normal" =>
                     now.next_accrual = DateFmt(r)
=============================================================================
