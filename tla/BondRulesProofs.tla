-------------------------- MODULE BondRulesProofs --------------------------
(* The accrual dates of BondRules, for every bond and every month. *)
EXTENDS BondInfo, TLAPS

\* Division by six, as the accrual rules use it.
LEMMA BySix ==
  ASSUME NEW n \in Nat
  PROVE  /\ n \div 6 \in Nat
         /\ (n \div 6) * 6 <= n
         /\ n < (n \div 6) * 6 + 6
  OBVIOUS

\* A month more adds nothing to the half years gone by, or six months.
LEMMA NextBySix ==
  ASSUME NEW n \in Nat
  PROVE  ((n + 1) \div 6) * 6 \in {(n \div 6) * 6, (n \div 6) * 6 + 6}
  OBVIOUS

\* Only an E bond has an offset, of less than six months.
LEMMA OffsetSmall ==
  ASSUME NEW s \in Series, NEW i \in Int
  PROVE  /\ Offset(s, i) \in 0 .. 5
         /\ s # "E" => Offset(s, i) = 0
  BY DEF Offset, Series, GB_DATE

\* How far a bond has earned after so many months: to within a step.
LEMMA AccruedWithinStep ==
  ASSUME NEW s \in Series, NEW i \in Int, NEW n \in Nat, n >= Offset(s, i)
  PROVE  /\ AccruedMonths(s, i, n) \in Nat
         /\ AccruedMonths(s, i, n) <= n
         /\ n < AccruedMonths(s, i, n) + AccrualStep(s, i, n)
  <1> DEFINE m == n - Offset(s, i)
  <1>1. /\ Offset(s, i) \in 0 .. 5
        /\ m \in Nat
        /\ n = m + Offset(s, i)
    BY OffsetSmall
  <1>2. /\ m \div 6 \in Nat /\ (m \div 6) * 6 <= m /\ m < (m \div 6) * 6 + 6
    BY <1>1, BySix
  <1>3. CASE Monthly(s, i, n)
    BY <1>3 DEF AccruedMonths, AccrualStep
  <1>4. CASE s = "I"
    BY <1>4 DEF AccruedMonths, AccrualStep
  <1>5. CASE ~Monthly(s, i, n) /\ s # "I"
    <2>1. /\ AccruedMonths(s, i, n) = (m \div 6) * 6 + Offset(s, i)
          /\ AccrualStep(s, i, n) = 6
      BY <1>5 DEF AccruedMonths, AccrualStep
    <2> HIDE DEF m
    <2> QED
      BY <2>1, <1>1, <1>2
  <1> QED
    BY <1>3, <1>4, <1>5

\* A month later a bond has earned as far as before, or a step further, but
\* for series I, which earns by the month and takes the step as six.
LEMMA AccruedByStep ==
  ASSUME NEW s \in Series, s # "I",
         NEW i \in Int, NEW n \in Nat, n >= Offset(s, i)
  PROVE  AccruedMonths(s, i, n + 1) \in
           {AccruedMonths(s, i, n), AccruedMonths(s, i, n) + AccrualStep(s, i, n)}
  <1> DEFINE m == n - Offset(s, i)
  <1>1. /\ Offset(s, i) \in 0 .. 5
        /\ m \in Nat
        /\ n + 1 - Offset(s, i) = m + 1
    BY OffsetSmall
  <1>2. ((m + 1) \div 6) * 6 \in {(m \div 6) * 6, (m \div 6) * 6 + 6}
    BY <1>1, NextBySix
  <1>3. CASE Monthly(s, i, n) /\ Monthly(s, i, n + 1)
    BY <1>3 DEF AccruedMonths, AccrualStep
  <1>4. CASE Monthly(s, i, n) /\ ~Monthly(s, i, n + 1)
    <2>1. s = "EE" /\ n = 59
      BY <1>4 DEF Monthly
    <2>2. Offset(s, i) = 0
      BY <2>1, OffsetSmall
    <2>3. AccruedMonths(s, i, n) = 59 /\ AccrualStep(s, i, n) = 1
      BY <1>4, <2>1 DEF AccruedMonths, AccrualStep
    <2>4. AccruedMonths(s, i, n + 1) = 60
      BY <1>4, <2>1, <2>2 DEF AccruedMonths
    <2> QED
      BY <2>3, <2>4
  <1>5. CASE ~Monthly(s, i, n)
    <2>1. ~Monthly(s, i, n + 1)
      BY <1>5 DEF Monthly
    <2>2. /\ AccruedMonths(s, i, n) = (m \div 6) * 6 + Offset(s, i)
          /\ AccrualStep(s, i, n) = 6
      BY <1>5 DEF AccruedMonths, AccrualStep
    <2>3. AccruedMonths(s, i, n + 1) = ((m + 1) \div 6) * 6 + Offset(s, i)
      BY <2>1, <1>1 DEF AccruedMonths
    <2>4. (m \div 6) * 6 \in Int /\ ((m + 1) \div 6) * 6 \in Int
      BY <1>1, BySix
    <2> HIDE DEF m
    <2> QED
      BY <2>2, <2>3, <2>4, <1>1, <1>2
  <1> QED
    BY <1>3, <1>4, <1>5

\* In the months of the tables every bond is past its offset and matures
\* whole years after its issue.
LEMMA InTables ==
  ASSUME TypeOK, rdate >= idate
  PROVE  /\ idate \in Nat /\ rdate \in Nat
         /\ rdate - idate \in Nat
         /\ rdate - idate >= Offset(series, idate)
         /\ mdate \in Nat /\ mdate > idate
  <1>1. /\ series \in Series /\ idate \in Nat /\ rdate \in Nat
        /\ rdate >= GB_DATE(5, 1992)
    BY RulesAssumption DEF TypeOK, RulesAssumption, GB_DATE
  <1>2. rdate - idate >= Offset(series, idate)
    <2>1. CASE series = "E"
      <3>1. idate <= GB_DATE(6, 1980)
        BY <2>1 DEF TypeOK, TestIssue
      <3> QED
        BY <3>1, <1>1, OffsetSmall DEF GB_DATE
    <2>2. CASE series # "E"
      BY <2>2, <1>1, OffsetSmall
    <2> QED
      BY <2>1, <2>2
  <1>3. mdate \in Nat /\ mdate > idate
    BY <1>1 DEF mdate, Maturity
  <1> QED
    BY <1>1, <1>2, <1>3

LEMMA TypeBracket ==
  ASSUME TypeOK
  PROVE  AccrualsBracket
  <1> SUFFICES ASSUME rdate >= idate
               PROVE  /\ idate <= a1date /\ a1date <= rdate
                      /\ IF rdate < mdate THEN rdate < a2date /\ a2date <= mdate
                         ELSE a1date = mdate /\ a2date = mdate
    BY DEF AccrualsBracket
  <1> DEFINE n == rdate - idate
             a == AccruedMonths(series, idate, n)
             step == AccrualStep(series, idate, n)
  <1>1. /\ idate \in Nat /\ rdate \in Nat /\ n \in Nat
        /\ mdate \in Nat /\ mdate > idate
        /\ series \in Series
    BY InTables DEF TypeOK
  <1>2. a \in Nat /\ a <= n /\ n < a + step
    BY <1>1, InTables, AccruedWithinStep
  <1>3. step \in {1, 6}
    BY DEF AccrualStep
  <1>4. a1date = IF rdate >= mdate THEN mdate ELSE idate + a
    BY <1>1 DEF a1date, LastAccrual, mdate
  <1>5. a2date = IF a1date + step >= mdate THEN mdate ELSE a1date + step
    BY <1>1 DEF a2date, NextAccrual, a1date, mdate
  <1>6. n = rdate - idate
    OBVIOUS
  <1> HIDE DEF n, a, step
  <1> QED
    BY <1>1, <1>2, <1>3, <1>4, <1>5, <1>6

\* A bond's series and issue date stay as they were accepted, and
\* the redemption date does not go back before the first table.
LEMMA RulesTypeCorrect == Spec => []TypeOK
  <1>1. Init => TypeOK
    BY RulesAssumption DEF Init, TypeOK, RulesAssumption
  <1>2. TypeOK /\ [Next]_vars => TypeOK'
    BY RulesAssumption DEF TypeOK, Next, NextMonth, vars, RulesAssumption
  <1> QED
    BY <1>1, <1>2, PTL DEF Spec

\* For every bond and every month from its issue on, the last accrual of
\* gb_rules_get_last_accrual is not in the future and the next accrual of
\* gb_rules_get_next_accrual is, until both are the maturity date.
THEOREM AlwaysBracket == Spec => []AccrualsBracket
  BY RulesTypeCorrect, TypeBracket, PTL

\* For every bond but one of series I, what gb_rules_get_next_accrual announces
\* is what gb_rules_get_last_accrual gives when it changes.
THEOREM NextAccrualAlwaysKept == Spec => NextAccrualKept
  <1> DEFINE Kept == series # "I" /\ rdate >= idate /\ a1date' # a1date => a1date' = a2date
  <1>1. TypeOK /\ TypeOK' /\ [Next]_vars => [Kept]_vars
    <2> SUFFICES ASSUME TypeOK, TypeOK', NextMonth,
                        series # "I", rdate >= idate, a1date' # a1date
                 PROVE  a1date' = a2date
      BY DEF Next
    <2> DEFINE n == rdate - idate
               a == AccruedMonths(series, idate, n)
               b == AccruedMonths(series, idate, n + 1)
               step == AccrualStep(series, idate, n)
    <2>1. /\ idate \in Nat /\ rdate \in Nat /\ n \in Nat
          /\ mdate \in Nat
          /\ series \in Series
          /\ n >= Offset(series, idate)
      BY InTables DEF TypeOK
    <2>2. /\ rdate' = rdate + 1 /\ idate' = idate /\ series' = series
          /\ mdate' = mdate
          /\ rdate' - idate' = n + 1
      BY <2>1 DEF NextMonth, mdate
    <2>3. a \in Nat /\ a <= n /\ n < a + step
      BY <2>1, AccruedWithinStep
    <2>4. b \in {a, a + step}
      BY <2>1, AccruedByStep
    <2>5. step \in {1, 6}
      BY DEF AccrualStep
    <2>6. a1date = IF rdate >= mdate THEN mdate ELSE idate + a
      BY <2>1 DEF a1date, LastAccrual, mdate
    <2>7. a2date = IF a1date + step >= mdate THEN mdate ELSE a1date + step
      BY <2>1 DEF a2date, NextAccrual, a1date, mdate
    <2>8. a1date' = IF rdate + 1 >= mdate THEN mdate ELSE idate + b
      BY <2>1, <2>2 DEF a1date, LastAccrual, mdate
    <2>9. n = rdate - idate
      OBVIOUS
    <2>10. b <= n + 1
      <3>1. n + 1 \in Nat /\ n + 1 >= Offset(series, idate)
        BY <2>1, OffsetSmall
      <3> HIDE DEF n
      <3> QED
        BY <2>1, <3>1, AccruedWithinStep
    <2> HIDE DEF n, a, b, step
    <2> QED
      BY <2>1, <2>3, <2>4, <2>5, <2>6, <2>7, <2>8, <2>9, <2>10
  <1>2. TypeOK /\ TypeOK' /\ [Next]_vars =>
          [series # "I" /\ rdate >= idate /\ a1date' # a1date => a1date' = a2date]_vars
    BY <1>1
  <1> QED
    BY <1>2, RulesTypeCorrect, PTL DEF Spec, NextAccrualKept

---------------------------------------------------------------------------
(* The conversions and the flags of BondInfo.                              *)

LEMMA MonthAndYear ==
  ASSUME NEW d \in Nat
  PROVE  12 * (d \div 12) + (d % 12) = d
  OBVIOUS

\* gb_date_parse takes back what gb_date_fmt wrote, from 1940 on.
LEMMA DateReadsBack ==
  ASSUME NEW d \in Nat, DateParse(DateFmt(d)).status = "OK"
  PROVE  DateParse(DateFmt(d)).date = d
  <1>1. DateFmt(d).month = (d % 12) + 1 /\ DateFmt(d).year = d \div 12
    BY DEF DateFmt
  <1>2. DateParse(DateFmt(d)).date = GB_DATE(DateFmt(d).month, DateFmt(d).year)
    BY DEF DateParse, Failed
  <1> HIDE DEF DateFmt
  <1>3. GB_DATE((d % 12) + 1, d \div 12) = d
    BY MonthAndYear DEF GB_DATE
  <1> QED BY <1>1, <1>2, <1>3

\* gb_series_parse takes back what gb_series_fmt wrote, S included.
LEMMA SeriesReadsBack ==
  ASSUME NEW s \in Series
  PROVE  SeriesParse(SeriesFmt(s)) = [status |-> "OK", series |-> s]
  <1>1. CASE s = "E"
    BY <1>1 DEF SeriesFmt, SeriesParse, SeriesOf
  <1>2. CASE s = "S"
    BY <1>2 DEF SeriesFmt, SeriesParse, SeriesOf
  <1>3. CASE s = "EE"
    BY <1>3 DEF SeriesFmt, SeriesParse, SeriesOf
  <1>4. CASE s = "I"
    BY <1>4 DEF SeriesFmt, SeriesParse, SeriesOf
  <1> QED BY <1>1, <1>2, <1>3, <1>4 DEF Series

\* Only a serial number of a known series is parsed.
LEMMA ParsedSeries ==
  ASSUME NEW sn, SerialNumberParse(sn).status = "OK"
  PROVE  SerialNumberParse(sn).series \in Series
  <1>1. SerialNumberParse(sn).series = SeriesOf(sn.suffix) /\ sn.suffix \in {"", "E", "EE", "I"}
    BY DEF SerialNumberParse, Failed
  <1> QED BY <1>1 DEF SeriesOf, Series

\* What both ways into the document accept is what they were given.
LEMMA CheckedKeeps ==
  ASSUME NEW s, NEW date, NEW denom, Checked(s, date, denom).status = "OK"
  PROVE  /\ date.status = "OK"
         /\ Checked(s, date, denom).series = s
         /\ Checked(s, date, denom).idate = date.date
         /\ Checked(s, date, denom).denom = denom
  BY DEF Checked, Failed

\* The number up to the first separator of a denomination on the clipboard.
LEMMA ClipboardDenom ==
  ASSUME NEW denom \in Nat
  PROVE  Strtod(ValueFmt(denom)) = denom <=> denom < 1000
  <1>1. CASE denom < 1000
    BY <1>1 DEF Strtod, ValueFmt
  <1>2. CASE ~(denom < 1000)
    <2>1. Strtod(ValueFmt(denom)) = denom \div 1000
      BY <1>2 DEF Strtod, ValueFmt
    <2>2. denom \div 1000 < denom
      BY <1>2
    <2> QED BY <1>2, <2>1, <2>2
  <1> QED BY <1>1, <1>2

\* The letters of a serial number stand for whole dollars.
LEMMA ParsedDenom ==
  ASSUME NEW sn, SerialNumberParse(sn).status = "OK"
  PROVE  SerialNumberParse(sn).denom \in Nat
  <1>1. SerialNumberParse(sn).denom = DenomOf[sn.letter] /\ sn.letter \in DOMAIN DenomOf
    BY DEF SerialNumberParse, Failed
  <1>2. \A l \in DOMAIN DenomOf : DenomOf[l] \in Nat
    BY DEF DenomOf
  <1> QED BY <1>1, <1>2

LEMMA ReadsBack == ASSUME TypeOK PROVE EnteredReadsBack
  <1> SUFFICES ASSUME NEW sn \in SerialNumber,
                      BondNewFromSnIdate(sn, DateFmt(idate)).status = "OK"
               PROVE  LET b == BondNewFromSnIdate(sn, DateFmt(idate))
                          Again(denom) == BondNew(SeriesFmt(b.series), DateFmt(b.idate),
                                                  Strtod(denom))
                      IN  /\ Again(XmlDenom(b.denom)) = b
                          /\ Again(ValueFmt(b.denom)) = b <=> b.denom < 1000
    BY DEF EnteredReadsBack
  <1> DEFINE parsed == SerialNumberParse(sn)
             date   == DateParse(DateFmt(idate))
             b      == BondNewFromSnIdate(sn, DateFmt(idate))
             Again(denom) == BondNew(SeriesFmt(b.series), DateFmt(b.idate), Strtod(denom))
  <1>1. parsed.status = "OK" /\ b = Checked(parsed.series, date, parsed.denom)
    BY DEF BondNewFromSnIdate
  <1>2. parsed.series \in Series /\ parsed.denom \in Nat
    BY <1>1, ParsedSeries, ParsedDenom
  <1>3. /\ date.status = "OK" /\ b.idate = date.date
        /\ b.series = parsed.series /\ b.denom = parsed.denom
    BY <1>1, CheckedKeeps
  <1>4. b.idate = idate
    BY <1>3, DateReadsBack DEF TypeOK
  <1>5. SeriesParse(SeriesFmt(b.series)) = [status |-> "OK", series |-> b.series]
    BY <1>2, <1>3, SeriesReadsBack
  <1>6. date = DateParse(DateFmt(b.idate))
    BY <1>4
  <1>7. b.status = "OK"
    OBVIOUS
  <1> HIDE DEF b, parsed, date
  <1>8. ASSUME NEW denom
        PROVE  Again(denom) = Checked(b.series, date, Strtod(denom))
    BY <1>5, <1>6 DEF BondNew
  <1>9. b = Checked(b.series, date, b.denom)
    BY <1>1, <1>3
  <1>10. Strtod(XmlDenom(b.denom)) = b.denom
    BY DEF Strtod, XmlDenom
  <1>11. Again(XmlDenom(b.denom)) = b
    BY <1>8, <1>9, <1>10
  <1>12. Strtod(ValueFmt(b.denom)) = b.denom <=> b.denom < 1000
    BY <1>2, <1>3, ClipboardDenom
  <1>13. Again(ValueFmt(b.denom)) = b => Strtod(ValueFmt(b.denom)) = b.denom
    <2> SUFFICES ASSUME Again(ValueFmt(b.denom)) = b
                 PROVE  Strtod(ValueFmt(b.denom)) = b.denom
      OBVIOUS
    <2>1. Checked(b.series, date, Strtod(ValueFmt(b.denom))) = b
      BY <1>8
    <2>2. Checked(b.series, date, Strtod(ValueFmt(b.denom))).denom = Strtod(ValueFmt(b.denom))
      BY <1>7, <2>1, CheckedKeeps
    <2> QED BY <2>1, <2>2
  <1>14. Strtod(ValueFmt(b.denom)) = b.denom => Again(ValueFmt(b.denom)) = b
    BY <1>8, <1>9
  <1> QED BY <1>11, <1>12, <1>13, <1>14 DEF b

\* A bond that the Add dialog accepts is made again, the same, from the texts an
\* inventory file has of it, and from those on the clipboard just when its
\* denomination is below a thousand dollars (types.c, doc-xml.c; view.c,
\* selection_received_cb; doc.c, gb_doc_bond_new).
THEOREM AlwaysReadsBack == Spec => []EnteredReadsBack
  BY RulesTypeCorrect, ReadsBack, PTL

---------------------------------------------------------------------------
\* A bond that pays in a month pays in every later one, and is then past its
\* sixth month.
LEMMA PaysOn ==
  ASSUME NEW s \in Series, NEW i \in Int, NEW r \in Int, NEW q \in Int,
         r < q, ~Nopay(s, i, r)
  PROVE  ~Nopay(s, i, q) /\ i + 6 <= r
  BY DEF Nopay, GB_DATE

\* The colours as update_view tells them apart, in a month with entries.
LEMMA ColorOf ==
  ASSUME NEW s, NEW i, NEW r \in Entries
  PROVE  Color(Info(s, i, r)) =
           IF Nopay(s, i, r) THEN "nopay"
           ELSE IF ~(r >= Maturity(s, i)) THEN "normal"
           ELSE IF Exchangeable(s, i, r) THEN "matured_exch" ELSE "matured_not_exch"
  BY DEF Color, Info

LEMMA InOrder == ASSUME TypeOK PROVE ColorsInOrder
  <1> SUFFICES ASSUME rdate \in Entries, NEW r \in Entries, rdate < r
               PROVE  LET now  == Info(series, idate, rdate)
                          next == Info(series, idate, r)
                      IN  /\ Rank[Color(now)] <= Rank[Color(next)]
                          /\ r = rdate + 1 /\ Color(now) = "normal" /\ Color(next) # "normal" =>
                               now.next_accrual = DateFmt(r)
    BY DEF ColorsInOrder
  <1> DEFINE now  == Info(series, idate, rdate)
             next == Info(series, idate, r)
             m    == Maturity(series, idate)
  <1>1. series \in Series /\ idate \in Int /\ rdate \in Int /\ r \in Int
    BY InfoAssumption, RulesAssumption DEF TypeOK, InfoAssumption, RulesAssumption
  <1>2. m \in Int
    BY <1>1 DEF Maturity
  <1>3. /\ Rank["nopay"] = 0 /\ Rank["normal"] = 1
        /\ Rank["matured_exch"] = 2 /\ Rank["matured_not_exch"] = 3
    BY DEF Rank
  <1>4. CASE Nopay(series, idate, rdate)
    <2>1. Color(now) = "nopay"
      BY <1>4, ColorOf
    <2>2. Color(next) \in {"nopay", "normal", "matured_exch", "matured_not_exch"}
      BY ColorOf
    <2> HIDE DEF now, next
    <2>3. Rank[Color(now)] <= Rank[Color(next)] /\ Color(now) # "normal"
      BY <1>3, <2>1, <2>2
    <2> QED BY <2>3 DEF now, next
  <1>5. CASE ~Nopay(series, idate, rdate)
    <2>1. ~Nopay(series, idate, r) /\ idate + 6 <= rdate
      BY <1>1, <1>5, PaysOn
    <2>2. Color(now) = IF ~(rdate >= m) THEN "normal"
                       ELSE IF Exchangeable(series, idate, rdate)
                            THEN "matured_exch" ELSE "matured_not_exch"
      BY <1>5, ColorOf
    <2>3. Color(next) = IF ~(r >= m) THEN "normal"
                        ELSE IF Exchangeable(series, idate, r)
                             THEN "matured_exch" ELSE "matured_not_exch"
      BY <1>1, <2>1, ColorOf
    <2>4. ~Exchangeable(series, idate, rdate) => ~Exchangeable(series, idate, r) \/ rdate < m
      BY <1>1, <1>2, <2>1 DEF Exchangeable
    <2>5. Rank[Color(now)] <= Rank[Color(next)]
      <3> HIDE DEF now, next, m
      <3> QED BY <1>1, <1>2, <1>3, <2>2, <2>3, <2>4
    <2>6. r = rdate + 1 /\ Color(now) = "normal" /\ Color(next) # "normal" =>
            now.next_accrual = DateFmt(r)
      <3> SUFFICES ASSUME r = rdate + 1, Color(now) = "normal", Color(next) # "normal"
                   PROVE  now.next_accrual = DateFmt(r)
        OBVIOUS
      <3>1. rdate < m /\ rdate + 1 >= m
        <4> HIDE DEF now, next, m
        <4> QED BY <1>1, <1>2, <2>2, <2>3
      <3>2. rdate < a2date /\ a2date <= m
        BY <1>1, <2>1, <3>1, TypeBracket DEF AccrualsBracket, mdate
      <3>3. a2date \in Int
        BY <1>1, <1>2 DEF a2date, NextAccrual, LastAccrual, AccrualStep,
                          AccruedMonths, Offset, Monthly, GB_DATE
      <3>4. a2date = rdate + 1
        BY <1>1, <1>2, <3>1, <3>2, <3>3
      <3>5. now.next_accrual = DateFmt(NextAccrual(series, idate, rdate))
        <4>1. idate <= rdate
          BY <1>1, <2>1
        <4> HIDE DEF m
        <4> QED BY <4>1, Zenon DEF Info
      <3> QED BY <1>1, <3>4, <3>5 DEF a2date
    <2> QED BY <2>5, <2>6
  <1> QED BY <1>4, <1>5

\* Over the months the tables have entries for, a row goes through the colours
\* of the legend in their order, and one that stops being normal had announced
\* that month as its next accrual (view.c, update_view; doc.c,
\* gb_doc_bond_get_info).
THEOREM ColorsAlwaysInOrder == Spec => []ColorsInOrder
  BY RulesTypeCorrect, InOrder, PTL
=============================================================================
