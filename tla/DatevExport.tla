----------------------------- MODULE DatevExport ----------------------------
(***************************************************************************)
(* The DATEV batch of GET /exports/datev: which reviewed invoices it holds *)
(* for a period and a fiscal year, and the rows it writes.  Dates are days *)
(* of the Gregorian calendar, amounts are cents, texts are sequences of    *)
(* letters and blanks; quoting and encoding are left out.                  *)
(***************************************************************************)
EXTENDS Integers, Sequences, FiniteSets, FiniteSetsExt, SequencesExt

CONSTANTS
    MaxNumber,   \* characters of Belegfeld 1 (36 in the code)
    MaxText      \* characters of a Buchungstext (60 in the code)

-----------------------------------------------------------------------------
(* The calendar.                                                           *)

Leap(y) == (y % 4 = 0 /\ y % 100 # 0) \/ y % 400 = 0
MonthLength(y, m) == IF m = 2 THEN (IF Leap(y) THEN 29 ELSE 28)
                     ELSE IF m \in {4, 6, 9, 11} THEN 30 ELSE 31
Day(y, m, d) == [y |-> y, m |-> m, d |-> d]
IsDay(t) == t.m \in 1..12 /\ t.d \in 1..MonthLength(t.y, t.m)
Before(a, b) == \/ a.y < b.y
                \/ a.y = b.y /\ a.m < b.m
                \/ a.y = b.y /\ a.m = b.m /\ a.d < b.d
NotAfter(a, b) == a = b \/ Before(a, b)
DayBefore(t) ==
    IF t.d > 1 THEN Day(t.y, t.m, t.d - 1)
    ELSE IF t.m > 1 THEN Day(t.y, t.m - 1, MonthLength(t.y, t.m - 1))
    ELSE Day(t.y - 1, 12, 31)
DaysOf(y) == {Day(y, m, d) : m \in 1..12, d \in 1..31} \cap
             UNION {{Day(y, m, d) : d \in 1..MonthLength(y, m)} : m \in 1..12}
\* Days since the year 0.
Ordinal(t) == 365 * t.y + (t.y - 1) \div 4 - (t.y - 1) \div 100 + (t.y - 1) \div 400
              + FoldSet(LAMBDA m, n : n + MonthLength(t.y, m), 0, 1..(t.m - 1)) + t.d

-----------------------------------------------------------------------------
(* Selection.                                                              *)

\* _fiscal_year_end: 29 February has no anniversary, its month's last day is taken.
NextYearStart(start) ==
    IF IsDay(Day(start.y + 1, start.m, start.d))
    THEN Day(start.y + 1, start.m, start.d)
    ELSE Day(start.y + 1, start.m, Min({start.d, MonthLength(start.y + 1, start.m)}))

FiscalYearEnd(start) == DayBefore(NextYearStart(start))

\* The request is refused: reversed, or longer than a year.
Refused(from, to) == Before(to, from) \/ Ordinal(to) - Ordinal(from) > 366

ReviewedInRange(invoices, tenant, from, to) ==
    {i \in invoices : /\ i.tenant = tenant /\ i.reviewed
                      /\ NotAfter(from, i.date) /\ NotAfter(i.date, to)}

InOrder(a, b) == Before(a.date, b.date) \/ (a.date = b.date /\ a.id < b.id)

\* What if only the start bounded the fiscal year?
IncludedFrom(invoices, start) == {i \in invoices : NotAfter(start, i.date)}

Included(invoices, start) ==
    {i \in invoices : NotAfter(start, i.date) /\ NotAfter(i.date, FiscalYearEnd(start))}

-----------------------------------------------------------------------------
(* Rows.                                                                   *)

Blank == " "
Stripped(text) ==
    LET solid == {i \in DOMAIN text : text[i] # Blank}
    IN  IF solid = {} THEN << >> ELSE SubSeq(text, Min(solid), Max(solid))
RightStripped(text) ==
    LET solid == {i \in DOMAIN text : text[i] # Blank}
    IN  IF solid = {} THEN << >> ELSE SubSeq(text, 1, Max(solid))

\* _truncate_buchungstext: cut at the last blank of the first MaxText characters
\* that is not the first character, or in the middle of the word.
Truncated(value) ==
    LET text == Stripped(value)
        blanks == {i \in 1..MaxText : i <= Len(text) /\ text[i] = Blank}
    IN  IF Len(text) <= MaxText THEN text
        ELSE IF blanks # {} /\ Max(blanks) > 1
             THEN RightStripped(SubSeq(text, 1, Max(blanks) - 1))
             ELSE SubSeq(text, 1, MaxText)

NumberField(i) == SubSeq(i.number, 1, Min({MaxNumber, Len(i.number)}))
Text(i) == Truncated(Stripped(i.vendor \o <<Blank>> \o NumberField(i)))

\* A date is written as day and month, without the year.
TTMM(date) == [day |-> date.d, month |-> date.m]

DataRow(i, creditor) ==
    [total |-> i.total, currency |-> i.currency, creditor |-> creditor, on |-> TTMM(i.date),
     number |-> NumberField(i), text |-> Text(i)]
HeaderRow(from, to, start) == [start |-> start, from |-> from, to |-> to]

\* build_extf_buchungsstapel; overrides holds accounts by invoice.
Csv(sorted, from, to, start, overrides, default) ==
    [header |-> HeaderRow(from, to, start),
     rows   |-> [n \in DOMAIN sorted |->
                   LET id == sorted[n].id
                   IN  DataRow(sorted[n], IF id \in DOMAIN overrides THEN overrides[id] ELSE default)]]

\* export_buchungsstapel; resolved holds, by invoice, what resolve_for_export
\* returns for it.
Export(invoices, tenant, from, to, start, resolved, default) ==
    LET found     == ReviewedInRange(invoices, tenant, from, to)
        included  == Included(found, start)
        overrides == [id \in {i.id : i \in included} |-> resolved[id]]
    IN  [content |-> Csv(SetToSortSeq(included, InOrder), from, to, start, overrides, default),
         count   |-> Cardinality(included),
         skipped |-> Cardinality(found) - Cardinality(included)]

NoExport == [content |-> << >>, count |-> 0, skipped |-> 0]
ExportDatev(invoices, tenant, from, to, start, resolved, default) ==
    IF Refused(from, to) THEN NoExport
    ELSE Export(invoices, tenant, from, to, start, resolved, default)
=============================================================================
