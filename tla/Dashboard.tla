------------------------------ MODULE Dashboard -----------------------------
(***************************************************************************)
(* The figures of the dashboard, as functions of a tenant's invoices and   *)
(* the current day: quarter, cash flow, top vendors and alerts.  Rows that *)
(* SQL may return in any order give a set of possible answers; amounts are *)
(* integers, names are values.                                             *)
(***************************************************************************)
EXTENDS DatevExport

CONSTANTS
    Factor,       \* an amount is unusual above this multiple of the average (10)
    HighValue,    \* ... and high above this one (1000)
    MaxUnusual, MaxHighValue, MaxGroups, MaxAlerts   \* LIMITs (10, 20, 10, 10)

Total(invoices) == FoldSet(LAMBDA i, n : n + i.total, 0, invoices)
Taxes(invoices) == FoldSet(LAMBDA i, n : n + i.tax[1], 0, invoices)

\* _current_quarter_bounds
QuarterStart(today) == Day(today.y, ((today.m - 1) \div 3) * 3 + 1, 1)

QuarterEnd(today) ==
    LET last == ((today.m - 1) \div 3) * 3 + 3
    IN  Day(today.y, last, MonthLength(today.y, last))

\* The tax of an invoice is NoTax or <<amount>>.
NoTax == << >>
Open(invoices) == {i \in invoices : ~i.booked \/ ~i.reviewed}
Kpis(invoices, today) ==
    [count |-> Cardinality(Open(invoices)), total |-> Total(Open(invoices)),
     vat |-> Taxes({i \in invoices : /\ NotAfter(QuarterStart(today), i.date)
                                     /\ NotAfter(i.date, QuarterEnd(today))
                                     /\ i.tax # NoTax})]

\* The labels of the last n months, oldest first: the year goes back while the
\* month is not positive.
MonthsBack(today, k) ==
    LET wraps == IF today.m > k THEN 0 ELSE (k - today.m) \div 12 + 1
    IN  [y |-> today.y - wraps, m |-> today.m - k + 12 * wraps]
MonthLabels(today, n) == [j \in 1..n |-> MonthsBack(today, n - j)]
InMonth(invoices, label) == {i \in invoices : i.date.y = label.y /\ i.date.m = label.m}
Cashflow(invoices, today, n) ==
    [j \in 1..n |-> LET these == InMonth(invoices, MonthLabels(today, n)[j])
                    IN  [month |-> MonthLabels(today, n)[j], total |-> Total(these),
                         count |-> Cardinality(these)]]

\* The empty name.
NoName == ""
Vendors(invoices) == {i.vendor : i \in invoices} \ {NoName}
Of(invoices, v) == {i \in invoices : i.vendor = v}

\* ORDER BY key DESC LIMIT n, in any order among equals.
Leading(S, Key(_), n) ==
    {T \in SUBSET S : /\ Cardinality(T) = Min({n, Cardinality(S)})
                      /\ \A x \in T, y \in S \ T : Key(x) >= Key(y)}
TopVendors(invoices, limit) ==
    Leading({[vendor |-> v, count |-> Cardinality(Of(invoices, v)), total |-> Total(Of(invoices, v))] :
               v \in Vendors(invoices)},
            LAMBDA r : r.total, limit)

RecentActivity(invoices, limit) == Leading(invoices, LAMBDA i : i.updated, limit)

-----------------------------------------------------------------------------
(* _build_alerts                                                           *)

Newest(S, n) == Leading(S, LAMBDA i : Ordinal(i.date), n)
Alert(type, i) == [type |-> type, id |-> i.id]

Recent(invoices, today) == {i \in invoices : Ordinal(i.date) >= Ordinal(today) - 90}

\* total > Factor * average, with the average over the recent invoices.
Unusual(invoices, today) ==
    LET recent == Recent(invoices, today)
    IN  {i \in invoices : recent # {} /\ i.total * Cardinality(recent) > Factor * Total(recent)}

High(invoices) == {i \in invoices : i.total > HighValue /\ i.vendor # NoName}
\* The limit applies to the invoices that are looked at, before the count by vendor.
FirstOfVendor(invoices, looked) == {i \in looked : Cardinality(Of(invoices, i.vendor)) = 1}

\* Groups of the same vendor and amount; the invoice with the least number stands for each.
Groups(invoices) ==
    {g \in {{i \in invoices : i.vendor = j.vendor /\ i.total = j.total} : j \in invoices} :
       Cardinality(g) > 1 /\ \A i \in g : i.vendor # NoName}
Sample(g) == CHOOSE i \in g : \A j \in g : i.number <= j.number

\* What if the sample were not joined?
DuplicatesAll(invoices, groups) == UNION groups

Duplicates(invoices, groups) ==
    {i \in invoices : \E g \in groups : i.number = Sample(g).number /\ i \in g}

\* The alerts are sorted by the invoice's id and cut off; those of one invoice
\* stay in the order of their types.
Rank(a) == 3 * a.id + (CASE a.type = "unusual_amount" -> 0
                         [] a.type = "first_time_high_value_vendor" -> 1
                         [] OTHER -> 2)
Capped(alerts) == {a \in alerts : Cardinality({b \in alerts : Rank(b) < Rank(a)}) < MaxAlerts}

Alerts(invoices, today) ==
    {Capped({Alert("unusual_amount", i) : i \in unusual}
            \cup {Alert("first_time_high_value_vendor", i) : i \in FirstOfVendor(invoices, looked)}
            \cup {Alert("potential_duplicate", i) : i \in Duplicates(invoices, groups)}) :
       unusual \in Newest(Unusual(invoices, today), MaxUnusual),
       looked \in Newest(High(invoices), MaxHighValue),
       groups \in Leading(Groups(invoices), LAMBDA g : Cardinality(g), MaxGroups)}
=============================================================================
