--------------------------- MODULE InvoiceQueries ---------------------------
(***************************************************************************)
(* The invoice endpoints besides PATCH: creation, the filtered and paged   *)
(* list with its total, the vendors, a single invoice with its reviewer,   *)
(* and the soft warnings.  Tables are sets of rows, amounts are cents;     *)
(* where SQL leaves an order open, an operator gives the set of possible   *)
(* answers.                                                                *)
(***************************************************************************)
EXTENDS Integers, Sequences, SequencesExt, FiniteSets, FiniteSetsExt

\* A filter on the review, a bound of dates or amounts that is not set.
Unset   == "any"
NoBound == -1

\* InvoiceStatus, in the order of the database's type.
Received == 1   \* then PROCESSING, BOOKED, ERROR

-----------------------------------------------------------------------------
(* POST /invoices.  Numbers and vendors are numbers, 0 is the empty text.  *)

Acceptable(data) ==
    /\ data.number # 0 /\ data.vendor # 0 /\ data.total > 0

\* 422 when a field is missing, 409 when the tenant has the number; otherwise
\* the table with the new row.
Create(table, id, now, tenant, data) ==
    IF ~Acceptable(data) THEN [status |-> 422, table |-> table]
    ELSE IF \E i \in table : i.tenant = tenant /\ i.number = data.number
    THEN [status |-> 409, table |-> table]
    ELSE [status |-> 201,
          table  |-> table \cup {[id |-> id, tenant |-> tenant, number |-> data.number,
                                  vendor |-> data.vendor, date |-> data.date,
                                  total |-> data.total, created |-> now, status |-> Received,
                                  reviewed |-> FALSE, reviewer |-> 0]}]

-----------------------------------------------------------------------------
(* GET /invoices                                                           *)

\* base_where of list_filtered: a search is << >>, or <<the texts that contain
\* it>>; files are the invoices and methods of all files.
Selected(table, files, tenant, f) ==
    {i \in table :
        /\ i.tenant = tenant
        /\ f.search # << >> => {i.number, i.vendor} \cap f.search[1] # {}
        /\ f.statuses # {} => i.status \in f.statuses
        /\ f.vendors # {} => i.vendor \in f.vendors
        /\ f.methods # {} => \E file \in files : file.invoice = i.id /\ file.method \in f.methods
        /\ f.reviewed # Unset => (i.reviewed <=> f.reviewed = "yes")
        /\ f.from # NoBound => i.date >= f.from
        /\ f.to # NoBound => i.date <= f.to
        /\ f.min # NoBound => i.total >= f.min
        /\ f.max # NoBound => i.total <= f.max}

\* sort_by and sort_order; rows that are equal in the column in any order.
Columns == {"date", "created", "total", "vendor", "number", "status"}
Precedes(f, i, j) == IF f.order = "asc" THEN i[f.by] < j[f.by] ELSE i[f.by] > j[f.by]
Orders(f, rows) ==
    {s \in SetToSeqs(rows) : \A m, n \in DOMAIN s : m < n => ~Precedes(f, s[n], s[m])}

\* What if the offset counted pages?
SliceOfPages(s, limit, offset) == SubSeq(s, offset * limit + 1, Min({offset * limit + limit, Len(s)}))

Slice(s, limit, offset) == SubSeq(s, offset + 1, Min({offset + limit, Len(s)}))
\* list_filtered: the total is counted on one snapshot, the page is read from
\* a later one.
ListFiltered(counted, table, files, tenant, f, limit, offset) ==
    {[total |-> Cardinality(Selected(counted, files, tenant, f)), items |-> Slice(s, limit, offset)] :
       s \in Orders(f, Selected(table, files, tenant, f))}

\* Vendors as numbers stand for names in their order; 0 is the empty name.
ListVendors(table, tenant) ==
    CHOOSE s \in SetToSeqs({i.vendor : i \in {j \in table : j.tenant = tenant /\ j.vendor # 0}}) :
        \A m, n \in DOMAIN s : m < n => s[m] < s[n]

-----------------------------------------------------------------------------
(* GET /invoices/{id}: LEFT JOIN of the reviewer.                          *)

NoInvoice == [found |-> FALSE]
GetInvoice(table, emails, tenant, id) ==
    IF \E i \in table : i.id = id /\ i.tenant = tenant
    THEN LET i == CHOOSE x \in table : x.id = id /\ x.tenant = tenant
         IN  [found |-> TRUE, invoice |-> i,
              email |-> IF i.reviewer \in DOMAIN emails THEN emails[i.reviewer] ELSE ""]
    ELSE NoInvoice

-----------------------------------------------------------------------------
(* _compute_warnings                                                       *)

NoAmount == -1
Differs(net, tax, total) == net + tax - total > 1 \/ total - net - tax > 1
Warnings(i) ==
    (IF i.net # NoAmount /\ i.tax # NoAmount /\ Differs(i.net, i.tax, i.total)
     THEN {"ust_total_mismatch"} ELSE {})
    \cup (IF i.currency # "EUR" THEN {"unusual_currency"} ELSE {})
=============================================================================
