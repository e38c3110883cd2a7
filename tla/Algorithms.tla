----------------------------- MODULE Algorithms -----------------------------
(***************************************************************************)
(* The pure parts of the program against reference definitions: a state is *)
(* a topic and one input of it, chosen in the only step.                   *)
(***************************************************************************)
EXTENDS Dashboard, NameMatching, EInvoiceParsing, Uploads, Masking, InvoiceQueries

CONSTANT Inputs(_)                                    \* the inputs of each topic

VARIABLES topic, input

-----------------------------------------------------------------------------
(* The inputs and their choice.                                            *)

\* A text in which no word looks like a placeholder.
Piece == [kind : ToSet(MaskingOrder) \cup {"word"}, value : STRING]

\* Days, and invoices as the cash flow and the alerts read them.
Date     == {t \in [y : Nat \ {0}, m : 1..12, d : 1..31] : IsDay(t)}
Entry    == [id : Nat, date : Date, total : Int, tax : Seq(Int),
             booked : BOOLEAN, reviewed : BOOLEAN]
Charge   == [id : Nat, number : Nat, vendor : STRING, total : Int, date : Date, updated : Nat]

\* Learnt mappings of a key.
Mapping  == [key : Seq(STRING), account : Nat, usage : Nat, used : Nat]

\* What an element of a document holds, and files with documents.
Value    == {"absent", "blank", "word", "date", "number", "NaN"}
Document == [invoice_number : Value, vendor_name : Value, invoice_date : Value, total_amount : Value,
             net_amount : Value, line_extension : Value, tax_amount : Value, currency : Value,
             profile : STRING, lines : Seq([description : Value, price : Value])]
Xml      == [root : {"ubl", "cii", "other", "malformed"}, doc : Document]
File     == [kind : {"xml", "pdf", "other"}, xml : Xml, mime : STRING,
             attachments : Seq([known : BOOLEAN, xml : Xml])]

Content  == [bom : STRING, encoding : STRING, decodes : BOOLEAN, tokens : Seq(STRING)]

\* Rows of invoice files, and of invoices; ids are primary keys.
KeysDiffer(rows) == \A a, b \in rows : a.id = b.id => a = b
Result   == [vendor_name : Value, invoice_date : Value, total_amount : Value, currency : Value]
FileRow  == [id : Nat, tenant : STRING, created : Nat, status : STRING, attempts : Nat, invoice : Nat,
             result : Result \cup {<< >>}, path : Nat]
Invoice  == [id : Nat, tenant : STRING, number : Nat, vendor : Nat, date : Nat, total : Nat,
             created : Nat, status : Nat, reviewed : BOOLEAN, reviewer : Nat]

ASSUME InputsAssumption ==
    /\ Inputs("quarter") \subseteq Date
    /\ \A i \in Inputs("cash flow") :
           /\ i.today \in Date /\ i.months \in Nat \ {0}
           /\ IsFiniteSet(i.invoices) /\ i.invoices \subseteq Entry
    /\ \A i \in Inputs("alerts") :
           /\ i.today \in Date /\ IsFiniteSet(i.invoices) /\ i.invoices \subseteq Charge
           /\ i.limit \in Nat \ {0}
    /\ Inputs("names") \subseteq Seq(STRING)
    /\ Inputs("distance") \subseteq Seq(STRING) \X Seq(STRING)
    /\ \A i \in Inputs("suggestion") : i.key \in Seq(STRING) /\ i.mappings \in Seq(Mapping)
    /\ Inputs("masking") \subseteq Seq(Piece)
    /\ Inputs("document") \cup Inputs("file") \subseteq File
    /\ Inputs("content") \subseteq Content
    /\ Inputs("file name") \subseteq Seq(STRING)
    /\ \A i \in Inputs("files") :
           i.limit \in Nat \ {0} /\ IsFiniteSet(i.rows) /\ i.rows \subseteq FileRow /\ KeysDiffer(i.rows)
    /\ \A i \in Inputs("paging") :
           /\ i.limit \in Nat \ {0} /\ IsFiniteSet(i.after) /\ i.after \subseteq Invoice
           /\ i.before \subseteq i.after /\ KeysDiffer(i.after) /\ i.query.by \in Columns
    /\ Inputs("rounding") \subseteq Nat \X Nat
    /\ MaxBytes \in Nat /\ {MaxName, MaxKey} \subseteq Nat \ {0} /\ Cutoff \in Nat
    /\ {Factor, HighValue, MaxUnusual, MaxHighValue, MaxGroups, MaxAlerts} \subseteq Nat

Topics == {"fiscal year", "batch", "text", "quarter", "cash flow", "alerts", "names", "distance",
           "suggestion", "document", "file", "content", "file name", "masking", "paging", "files", "rounding"}

Init == topic \in Topics /\ input = << >>
Choose == /\ input = << >>
          /\ \E i \in Inputs(topic) : input' = <<i>>
          /\ UNCHANGED topic
Spec == Init /\ [][Choose]_<<topic, input>>

On(t) == topic = t /\ input # << >>
In == input[1]

-----------------------------------------------------------------------------
(* Export.                                                                 *)

DaysBetween(a, b) == {t \in UNION {DaysOf(y) : y \in a.y..b.y} : NotAfter(a, t) /\ NotAfter(t, b)}
FiscalYear(start) == DaysBetween(start, FiscalYearEnd(start))

\* A fiscal year has 365 or 366 days and no day and month twice, also when it
\* starts on 29 February or after one: a row's date, written without its year,
\* is one day of it (_fiscal_year_end, _format_ttmm).
FiscalYearIsAYear ==
    On("fiscal year") =>
        LET days == FiscalYear(In)
        IN  /\ Cardinality(days) \in {365, 366}
            /\ Cardinality({<<t.d, t.m>> : t \in days}) = Cardinality(days)

\* Read back with the start of the fiscal year from the header, the rows of a
\* batch are the reviewed invoices of the tenant in the period and the fiscal
\* year, each once, by date, with its account; the others of the period are
\* counted as skipped (export_buchungsstapel).
BatchReadsBack ==
    On("batch") /\ ~Refused(In.from, In.to) =>
        LET accounts == [id \in {i.id : i \in In.invoices} |-> 10 * id]
            batch == ExportDatev(In.invoices, "t", In.from, In.to, In.start, accounts, 0)
            days  == FiscalYear(batch.content.header.start)
            due   == {i \in In.invoices : i.tenant = "t" /\ i.reviewed
                                          /\ i.date \in DaysBetween(In.from, In.to)}
            rows  == batch.content.rows
        IN  /\ {[on |-> {t \in days : TTMM(t) = rows[n].on},
                  total |-> rows[n].total, account |-> rows[n].creditor] : n \in DOMAIN rows}
                = {[on |-> {i.date}, total |-> i.total, account |-> 10 * i.id] :
                     i \in {i \in due : i.date \in days}}
            /\ Len(rows) = Cardinality({i \in due : i.date \in days})
            /\ \A n \in 2..Len(rows) :
                   \E a, b \in due : /\ a.total = rows[n - 1].total /\ b.total = rows[n].total
                                     /\ NotAfter(a.date, b.date)
            /\ batch.count + batch.skipped = Cardinality(due)

\* A booking text that is too long ends with a whole word if it has more than
\* one, and is a beginning of the text (_truncate_buchungstext).
TextIsWholeWords ==
    On("text") =>
        LET whole == Stripped(In)
            cut   == Truncated(In)
        IN  /\ Len(cut) <= MaxText /\ IsPrefix(cut, whole)
            /\ (cut # whole /\ \E n \in 1..MaxText : whole[n] = " ") =>
                   whole[Len(cut) + 1] = " " /\ cut[Len(cut)] # " "

-----------------------------------------------------------------------------
(* Dashboard.                                                              *)

\* Quarters follow each other without a gap, over the turn of the year too
\* (_current_quarter_bounds).
QuartersTile ==
    On("quarter") =>
        LET first  == QuarterStart(In)
            before == DayBefore(first)
        IN  /\ NotAfter(first, In) /\ NotAfter(In, QuarterEnd(In))
            /\ IsDay(first) /\ IsDay(QuarterEnd(In))
            /\ QuarterEnd(before) = before

\* The cash flow has the months up to the current one, one after the other,
\* and every invoice of these months in one of them (get_cashflow).
CashflowIsComplete ==
    On("cash flow") =>
        LET points == Cashflow(In.invoices, In.today, In.months)
            Follows(a, b) == 12 * a.y + a.m + 1 = 12 * b.y + b.m
            oldest == 12 * In.today.y + In.today.m - In.months + 1
            these  == {i \in In.invoices : 12 * i.date.y + i.date.m
                                            \in oldest..(12 * In.today.y + In.today.m)}
        IN  /\ points[In.months].month = [y |-> In.today.y, m |-> In.today.m]
            /\ \A n \in 2..In.months : Follows(points[n - 1].month, points[n].month)
            /\ FoldLeft(LAMBDA sum, p : sum + p.total, 0, points) = Total(these)
            /\ FoldLeft(LAMBDA sum, p : sum + p.count, 0, points) = Cardinality(these)

\* Every alert has its reason, and as long as no limit is reached every reason
\* has its alert: an invoice far above the recent average, the only invoice of
\* a vendor when it is high, one invoice of each group of duplicates
\* (_build_alerts).
AlertsAreRight ==
    On("alerts") =>
        LET Alike(i) == {j \in In.invoices : j.vendor = i.vendor /\ j.total = i.total}
            recent == Recent(In.invoices, In.today)
            unusual == {i \in In.invoices : recent # {} /\ i.total * Cardinality(recent) > Factor * Total(recent)}
            first == {i \in In.invoices : i.vendor # NoName /\ i.total > HighValue
                                 /\ \A j \in In.invoices : j.vendor = i.vendor => j = i}
            doubled == {i \in In.invoices : i.vendor # NoName /\ Alike(i) # {i}
                                   /\ \A j \in Alike(i) : i.number <= j.number}
            due == {Alert("unusual_amount", i) : i \in unusual}
                   \cup {Alert("first_time_high_value_vendor", i) : i \in first}
                   \cup {Alert("potential_duplicate", i) : i \in doubled}
        IN  \A shown \in Alerts(In.invoices, In.today) :
                /\ shown \subseteq due /\ Cardinality(shown) <= MaxAlerts
                /\ (/\ Cardinality(due) <= MaxAlerts
                    /\ Cardinality(unusual) <= MaxUnusual /\ Cardinality(doubled) <= MaxGroups
                    /\ Cardinality({i \in In.invoices : i.total > HighValue}) <= MaxHighValue) => shown = due

\* A recent invoice is unusual only among more than Factor recent ones, unless an
\* amount is negative: the average holds the invoice itself (_build_alerts).
UnusualNeedsHistory ==
    On("alerts") /\ (\A i \in In.invoices : i.total >= 0) =>
        \A i \in Unusual(In.invoices, In.today) \cap Recent(In.invoices, In.today) :
            Cardinality(Recent(In.invoices, In.today)) > Factor

\* The VAT of the quarter is that of the invoices of its three months, up to
\* the last day of each (get_kpis, get_cashflow).
VatIsOfTheMonths ==
    On("cash flow") =>
        LET months == {m \in 1..12 : (m - 1) \div 3 = (In.today.m - 1) \div 3}
            of(m)  == {i \in InMonth(In.invoices, [y |-> In.today.y, m |-> m]) : i.tax # << >>}
        IN  Kpis(In.invoices, In.today).vat = FoldSet(LAMBDA m, sum : sum + Taxes(of(m)), 0, months)

\* The open invoices are all but those that are booked and reviewed, with what
\* these leave of the total (get_kpis).
OpenIsTheRest ==
    On("cash flow") =>
        LET settled == {i \in In.invoices : i.booked /\ i.reviewed}
        IN  /\ Kpis(In.invoices, In.today).count + Cardinality(settled) = Cardinality(In.invoices)
            /\ Kpis(In.invoices, In.today).total + Total(settled) = Total(In.invoices)

Turnover(v) == Total(Of(In.invoices, v))

\* However ties are broken, for every limit: as many vendors are shown as there
\* are or as fit, with their turnover; a vendor is left out only if as many
\* others as fit have at least its turnover, and shown only if fewer have more.
\* The same holds of the recent activity and the last changes
\* (get_top_vendors, get_recent_activity).
TopIsMost ==
    On("alerts") =>
        /\ \A top \in TopVendors(In.invoices, In.limit) :
               LET vendors == Vendors(In.invoices)
                   shown   == {r.vendor : r \in top}
               IN  /\ Cardinality(top) = Min({In.limit, Cardinality(vendors)})
                   /\ \A r \in top : r.total = Turnover(r.vendor)
                   /\ \A v \in vendors \ shown :
                          Cardinality({w \in vendors \ {v} : Turnover(w) >= Turnover(v)}) >= In.limit
                   /\ \A v \in shown :
                          Cardinality({w \in vendors : Turnover(w) > Turnover(v)}) < In.limit
        /\ \A shown \in RecentActivity(In.invoices, In.limit) :
               /\ \A i \in In.invoices \ shown :
                      Cardinality({j \in In.invoices \ {i} : j.updated >= i.updated}) >= In.limit
               /\ \A i \in shown :
                      Cardinality({j \in In.invoices : j.updated > i.updated}) < In.limit

-----------------------------------------------------------------------------
(* Names.                                                                  *)

\* Case, accents, more white space, punctuation and a legal form before or
\* after the name leave its key alone, unless nothing else is left of it
\* (normalize_vendor_name).
SpellingsShareAKey ==
    On("names") /\ (\E n \in DOMAIN Cleaned(In) : Cleaned(In)[n] # " ") =>
            \A other \in {In \o <<" ", "gmbh">>, <<"gmbh", " ">> \o In, In \o <<".">>, <<" ">> \o In,
                           [n \in DOMAIN In |-> Folded(In[n])]} :
                Normalized(other) = Normalized(In)

\* The two-row computation gives the least number of insertions, deletions and
\* substitutions, as far as two of them (_levenshtein_distance).
Edited(w, letters) ==
    {SubSeq(w, 1, n) \o SubSeq(w, n + 2, Len(w)) : n \in 0..(Len(w) - 1)}
    \cup {SubSeq(w, 1, n) \o <<c>> \o SubSeq(w, n + 1, Len(w)) : n \in 0..Len(w), c \in letters}
    \cup {SubSeq(w, 1, n) \o <<c>> \o SubSeq(w, n + 2, Len(w)) : n \in 0..(Len(w) - 1), c \in letters}
Near(words, letters) == words \cup UNION {Edited(w, letters) : w \in words}
DistanceIsEdits ==
    On("distance") =>
        LET d       == Distance(In[1], In[2])
            letters == ToSet(In[2])
        IN  /\ d = 0 <=> In[1] = In[2]
            /\ d <= 1 <=> In[2] \in Near({In[1]}, letters)
            /\ d <= 2 <=> In[2] \in Near(Near({In[1]}, letters), letters)

\* The suggestion is the mapping of the key, or else that of the key that is
\* closest within two edits, the last used one of these, among those that are
\* compared; there is none for an empty name (suggest_for_vendor).
ClosestIsSuggested ==
    On("suggestion") =>
        LET s     == SuggestForVendor(In.mappings, In.key)
            exact == \E m \in ToSet(In.mappings) : m.key = In.key
            close == {m \in ToSet(Compared(In.mappings)) :
                         Distance(In.key, m.key) <= 2 /\ ~LengthsDiffer(In.key, m.key)}
        IN  IF In.key # << >> /\ exact THEN s.match = "exact" /\ s.mapping.key = In.key
            ELSE IF In.key = << >> \/ close = {} THEN s.match = "none"
            ELSE /\ s.match = "fuzzy" /\ s.mapping \in close
                 /\ \A m \in close :
                       \/ Distance(In.key, m.key) > Distance(In.key, s.mapping.key)
                       \/ /\ Distance(In.key, m.key) = Distance(In.key, s.mapping.key)
                          /\ m.used <= s.mapping.used

\* The export books on a learnt account only for the very key, used four times:
\* another vendor's account is suggested at most (resolve_for_export).
OnlyExactIsBooked ==
    On("suggestion") =>
        LET account == ResolveForExport(In.mappings, In.key, 0)
        IN  account # 0 =>
                \E m \in ToSet(In.mappings) : m.key = In.key /\ m.usage >= 4 /\ m.account = account

-----------------------------------------------------------------------------
(* Files.                                                                  *)

\* An invoice in one of the two syntaxes whose required fields are there and are
\* texts, a date and decimals: only the net total of UBL has a substitute.
Stated(v) == v \notin {"absent", "blank"}
Net(xml)  == IF xml.root = "ubl" /\ ~Stated(xml.doc.net_amount) THEN xml.doc.line_extension
             ELSE xml.doc.net_amount
AmountsOf(xml) == {xml.doc.total_amount, Net(xml), xml.doc.tax_amount}
Readable(xml) ==
    /\ xml.root \in {"ubl", "cii"}
    /\ Stated(xml.doc.invoice_number) /\ Stated(xml.doc.vendor_name) /\ Stated(xml.doc.currency)
    /\ xml.doc.invoice_date = "date" /\ AmountsOf(xml) \subseteq {"number", "NaN"}
Described(xml) == {n \in DOMAIN xml.doc.lines : Stated(xml.doc.lines[n].description)}
OddLine(xml)   == \E n \in Described(xml) : xml.doc.lines[n].price = "NaN"

\* Every required field has something.
Complete(xml) ==
    /\ xml.root \in {"ubl", "cii"}
    /\ \A v \in {xml.doc.invoice_number, xml.doc.vendor_name, xml.doc.currency, xml.doc.invoice_date}
               \cup AmountsOf(xml) : Stated(v)

\* What can be read has no NaN; a NaN that is met before anything that cannot be.
Accepted(xml) == Readable(xml) /\ ~OddLine(xml) /\ "NaN" \notin AmountsOf(xml)
Escapes(xml)  == Complete(xml) /\ (OddLine(xml) \/ (Readable(xml) /\ "NaN" \in AmountsOf(xml)))

\* A document is taken over exactly if its required fields can be read and none
\* of its numbers is a NaN, with all its lines that have a description: no word
\* in place of a line's price matters.  A NaN escapes as an error where a field
\* that is missing, or one that cannot be read while no line has a NaN, only
\* sends the file on to the provider (_parse_ubl, _parse_cii, try_extract).
ParsedIffComplete ==
    On("document") /\ In.kind = "xml" /\ In.mime \in XmlMimes =>
        LET taken == TryExtract(In, In.mime).result
        IN  /\ taken.outcome = "parsed" <=> Accepted(In.xml)
            /\ taken.outcome = "validation_error" <=> Escapes(In.xml)
            /\ taken.outcome = "parsed" => Len(taken.lines) = Cardinality(Described(In.xml))

\* What is parsed, or fails with a NaN, is an invoice, never something the
\* parser refuses as unsupported; in a PDF it is the first attachment with a
\* known name, although a later one might do (try_extract).
AttachmentDecides ==
    On("file") =>
        LET taken == TryExtract(In, In.mime)
            FirstKnown(n) == In.attachments[n].known /\ \A m \in 1..(n - 1) : ~In.attachments[m].known
        IN  /\ taken.result.outcome \in {"none", "parsed", "validation_error"}
            /\ taken.method = "zugferd_v2" <=>
                  /\ In.kind = "pdf" /\ In.mime = "application/pdf"
                  /\ \E n \in DOMAIN In.attachments :
                         FirstKnown(n) /\ (Accepted(In.attachments[n].xml) \/ Escapes(In.attachments[n].xml))
            /\ taken.method \in {"xrechnung_ubl", "xrechnung_cii"} <=>
                  In.kind = "xml" /\ In.mime \in XmlMimes /\ (Accepted(In.xml) \/ Escapes(In.xml))

\* The list of files shows vendor, date, total and currency of every e-invoice
\* that was taken over: what the result stores as text can be read again
\* (_parse_ubl, _parse_cii with InvoiceFileResponse.from_model).
ParsedIsShown ==
    On("document") =>
        LET taken == TryExtract(In, In.mime).result
            shown == FromModel([status |-> "completed", result |-> taken.fields])
        IN  taken.outcome = "parsed" =>
                \A f \in {"vendor_name", "invoice_date", "total_amount", "currency"} : shown[f] # Nothing

\* No content passes the checks as XML and as another type: a second upload
\* answered with the first one's row was declared as the same kind of file
\* (_check_magic_bytes, get_by_sha256).
OneKindOfFile ==
    On("content") =>
        \A k, l \in AllowedMimeTypes :
            /\ Answer([size |-> 1, mime |-> k, content |-> In]) = 201
            /\ Answer([size |-> 1, mime |-> l, content |-> In]) = 201
            => k = l \/ {k, l} = XmlMimeTypes

\* The files of the list are those that the tenant can download and ask the
\* status of, with the number of all; only completed files show a result.  The
\* pages are in order, the newest files first, and a file is on one page and no
\* other if a page holds all files of its time: only of files of one time that
\* a page's end parts, one may be missed or shown twice (list_invoice_files,
\* get_invoice_file, get_extraction_status).
ListedAreServed ==
    On("files") =>
        LET own     == {r \in In.rows : r.tenant = "t"}
            storage == [p \in {r.path : r \in In.rows} |-> p]
            Page(p) == ListInvoiceFiles(In.rows, In.rows, "t", In.limit, In.limit * p)
            Shows(answer, r) == \E n \in DOMAIN answer.items : answer.items[n].id = r.id
            Served(id) == GetInvoiceFile(In.rows, storage, "t", id) # {}
            last    == Cardinality(own)
            newer(r) == Cardinality({q \in own : q.created > r.created})
            older(r) == Cardinality({q \in own : q.created >= r.created})
            Holds(p, r) == In.limit * p <= newer(r) /\ older(r) <= In.limit * p + In.limit
        IN  /\ \A r \in In.rows : Served(r.id) <=> \E p \in 0..last : \E answer \in Page(p) : Shows(answer, r)
            /\ \A r \in own, p, q \in 0..last : \A answer \in Page(q) :
                   Holds(p, r) => (Shows(answer, r) <=> p = q)
            /\ \A p, q \in 0..last : \A one \in Page(p), two \in Page(q), a, b \in own :
                   p < q /\ Shows(one, a) /\ Shows(two, b) => a.created >= b.created
            /\ \A p \in 0..last : \A answer \in Page(p) :
                   /\ answer.total = last
                   /\ \A n \in DOMAIN answer.items :
                          \E r \in GetExtractionStatus(In.rows, "t", answer.items[n].id) :
                              answer.items[n].shown.total_amount # Nothing <=>
                                  /\ r.status = "completed" /\ r.result # << >>
                                  /\ r.result.total_amount \in {"number", "NaN"}

\* A stored file name is not empty, no path and not too long, and begins like
\* the last part of the given one (_sanitize_filename).
StoredNameIsGiven ==
    On("file name") =>
        LET name == SanitizeFilename(In)
        IN  /\ Len(name) \in 1..MaxName
            /\ \A n \in DOMAIN name : name[n] \notin {"/", "\\"}
            /\ \A n \in DOMAIN In :
                   /\ n = 1 \/ In[n - 1] \in Separators
                   /\ \A m \in n..Len(In) : In[m] \notin Separators
                   => IsPrefix(name, SubSeq(In, n, Len(In)))

-----------------------------------------------------------------------------
(* Masking, lists and warnings.                                            *)

\* Equal pieces and only these have equal placeholders (RegexMasker.mask).
OnePlaceholderPerValue ==
    On("masking") =>
        \A m, n \in DOMAIN In : Masked(In)[m] = Masked(In)[n] <=> In[m] = In[n]

\* Unmasking the masked text gives the text, in whatever order the entities
\* are replaced (MaskedText.unmask).
RoundTrip ==
    On("masking") => Unmask(Entities(In), Masked(In)) = In

Pages(table, page) ==
    {ToSet(answer.items) :
       answer \in ListFiltered(table, table, In.files, "t", In.query, In.limit, In.limit * page)}

\* In every order and under every filter, an invoice that was there when a client
\* fetched the first page is on one of its pages, although others are created
\* before the next pages are fetched, if a page holds all invoices that are
\* equal to it in the column of the order; and no page has an invoice that
\* belongs before one of an earlier page (list_filtered, create).
PagesCover ==
    On("paging") =>
        LET f     == In.query
            rows  == Selected(In.before, In.files, "t", f)
            later == Selected(In.after, In.files, "t", f)
            before(i) == Cardinality({j \in later : Precedes(f, j, i)})
            upto(i)   == Cardinality({j \in later : ~Precedes(f, i, j)})
            Held(i)   == \E p \in 0..Cardinality(later) :
                            In.limit * p <= before(i) /\ upto(i) <= In.limit * p + In.limit
        IN  /\ \A i \in rows, one \in Pages(In.before, 0) :
                   Held(i) => i \in one \/ \E p \in 1..Cardinality(later) :
                                               \A other \in Pages(In.after, p) : i \in other
            /\ \A p, q \in 0..Cardinality(later) : \A one \in Pages(In.after, p), two \in Pages(In.after, q) :
                   p < q => \A i \in one, j \in two : ~Precedes(f, j, i)

All == [search |-> << >>, vendors |-> {}, statuses |-> {}, methods |-> {}, reviewed |-> Unset,
        from |-> NoBound, to |-> NoBound, min |-> NoBound, max |-> NoBound, by |-> "date", order |-> "desc"]

\* Each vendor that the filter offers has invoices, together they have every
\* invoice with a vendor, and a client can open exactly the invoices that are
\* listed for it (list_distinct_vendors, list_filtered, get_by_id_with_user_email).
OfferedIsFound ==
    On("paging") =>
        \A t \in {"t", "u"} :
            LET offered == ToSet(ListVendors(In.after, t))
                By(v)   == Selected(In.after, In.files, t, [All EXCEPT !.vendors = {v}])
                listed  == Selected(In.after, In.files, t, All)
            IN  /\ \A v \in offered : By(v) # {}
                /\ UNION {By(v) : v \in offered} = {i \in listed : i.vendor # 0}
                /\ \A i \in In.after : GetInvoice(In.after, << >>, t, i.id).found <=> i \in listed

\* An invoice whose net amount, tax and total were each rounded to cents has no
\* warning (_compute_warnings).
Rounded(tenths) == (tenths + 5) \div 10
RoundingIsForgiven ==
    On("rounding") =>
        Warnings([net |-> Rounded(In[1]), tax |-> Rounded(In[2]), total |-> Rounded(In[1] + In[2]),
                    currency |-> "EUR"]) = {}
-----------------------------------------------------------------------------
(* The properties of each part together.                                   *)

\* A batch holds what it should and can be read back (api/exports).
BatchesAreRight == FiscalYearIsAYear /\ BatchReadsBack /\ TextIsWholeWords

\* The dashboard's figures and alerts are right (api/dashboard).
DashboardIsRight == QuartersTile /\ CashflowIsComplete /\ AlertsAreRight /\ UnusualNeedsHistory
                    /\ VatIsOfTheMonths /\ OpenIsTheRest /\ TopIsMost

\* A vendor is recognised under its spellings, and no other for it
\* (api/vendor_mappings).
NamesAreMatched == SpellingsShareAKey /\ DistanceIsEdits /\ ClosestIsSuggested /\ OnlyExactIsBooked

\* An e-invoice is read completely or left to the provider (ai/einvoice).
EInvoicesAreRead == ParsedIffComplete /\ AttachmentDecides /\ ParsedIsShown

\* Uploads are of the kind they claim, have a usable name, and are listed
\* (api/invoice_files).
UploadsAreServed == OneKindOfFile /\ StoredNameIsGiven /\ ListedAreServed

\* Personal data are replaced one to one and can be put back (ai/pii).
MaskingIsUndone == OnePlaceholderPerValue /\ RoundTrip

\* Pages miss no invoice and warnings are not raised by rounding (api/invoices).
ListsAreRight == PagesCover /\ OfferedIsFound /\ RoundingIsForgiven
=============================================================================
