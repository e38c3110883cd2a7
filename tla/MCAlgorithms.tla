---------------------------- MODULE MCAlgorithms ----------------------------
(***************************************************************************)
(* Bounded inputs for the algorithms.                                      *)
(***************************************************************************)
EXTENDS Algorithms

UpTo(S, n) == UNION {[1..k -> S] : k \in 0..n}

\* Starts of a fiscal year around the ends of the months, with and without 29 February.
Starts == {t \in DaysOf(2023) \cup DaysOf(2024) : t.d \in {1, 2, 15, 27, 28, 29, 30, 31}}

Pool == {[id |-> 1, tenant |-> "t", reviewed |-> TRUE,  date |-> Day(2024, 2, 29), total |-> 5, tax |-> <<1>>],
         [id |-> 2, tenant |-> "t", reviewed |-> TRUE,  date |-> Day(2025, 2, 28), total |-> 6, tax |-> <<1>>],
         [id |-> 3, tenant |-> "t", reviewed |-> TRUE,  date |-> Day(2024, 2, 28), total |-> 7, tax |-> <<1>>],
         [id |-> 4, tenant |-> "t", reviewed |-> FALSE, date |-> Day(2024, 3, 1), total |-> 8, tax |-> <<1>>],
         [id |-> 5, tenant |-> "u", reviewed |-> TRUE,  date |-> Day(2024, 3, 1), total |-> 9, tax |-> <<1>>],
         [id |-> 6, tenant |-> "t", reviewed |-> TRUE,  date |-> Day(2024, 2, 29), total |-> 9, tax |-> <<1>>]}
Batches == {[invoices |-> {[id |-> i.id, tenant |-> i.tenant, reviewed |-> i.reviewed, date |-> i.date,
                            total |-> i.total, tax |-> i.tax, currency |-> "EUR",
                            vendor |-> <<"v">>, number |-> <<"n">>] : i \in s},
             from |-> b[1], to |-> b[2], start |-> b[3]] :
               s \in SUBSET Pool,
               b \in {Day(2024, 1, 1), Day(2024, 2, 29)} \X {Day(2024, 12, 31), Day(2025, 2, 28)}
                     \X {Day(2024, 1, 1), Day(2024, 2, 29), Day(2024, 3, 1)}}

Texts == UpTo({"a", " "}, 8)

Todays == {Day(2024, m, d) : m \in 1..12, d \in {1, 28}}
Dated == {[id |-> k, date |-> IF k = 1 THEN Day(y, m, 1) ELSE Day(y, m, MonthLength(y, m)), total |-> k,
           tax |-> <<k>>, booked |-> k = 1, reviewed |-> m # 3] :
            k \in {1, 2}, y \in {2023, 2024}, m \in {1, 3, 6, 7, 12}}
Flows == {[today |-> t, months |-> n, invoices |-> s] :
            t \in Todays, n \in {1, 2, 12, 13, 25}, s \in {{}, Dated} \cup {{i} : i \in Dated} \cup {{[i EXCEPT !.tax = << >>]} : i \in Dated}}

\* Invoices for the alerts: two vendors and none, days in and out of the window.
AlertAmounts == {-3, 0, 3, 9}
Alertable == {[id |-> k, number |-> k, vendor |-> v, total |-> a, date |-> d, updated |-> 0] :
                k \in 1..4, v \in {"v", "w", NoName}, a \in AlertAmounts,
                d \in {Day(2024, 6, 1), Day(2024, 1, 1)}}
AlertInputs == {[n \in 1..3 |-> [i[n] EXCEPT !.id = n, !.number = n, !.updated = n]] :
                  i \in [1..3 -> {i \in Alertable : i.id = 1}]}
FewAlertInputs == {[today |-> Day(2024, 6, 30), invoices |-> {s[n] : n \in 1..k}, limit |-> l] :
                      s \in AlertInputs, k \in 1..3, l \in 1..2}

Names == UpTo({"a", "b", "A", "ae", " ", ".", "gmbh"}, 4)
Pairs == UpTo({"a", "b"}, 4) \X UpTo({"a", "b"}, 4)
K == {<<"a", "a", "a", "a">>, <<"a", "a", "a", "b">>, <<"a", "a", "b", "b">>, <<"a", "b", "b", "b">>,
      <<"a", "a", "a">>, <<"a", "a", "a", "a", "a">>}
Mappings == {[n \in 1..Len(ks) |-> [key |-> ks[n], account |-> n, usage |-> us[n], used |-> ts[n]]] :
               ks \in {s \in UpTo(K, 3) : \A a, b \in DOMAIN s : s[a] = s[b] => a = b},
               us \in {<<4, 4, 4>>, <<1, 9, 4>>, <<9, 3, 1>>}, ts \in {<<2, 1, 1>>, <<1, 1, 1>>}}
Lookups == {[mappings |-> m, key |-> k] : m \in Mappings, k \in K \cup {<< >>}}

Docs == {[invoice_number |-> n, vendor_name |-> "word", invoice_date |-> d, total_amount |-> t,
          net_amount |-> e, line_extension |-> x, tax_amount |-> "number", currency |-> c,
          profile |-> p, lines |-> l] :
            n \in {"blank", "word"}, d \in {"absent", "word", "date"}, t \in {"number", "word", "NaN"},
            e \in {"absent", "blank", "number"}, x \in {"absent", "number"}, c \in {"blank", "word"},
            p \in {"basic", "other"},
            l \in UpTo({[description |-> y, price |-> z] : y \in {"blank", "word"}, z \in {"word", "NaN", "number"}}, 1)}
Good == CHOOSE d \in Docs : d.invoice_number = "word" /\ d.invoice_date = "date" /\ d.total_amount = "number"
                            /\ d.net_amount = "number" /\ d.currency = "word" /\ d.lines = << >>
                            /\ d.profile = "basic" /\ d.line_extension = "number"
\* ... with a NaN in a line, where the date cannot be read either.
Odd == [Good EXCEPT !.invoice_date = "word", !.lines = <<[description |-> "word", price |-> "NaN"]>>]
Xmls == [root : {"ubl", "cii", "other", "malformed"}, doc : {Good}] \cup [root : {"ubl", "cii"}, doc : {Odd}]
Uploaded == {[kind |-> k, xml |-> x, attachments |-> a, mime |-> m] :
               k \in {"xml", "pdf", "other"}, x \in Xmls,
               a \in UpTo([known : BOOLEAN, xml : Xmls], 2),
               m \in {"application/xml", "application/pdf", "image/png"}}
Read == {[kind |-> "xml", attachments |-> << >>, mime |-> "text/xml", xml |-> [root |-> r, doc |-> d]] :
           r \in {"ubl", "cii"}, d \in Docs}

Contents == [bom : {"none", "utf8", "utf16le", "utf16be"}, encoding : {"ascii", "utf16"}, decodes : BOOLEAN,
             tokens : UpTo({"white", "<?xml", "<name", "<!--", "text", "%PDF-"}, 2)]
FileNames == UpTo({"a", "/", "\\"}, 5)

Pieces == {[kind |-> k, value |-> v] : k \in {"IBAN", "EMAIL", "word"}, v \in {"x", "y"}}
PieceTexts == UpTo(Pieces, 4)

\* Invoices of equal days, times, amounts, vendors and states among them.
Tables == {{[id |-> n, tenant |-> "t", number |-> n, vendor |-> v[n], date |-> d[n], total |-> 1, created |-> 1,
             status |-> d[n], reviewed |-> n = 1, reviewer |-> 0] : n \in 1..3} :
             v \in {<<0, 1, 1>>, <<1, 2, 1>>}, d \in [1..3 -> 1..3]}
Queries == {[All EXCEPT !.by = b, !.order = o] : b \in Columns, o \in {"asc", "desc"}}
           \cup {[All EXCEPT !.search = <<{1, 3}>>], [All EXCEPT !.vendors = {1}], [All EXCEPT !.statuses = {1, 2}],
                 [All EXCEPT !.methods = {"llm"}], [All EXCEPT !.reviewed = "no"], [All EXCEPT !.from = 2],
                 [All EXCEPT !.to = 2], [All EXCEPT !.max = 8]}
Stored == {[invoice |-> 1, method |-> "llm"], [invoice |-> 2, method |-> "none"], [invoice |-> 3, method |-> "llm"]}
Added  == {[number |-> n, vendor |-> v, date |-> d, total |-> 9] : n \in {1, 9}, v \in {0, 2}, d \in {1, 4}}
Pagings == {[before |-> b, after |-> b, files |-> Stored, query |-> q, limit |-> l] :
              b \in Tables, q \in Queries, l \in {1, 2}}
           \cup {[before |-> b, after |-> Create(b, 9, 2, t, new).table, files |-> Stored, query |-> q, limit |-> 2] :
                    b \in Tables, q \in Queries, new \in Added, t \in {"t", "u"}}

\* Files of the same time among them, with and without a result.
Results == {<< >>} \cup {[vendor_name |-> "word", invoice_date |-> "date", total_amount |-> a, currency |-> "word"] :
                           a \in {"absent", "word", "number", "NaN"}}
FileRows == {[limit |-> l, rows |-> {[id |-> n, tenant |-> ts[n], created |-> cs[n], status |-> st, attempts |-> 1,
                                     invoice |-> 0, result |-> r, path |-> n] : n \in 1..k}] :
               l \in {1, 2, 3}, k \in 1..4, ts \in {<<"t", "t", "t", "t">>, <<"t", "u", "t", "t">>, <<"u", "t", "u", "t">>},
               cs \in {<<4, 2, 3, 1>>, <<1, 1, 2, 2>>, <<2, 1, 1, 1>>},
               st \in {"completed", "failed"}, r \in Results}

Sums == (0..25) \X (0..25)

-----------------------------------------------------------------------------
\* The inputs of a topic.
Bounded(t) ==
    CASE t = "fiscal year" -> Starts
      [] t = "batch" -> Batches
      [] t = "text" -> Texts
      [] t = "quarter" -> DaysOf(2023)
      [] t = "cash flow" -> Flows
      [] t = "alerts" -> FewAlertInputs
      [] t = "names" -> Names
      [] t = "distance" -> Pairs
      [] t = "suggestion" -> Lookups
      [] t = "document" -> Read
      [] t = "file" -> Uploaded
      [] t = "content" -> Contents
      [] t = "file name" -> FileNames
      [] t = "masking" -> PieceTexts
      [] t = "paging" -> Pagings
      [] t = "files" -> FileRows
      [] t = "rounding" -> Sums
=============================================================================
