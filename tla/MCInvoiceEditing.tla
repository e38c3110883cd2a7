-------------------------- MODULE MCInvoiceEditing --------------------------
(***************************************************************************)
(* Instances of InvoiceEditing for TLC.                                    *)
(***************************************************************************)
EXTENDS InvoiceEditing, TLC

CONSTANTS i1, i2, n1, n2, n3, v1, v2, v3, m1, m2, u1, u2, k1, k2, a1, a2, t1, t2, t3

Symmetry == Permutations(Tasks)

Created(n) == [f \in Fields |-> CASE f = "number" -> n [] f = "vendor" -> v1
                                  [] f = "amount" -> m1 [] f = "is_reviewed" -> FALSE]

\* Two invoices with numbers n1 and n2, or one.
TwoInvoices == [i \in Invoices |-> IF i = i1 THEN Created(n1) ELSE Created(n2)]

\* v1 and v2 are spellings of one vendor.
TwoSpellings == [v \in Vendors |-> IF v = v3 THEN k2 ELSE k1]

Plain(changes)      == [changes |-> changes, account |-> NoAccount]
Booking(changes, a) == [changes |-> changes, account |-> a]

\* Edits of every kind of field, with and without an effect, and a null.
FieldEdits ==
    {Plain("amount" :> m2), Plain("amount" :> m1),
     Plain("number" :> n3), Plain("number" :> Null),
     Plain("amount" :> m2 @@ "is_reviewed" :> TRUE)}

\* Edits of every kind of field, with and without an account to record.
EveryKind ==
    {Plain("amount" :> m2 @@ "is_reviewed" :> FALSE), Plain("number" :> n2),
     Booking("is_reviewed" :> TRUE, a1), Booking("vendor" :> v3, a2)}

NoBatches == {}
TwoLines  == {<<k1, k1>>}

\* An e-invoice with the number of the first invoice, and one with a new number.
NoEinvoices  == {}
OneEinvoice  == {[number |-> n3, vendor |-> v1, amount |-> m2]}
=============================================================================
