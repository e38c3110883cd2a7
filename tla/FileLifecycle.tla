---------------------------- MODULE FileLifecycle ----------------------------
(***************************************************************************)
(* What the table of uploaded files promises to a client that polls it and *)
(* to the list of invoices: the statuses a file may take, when it gets     *)
(* and may lose its invoice, and when an invoice comes into being.  There  *)
(* are no handlers and no sessions here; FileExtraction implements this    *)
(* with interleaved handlers that each write the columns they changed.     *)
(***************************************************************************)

CONSTANTS
    Files,     \* uploaded contents
    XmlFiles,  \* those uploaded as XML
    Embedded,  \* those that carry an e-invoice
    Invoices,  \* primary keys of the invoices table
    NoInvoice

VARIABLES
    status,  \* [Files -> status shown, or unregistered]
    link,    \* [Files -> the linked invoice, or NoInvoice]
    booked   \* the invoices that exist

vars == <<status, link, booked>>

Init ==
    /\ status = [f \in Files |-> "unregistered"]
    /\ link = [f \in Files |-> NoInvoice]
    /\ booked = {}

Show(f, s) == status' = [status EXCEPT ![f] = s]

Known(f) == status[f] # "unregistered"

\* A file appears once, pending and without an invoice.
Register(f) ==
    /\ ~Known(f)
    /\ Show(f, "pending")
    /\ UNCHANGED <<link, booked>>

\* An extraction takes it up, for the first time or again.
Claim(f) ==
    /\ Known(f)
    /\ Show(f, "processing")
    /\ UNCHANGED <<link, booked>>

\* An extraction finds the file's invoice.  It exists already, or is created in
\* the same step as the link to it.  A late answer may leave the link of
\* another one in place; only the e-invoice path may leave the status too.
Complete(f, i) ==
    /\ Known(f)
    /\ Show(f, "completed") \/ (f \in Embedded /\ UNCHANGED status)
    /\ booked' = booked \cup {i}
    /\ \/ link' = [link EXCEPT ![f] = i]
       \/ i \in booked /\ UNCHANGED link
    /\ f \notin XmlFiles => link'[f] # NoInvoice

\* An extraction ends without an invoice; the file keeps the one it had.
Fail(f) ==
    /\ Known(f)
    /\ Show(f, "failed") \/ Show(f, "not_an_invoice")
    /\ UNCHANGED <<link, booked>>

\* XML that is no e-invoice loses its invoice.
Reject(f) ==
    /\ Known(f)
    /\ f \in XmlFiles
    /\ Show(f, "failed") \/ UNCHANGED status
    /\ link' = [link EXCEPT ![f] = NoInvoice] \/ UNCHANGED link
    /\ UNCHANGED booked

Next ==
    \E f \in Files :
        \/ Register(f) \/ Claim(f) \/ Fail(f) \/ Reject(f)
        \/ \E i \in Invoices : Complete(f, i)

Spec == Init /\ [][Next]_vars

=============================================================================
