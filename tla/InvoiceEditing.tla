--------------------------- MODULE InvoiceEditing ---------------------------
(***************************************************************************)
(* Editing the invoices of one tenant: PATCH /invoices/{id} with optimistic *)
(* locking and an audit trail, which may also record the vendor's account  *)
(* (VendorMappings) in the same transaction, and the e-invoice extraction  *)
(* of a file linked to the invoice, which writes the same row.             *)
(*                                                                         *)
(* A PATCH loads the row and compares versions; everything up to its flush *)
(* works on that copy.  The flush takes the row lock, which is held until  *)
(* the commit.  Without an account to record nothing happens in between,   *)
(* and flush and commit are one action; otherwise the mapping's SELECT and *)
(* write come in between, and nobody sees the flushed row before the       *)
(* commit.                                                                 *)
(***************************************************************************)
EXTENDS Naturals, Sequences, FiniteSets

CONSTANTS
    Tasks,        \* request handlers in flight at the same time
    Invoices,     \* the invoices that exist
    Numbers,      \* invoice numbers
    Vendors,      \* vendor names as written
    Amounts,      \* stands for date, amounts, currency and line items
    Users,        \* accountants
    Payloads,     \* bodies of PATCH requests that pass validation
    Einvoices,    \* what an e-invoice says: number, vendor, amount
    Initial,      \* [Invoices -> values of the invoice when it was created]
    Normalized,   \* [Vendors -> Keys]: normalize_vendor_name
    MaxEdits,     \* bound: edits and extractions
    Null, NoUser, NoAccount,
    Keys, Accounts, Default, Batches, MaxRequests, NoMapping  \* see VendorMappings

\* The audited columns.
Fields == {"number", "vendor", "amount", "is_reviewed"}

ValuesOf == [number |-> Numbers, vendor |-> Vendors, amount |-> Amounts,
             is_reviewed |-> BOOLEAN]

Value == UNION {ValuesOf[f] : f \in Fields}

Values == {v \in [Fields -> Value] : \A f \in Fields : v[f] \in ValuesOf[f]}

ASSUME EditingConstantsOK ==
    /\ Initial \in [Invoices -> Values]
    /\ \A i \in Invoices : ~Initial[i]["is_reviewed"]
    /\ Normalized \in [Vendors -> Keys]
    /\ NoUser \notin Users
    /\ NoAccount \notin Accounts
    /\ Null \notin Value
    /\ MaxEdits \in Nat
    /\ \A p \in Payloads :
          /\ DOMAIN p.changes \subseteq Fields
          /\ \A f \in DOMAIN p.changes :
                p.changes[f] \in ValuesOf[f] \cup (IF f = "is_reviewed" THEN {} ELSE {Null})
          /\ p.account \in Accounts \cup {NoAccount}
    /\ \A e \in Einvoices :
          e.number \in Numbers /\ e.vendor \in Vendors /\ e.amount \in Amounts

VARIABLES
    invoice,      \* [Invoices -> row of invoices]
    trail,        \* [Invoices -> its rows of invoice_edits]
    step,         \* [Tasks -> where the edit or extraction is]
    edit,         \* [Tasks -> its locals]
    writer,       \* history: [Invoices -> [Fields -> what wrote the field last]]
    torn,         \* history: invoices whose review an overtaken edit wrote last
    overtaken,    \* history: [Tasks -> has another handler written the row since it was loaded]
    edits,        \* edits and extractions so far
    mapping, ids, pc, session, booked, requests  \* see VendorMappings

Mappings == INSTANCE VendorMappings

\* What VendorMappings assumes of its constants.
ASSUME MappingsAssumption ==
    /\ Keys # {} /\ Accounts # {} /\ Batches \subseteq Seq(Keys)
    /\ MaxRequests \in Nat
    /\ NoMapping \notin Mappings!Row

mapvars == <<mapping, ids, pc, session, booked, requests>>
own  == <<invoice, trail, step, edit, writer, torn, overtaken, edits>>
vars == <<invoice, trail, step, edit, writer, torn, overtaken, edits,
          mapping, ids, pc, session, booked, requests>>

-----------------------------------------------------------------------------
(* Types *)

\* A review has the number of its edit in place of its time, 0 for none.
Row == [values : Values, reviewer : Users \cup {NoUser}, reviewed_at : Nat, version : Nat \ {0}]

\* The object in memory may hold a null that the table will not take.
Nullable == {v \in [Fields -> Value \cup {Null}] :
                \A f \in Fields : v[f] \in ValuesOf[f] \cup {Null}}

Object == [values : Nullable, reviewer : Users \cup {NoUser}, reviewed_at : Nat, version : Nat \ {0}]

\* created_at is the start of the transaction; BEGIN and the SELECT that is sent
\* right after it are one step.
Entry == [field : Fields, old : Value, new : Value, created_at : Nat]

Writers == {"none", "edit", "overtaken edit", "extraction"}

Edit == [at       : Nat,                       \* the order of the transactions' starts
         inv      : Invoices,
         expected : Nat,                       \* the client's version
         old      : Row,                       \* the row as loaded
         new      : Object,                    \* the object in memory
         account  : Accounts \cup {NoAccount},
         einvoice : Einvoices \cup {Null}]

Closed == [inv |-> Null]

Steps == {"idle", "flush", "record", "by_number", "apply"}

TypeOK ==
    /\ invoice \in [Invoices -> Row]
    /\ trail \in [Invoices -> SUBSET Entry]
    /\ step \in [Tasks -> Steps]
    /\ edit \in [Tasks -> Edit \cup {Closed}]
    /\ \A t \in Tasks : step[t] # "idle" => edit[t] \in Edit
    /\ writer \in [Invoices -> [Fields -> Writers]]
    /\ torn \in SUBSET Invoices
    /\ overtaken \in [Tasks -> BOOLEAN]
    /\ edits \in Nat

-----------------------------------------------------------------------------
(* Sessions, locks and the unique key *)

\* The row after a flush: only columns whose value differs from the loaded one
\* are written.
Flushed(cur, old, new) ==
    [values   |-> [f \in Fields |-> IF new.values[f] # old.values[f]
                                    THEN new.values[f] ELSE cur.values[f]],
     reviewer |-> IF new.reviewer # old.reviewer THEN new.reviewer ELSE cur.reviewer,
     reviewed_at |-> IF new.reviewed_at # old.reviewed_at THEN new.reviewed_at ELSE cur.reviewed_at,
     version  |-> IF new.version # old.version THEN new.version ELSE cur.version]

Changed(t) == {f \in Fields : edit[t].new.values[f] # edit[t].old.values[f]}

Number(i) == invoice[i].values["number"]

Takes(t) == edit[t].new.values["number"]

\* The numbers that are not free, or not known to be, before u has committed.
Holds(u) == {Number(edit[u].inv)} \cup (IF "number" \in Changed(u) THEN {Takes(u)} ELSE {})

\* The flush waits for another open transaction on the row, or one that decides
\* whether the wanted number is free.
Waits(t) ==
    \E u \in Tasks \ {t} :
        /\ step[u] = "record"
        /\ \/ edit[u].inv = edit[t].inv
           \/ "number" \in Changed(t) /\ Takes(t) \in Holds(u)

\* It fails on a null, or when the number belongs to another invoice.
Refused(t) ==
    \/ \E f \in Fields : edit[t].new.values[f] = Null
    \/ "number" \in Changed(t) /\ \E j \in Invoices \ {edit[t].inv} : Number(j) = Takes(t)

Leave(t) ==
    /\ step' = [step EXCEPT ![t] = "idle"]
    /\ edit' = [edit EXCEPT ![t] = Closed]
    /\ UNCHANGED edits

\* The commit of the flushed row.
Write(t) ==
    LET e == edit[t] IN
    /\ invoice' = [invoice EXCEPT ![e.inv] = Flushed(@, e.old, e.new)]
    /\ overtaken' = [u \in Tasks |->
                        \/ overtaken[u]
                        \/ u # t /\ edit[u].inv = e.inv /\ e.new # e.old]
    /\ Leave(t)

Rollback(t) == Leave(t) /\ UNCHANGED <<invoice, trail, writer, torn, overtaken>>

Begin(t, i, s, e) ==
    /\ step[t] = "idle" /\ pc[t] = "idle"
    /\ edits < MaxEdits
    /\ step' = [step EXCEPT ![t] = s]
    /\ edit' = [edit EXCEPT ![t] = e]
    /\ overtaken' = [overtaken EXCEPT ![t] = FALSE]
    /\ edits' = edits + 1
    /\ UNCHANGED <<invoice, trail, writer, torn>>

-----------------------------------------------------------------------------
(* PATCH /invoices/{id} *)

\* What if the withdrawal of a review left the reviewer?
EditedKeepsReviewer(r, changes, user, now) ==
    LET reviews == "is_reviewed" \in DOMAIN changes /\ changes["is_reviewed"]
    IN  [values      |-> [f \in Fields |-> IF f \in DOMAIN changes THEN changes[f] ELSE r.values[f]],
         reviewer    |-> IF reviews THEN user ELSE r.reviewer,
         reviewed_at |-> IF reviews THEN now ELSE r.reviewed_at,
         version     |-> r.version + 1]

\* update_with_audit, in memory.  is_reviewed decides reviewer and time.
Edited(r, changes, user, now) ==
    LET named == "is_reviewed" \in DOMAIN changes
    IN  [values      |-> [f \in Fields |-> IF f \in DOMAIN changes THEN changes[f] ELSE r.values[f]],
         reviewer    |-> IF ~named THEN r.reviewer ELSE IF changes["is_reviewed"] THEN user ELSE NoUser,
         reviewed_at |-> IF ~named THEN r.reviewed_at ELSE IF changes["is_reviewed"] THEN now ELSE 0,
         version     |-> r.version + 1]

\* What if the version were not compared?
LoadUnchecked(t, i, v, p, user) ==
    /\ Begin(t, i, "flush", [at |-> edits + 1, inv |-> i, expected |-> v, old |-> invoice[i],
                             new |-> Edited(invoice[i], p.changes, user, edits + 1),
                             account |-> p.account, einvoice |-> Null])
    /\ UNCHANGED mapvars

\* The version matches, or the answer is 409 and nothing happens.
Load(t, i, v, p, user) ==
    /\ v = invoice[i].version
    /\ Begin(t, i, "flush", [at |-> edits + 1, inv |-> i, expected |-> v, old |-> invoice[i],
                             new |-> Edited(invoice[i], p.changes, user, edits + 1),
                             account |-> p.account, einvoice |-> Null])
    /\ UNCHANGED mapvars

\* What if an entry were written for every field, changed or not?
LoggedAlways(t) ==
    LET e == edit[t]
    IN  {[field |-> f, old |-> e.old.values[f], new |-> e.new.values[f], created_at |-> e.at] : f \in Fields}

\* One entry per changed field: the value as loaded and the new one.
Logged(t) ==
    LET e == edit[t]
    IN  {[field |-> f, old |-> e.old.values[f], new |-> e.new.values[f], created_at |-> e.at] : f \in Changed(t)}

\* The columns of a review.
Review(r) == <<r.values["is_reviewed"], r.reviewer, r.reviewed_at>>

Writes(t, by) == writer' = [writer EXCEPT ![edit[t].inv] = [f \in Fields |-> IF f \in Changed(t) THEN by ELSE @[f]]]

Audit(t) ==
    LET e == edit[t] IN
    /\ trail' = [trail EXCEPT ![e.inv] = @ \cup Logged(t)]
    /\ Writes(t, IF overtaken[t] THEN "overtaken edit" ELSE "edit")
    /\ torn' = IF Review(e.new) = Review(e.old) THEN torn
               ELSE IF overtaken[t] THEN torn \cup {e.inv} ELSE torn \ {e.inv}

EditAndCommit(t) ==
    /\ step[t] = "flush" /\ edit[t].account = NoAccount
    /\ ~Waits(t) /\ ~Refused(t)
    /\ Write(t) /\ Audit(t)
    /\ UNCHANGED mapvars

\* The flushed row is locked; record_mapping follows for the edited vendor.
EditAndRecord(t) ==
    /\ step[t] = "flush" /\ edit[t].account # NoAccount
    /\ ~Waits(t) /\ ~Refused(t)
    /\ Mappings!StartRecord(t, Normalized[edit[t].new.values["vendor"]], edit[t].account)
    /\ step' = [step EXCEPT ![t] = "record"]
    /\ UNCHANGED <<invoice, trail, edit, writer, torn, overtaken, edits>>

EditRefused(t) ==
    /\ step[t] = "flush"
    /\ ~Waits(t) /\ Refused(t)
    /\ Rollback(t)
    /\ UNCHANGED mapvars

RecordAndCommit(t) ==
    /\ step[t] = "record"
    /\ Mappings!StoreNew(t) \/ Mappings!StoreUse(t)
    /\ Write(t) /\ Audit(t)

\* What if the transaction were left open?
RecordLeftOpen(t) ==
    /\ step[t] = "record"
    /\ Mappings!StoreFails(t)
    /\ UNCHANGED own

\* The mapping cannot be written: the edit is rolled back with it.
RecordRefused(t) ==
    /\ step[t] = "record"
    /\ Mappings!StoreFails(t)
    /\ Rollback(t)

-----------------------------------------------------------------------------
(* The e-invoice extraction of a file that is linked to invoice i *)

LoadLinked(t, i, x) ==
    /\ Begin(t, i, "by_number", [at |-> edits + 1, inv |-> i, expected |-> 0, old |-> invoice[i],
                                 new |-> invoice[i], account |-> NoAccount, einvoice |-> x])
    /\ UNCHANGED mapvars

\* _apply_invoice_fields; the number is only set on the linked invoice.
Extracted(r, x, number) ==
    [r EXCEPT !.values = [f \in Fields |->
        CASE f = "number" -> number [] f = "vendor" -> x.vendor
          [] f = "amount" -> x.amount [] f = "is_reviewed" -> r.values[f]]]

\* The invoice that has the e-invoice's number is the target, otherwise the
\* linked one is renamed.  The session returns the copy it already has.
SelectByNumber(t) ==
    LET e == edit[t]  x == e.einvoice
        holders == {j \in Invoices : Number(j) = x.number}
    IN
    /\ step[t] = "by_number"
    /\ \/ /\ holders = {}
          /\ edit' = [edit EXCEPT ![t].new = Extracted(e.old, x, x.number)]
          /\ UNCHANGED overtaken
       \/ \E j \in holders :
             LET r == IF j = e.inv THEN e.old ELSE invoice[j] IN
             /\ edit' = [edit EXCEPT ![t].inv = j, ![t].old = r,
                                     ![t].new = Extracted(r, x, r.values["number"])]
             /\ overtaken' = [overtaken EXCEPT ![t] = (j = e.inv) /\ @]
    /\ step' = [step EXCEPT ![t] = "apply"]
    /\ UNCHANGED <<invoice, trail, writer, torn, edits, mapvars>>

ApplyEinvoice(t) ==
    /\ step[t] = "apply"
    /\ ~Waits(t) /\ ~Refused(t)
    /\ Write(t)
    /\ Writes(t, "extraction")
    /\ UNCHANGED <<trail, torn, mapvars>>

ApplyFails(t) ==
    /\ step[t] = "apply"
    /\ ~Waits(t) /\ Refused(t)
    /\ Rollback(t)
    /\ UNCHANGED mapvars

-----------------------------------------------------------------------------
(* The specification *)

\* Requests on mappings that are no edits; they leave room for the edits' own.
OtherRequest(t) ==
    /\ step[t] = "idle"
    /\ requests + MaxEdits < MaxRequests
    /\ Mappings!Request(t)
    /\ UNCHANGED own

OtherStep(t) ==
    /\ \/ Mappings!Lookup(t)
       \/ step[t] = "idle" /\ Mappings!Step(t)
    /\ UNCHANGED own

Init ==
    /\ invoice = [i \in Invoices |->
                    [values |-> Initial[i], reviewer |-> NoUser, reviewed_at |-> 0, version |-> 1]]
    /\ trail = [i \in Invoices |-> {}]
    /\ step = [t \in Tasks |-> "idle"]
    /\ edit = [t \in Tasks |-> Closed]
    /\ writer = [i \in Invoices |-> [f \in Fields |-> "none"]]
    /\ torn = {}
    /\ overtaken = [t \in Tasks |-> FALSE]
    /\ edits = 0
    /\ Mappings!Init

Request(t) ==
    \/ \E i \in Invoices, v \in 1..(MaxEdits + 1), p \in Payloads, user \in Users :
          Load(t, i, v, p, user)
    \/ \E i \in Invoices, x \in Einvoices : LoadLinked(t, i, x)
    \/ OtherRequest(t)

Step(t) ==
    \/ EditAndCommit(t) \/ EditAndRecord(t) \/ EditRefused(t)
    \/ RecordAndCommit(t) \/ RecordRefused(t)
    \/ SelectByNumber(t) \/ ApplyEinvoice(t) \/ ApplyFails(t)
    \/ OtherStep(t)

Next == \E t \in Tasks : Request(t) \/ Step(t)

Spec == Init /\ [][Next]_vars

FairSpec == Spec /\ \A t \in Tasks : WF_vars(Step(t))

-----------------------------------------------------------------------------
(* Safety *)

\* The audit trail explains the row: what an edit wrote has an entry, and this is
\* the last one of the field, in the order of created_at, when nobody had written
\* the row since the edit loaded it; so it stays the last until another edit of
\* the field commits, however old the copies are from which entries and columns
\* are computed.  Only an extraction leaves no entry, and only an overtaken edit
\* may have its entry before an older one (update_with_audit).
TrailAgrees ==
    \A i \in Invoices, f \in Fields :
        LET of == {x \in trail[i] : x.field = f}
            written == {x \in of : x.new = invoice[i].values[f]}
        IN  /\ writer[i][f] = "none" => of = {} /\ invoice[i].values[f] = Initial[i][f]
            /\ writer[i][f] = "overtaken edit" => written # {}
            /\ writer[i][f] = "edit" =>
                  \E x \in written : \A y \in of \ {x} : y.created_at < x.created_at

\* The columns of a review belong together: a reviewed invoice has reviewer and
\* time, another one neither, although each column is written only when it differs
\* from what was loaded - unless an edit that was overtaken wrote one of them last
\* (update_with_audit).
ReviewAgrees ==
    \A i \in Invoices \ torn :
        /\ invoice[i].values["is_reviewed"] <=> invoice[i].reviewer # NoUser
        /\ invoice[i].values["is_reviewed"] <=> invoice[i].reviewed_at # 0

\* The edit of t commits in this step.
Commits(t) ==
    \/ step[t] = "flush" /\ step'[t] = "idle" /\ ~Refused(t)
    \/ step[t] = "record" /\ booked' # booked /\ step'[t] = "idle"

\* What the version check does guarantee: an edit whose row nobody wrote between
\* its SELECT and its commit is applied to the version the client named, raises
\* it by one, records as old values what the row held, and books the account for
\* the vendor the invoice then shows.
EditIsExact ==
    [][\A t \in Tasks : Commits(t) /\ ~overtaken[t] =>
          LET e == edit[t] IN
          /\ invoice[e.inv].version = e.expected
          /\ invoice'[e.inv].version = e.expected + 1
          /\ \A f \in Changed(t) :
                [field |-> f, old |-> invoice[e.inv].values[f], new |-> invoice'[e.inv].values[f],
                 created_at |-> e.at] \in trail'[e.inv]
          /\ step[t] = "record" =>
                session[t].key = Normalized[invoice'[e.inv].values["vendor"]]]_vars

(* Liveness *)

\* Every edit and every extraction ends: waiting for a row or for a number ends,
\* and nobody waits in a circle.
EveryEditEnds == \A t \in Tasks : step[t] # "idle" ~> step[t] = "idle"

-----------------------------------------------------------------------------
(* What the documentation says, and the code does not guarantee *)

\* "409-Konflikt bei paralleler Bearbeitung" (README.md:61): an edit commits only
\* over the version its client has seen.
ParallelEditIsRefused ==
    [][\A t \in Tasks : Commits(t) => invoice[edit[t].inv].version = edit[t].expected]_vars

=============================================================================
