--------------------------- MODULE FileExtraction ---------------------------
(***************************************************************************)
(* The life of an uploaded invoice file of one tenant: upload with         *)
(* deduplication, the synchronous e-invoice path, the AI extraction (as a  *)
(* background task of the upload or triggered by hand) and the invoices    *)
(* they find, create, rename and link.                                     *)
(*                                                                         *)
(* A handler is a coroutine on one event loop with a database session of   *)
(* its own; it can be interleaved with the others at every await, so an    *)
(* action is the code between two awaits.  A flush and the commit that     *)
(* follows it are one action: under READ COMMITTED nobody sees the         *)
(* flushed rows before the commit, and a second INSERT of a unique key     *)
(* waits for the first transaction's outcome.                              *)
(*                                                                         *)
(* What the ORM session does is part of the model: an object is a copy of  *)
(* the row as it was loaded (snap), a second SELECT of the same object     *)
(* does not refresh the copy, and a flush writes only the columns whose    *)
(* value differs from the loaded one (Flushed).                            *)
(***************************************************************************)
EXTENDS Naturals, FiniteSets

CONSTANTS
    Files,       \* distinct file contents; the content is the dedup key (sha256)
    XmlFiles,    \* those uploaded with an XML mime type
    Einvoice,    \* [Files -> invoice number in the embedded e-invoice, or NoNumber]
    Numbers,     \* invoice numbers
    Unstorable,  \* numbers of invoices whose data the invoices table rejects
    Invoices,    \* primary keys of the invoices table
    Tasks,       \* request handlers in flight at the same time
    MaxTriggers, \* bound: manual extractions
    MaxCrashes,  \* bound: process crashes
    NoNumber, NoInvoice, NoRow

ASSUME ConstantsOK ==
    /\ Files # {}
    /\ XmlFiles \subseteq Files
    /\ Einvoice \in [Files -> Numbers \cup {NoNumber}]
    /\ Unstorable \subseteq Numbers
    /\ MaxTriggers \in Nat
    /\ MaxCrashes \in Nat
    /\ NoNumber \notin Numbers
    /\ NoInvoice \notin Invoices

VARIABLES
    store,      \* [Files -> absent, partial or full]: content on disk
    row,        \* [Files -> row of invoice_files, or NoRow]
    invoices,   \* [Invoices -> invoice number, or NoNumber if there is no such row]
    pc,         \* [Tasks -> where the handler is]
    snap,       \* [Tasks -> invoice_file as the handler's session loaded it]
    ctx,        \* [Tasks -> the handler's other locals]
    abandoned,  \* history: files a worker left without an outcome
    begun,      \* history: [Files -> attempts that were committed]
    triggers,   \* manual extractions so far
    crashes     \* crashes so far

db   == <<store, row, invoices>>
hist == <<abandoned, begun>>
cnt  == <<triggers, crashes>>
vars == <<store, row, invoices, pc, snap, ctx, abandoned, begun, triggers, crashes>>

-----------------------------------------------------------------------------
(* Types *)

Status == {"pending", "processing", "completed", "failed", "not_an_invoice"}

InFlight == {"pending", "processing"}

\* Error texts are told apart by their cause only.
Error == {"none", "validation", "no_invoice", "exception", "bad_xml"}

Row == [status   : Status,
        attempts : Nat,
        error    : Error,
        result   : Numbers \cup {NoNumber},
        invoice  : Invoices \cup {NoInvoice}]

ASSUME NoRowIsNoRow == NoRow \notin Row

NewRow == [status |-> "pending", attempts |-> 0, error |-> "none",
           result |-> NoNumber, invoice |-> NoInvoice]

Context == [file  : Files,
            role  : {"upload", "trigger"},
            force : BOOLEAN,
            num   : Numbers \cup {NoNumber},    \* invoice number just extracted
            lnum  : Numbers \cup {NoNumber},    \* number of the linked invoice as loaded
            found : Invoices \cup {NoInvoice}]  \* invoice the SELECT by number returned

Fresh(f, role, force) ==
    [file |-> f, role |-> role, force |-> force,
     num |-> NoNumber, lnum |-> NoNumber, found |-> NoInvoice]

UploadSteps    == {"open", "write", "insert", "refresh"}
EinvoiceSteps  == {"read", "get_linked", "by_number", "apply"}
AiSteps        == {"load", "mark", "llm", "find", "link", "refetch", "rewrite"}
\* The steps at which the task has set the file to processing.
ClaimedSteps   == {"llm", "find", "link", "refetch", "rewrite"}
Steps          == {"idle"} \cup UploadSteps \cup EinvoiceSteps \cup AiSteps

TypeOK ==
    /\ store \in [Files -> {"absent", "partial", "full"}]
    /\ row \in [Files -> Row \cup {NoRow}]
    /\ invoices \in [Invoices -> Numbers \cup {NoNumber}]
    /\ pc \in [Tasks -> Steps]
    /\ snap \in [Tasks -> Row]
    /\ ctx \in [Tasks -> Context]
    /\ abandoned \in SUBSET Files
    /\ begun \in [Files -> Nat]
    /\ triggers \in Nat
    /\ crashes \in Nat

-----------------------------------------------------------------------------
(* The database, as the handlers use it *)

HasRow(f) == row[f] # NoRow

\* SELECT ... WHERE invoice_number = n: the matching row, or none.
Holders(n) == {i \in Invoices : invoices[i] = n}
Lookup(n)  == IF Holders(n) = {} THEN {NoInvoice} ELSE Holders(n)

Free == {i \in Invoices : invoices[i] = NoNumber}

\* The row after a flush: columns changed in memory (new against old) are
\* written over the current row, the others are not in the UPDATE.
Flushed(cur, old, new) ==
    [status   |-> IF new.status   # old.status   THEN new.status   ELSE cur.status,
     attempts |-> IF new.attempts # old.attempts THEN new.attempts ELSE cur.attempts,
     error    |-> IF new.error    # old.error    THEN new.error    ELSE cur.error,
     result   |-> IF new.result   # old.result   THEN new.result   ELSE cur.result,
     invoice  |-> IF new.invoice  # old.invoice  THEN new.invoice  ELSE cur.invoice]

Commit(t, new) ==
    /\ row' = [row EXCEPT ![ctx[t].file] = Flushed(@, snap[t], new)]
    /\ snap' = [snap EXCEPT ![t] = new]

Goto(t, step) == pc' = [pc EXCEPT ![t] = step]

At(t, step) == pc[t] = step

\* What if the result, or the link, were forgotten?
CompletedWithoutResult(r, n, i) ==
    [r EXCEPT !.status = "completed", !.invoice = i, !.error = "none"]
CompletedWithoutLink(r, n, i) ==
    [r EXCEPT !.status = "completed", !.result = n, !.error = "none"]

\* The columns a successful extraction sets.
Completed(r, n, i) ==
    [r EXCEPT !.status = "completed", !.result = n, !.invoice = i, !.error = "none"]

\* What if an attempt counted twice?
CountedTwice(r) == [r EXCEPT !.attempts = @ + 2]

\* One more attempt.
Counted(r) == [r EXCEPT !.attempts = @ + 1]

Marked(r) == [Counted(r) EXCEPT !.status = "processing"]

\* What if a failure were only logged, swapped its values, or undid the link?
EndedWithoutStatus(r, status, why) == [r EXCEPT !.error = why]
EndedSwapped(r, status, why) == [r EXCEPT !.status = why, !.error = status]
EndedUnlinked(r, status, why) ==
    [r EXCEPT !.status = status, !.error = why, !.result = NoNumber, !.invoice = NoInvoice]

\* The columns an extraction without a result sets.
Ended(r, status, why) == [r EXCEPT !.status = status, !.error = why]

\* Who owes a file its outcome: a pending file, the upload that registered it;
\* a processing file, an extraction that has set it to processing.
Registers(t, f) ==
    /\ ctx[t].file = f
    /\ ctx[t].role = "upload"
    /\ pc[t] \in {"refresh", "load", "mark"} \cup EinvoiceSteps

Extracts(t, f) == ctx[t].file = f /\ pc[t] \in ClaimedSteps

\* What a handler learns on its way.
Numbered(c, n) == [c EXCEPT !.num = n]
LinkedAsExtracted(c, n) == [c EXCEPT !.lnum = c.num]  \* what if it were never renamed?
LinkedAs(c, n) == [c EXCEPT !.lnum = n]
Found(c, i)    == [c EXCEPT !.found = i]

\* A handler that has nothing left to do forgets its session and its locals.
Idle == Fresh(CHOOSE f \in Files : TRUE, "upload", FALSE)

Leave(t) ==
    /\ pc' = [pc EXCEPT ![t] = "idle"]
    /\ snap' = [snap EXCEPT ![t] = NewRow]
    /\ ctx' = [ctx EXCEPT ![t] = Idle]

\* The handler's last commit: flush the changed columns and return.
CommitAndLeave(t, new) ==
    /\ row' = [row EXCEPT ![ctx[t].file] = Flushed(@, snap[t], new)]
    /\ Leave(t)

Attempted(t) == begun' = [begun EXCEPT ![ctx[t].file] = @ + 1]

Abandon(t) == abandoned' = abandoned \cup {ctx[t].file}

-----------------------------------------------------------------------------
(* Upload: POST /invoice-files *)

\* What if the row were committed before the content is saved?
StartUploadWithRow(t, f) ==
    /\ At(t, "idle")
    /\ ~HasRow(f)
    /\ Goto(t, "insert")
    /\ ctx' = [ctx EXCEPT ![t] = Fresh(f, "upload", FALSE)]
    /\ UNCHANGED <<db, snap, hist, cnt>>

\* The deduplication check finds no row.  (When it finds one the handler
\* answers 200 and changes nothing.)
StartUpload(t, f) ==
    /\ At(t, "idle")
    /\ ~HasRow(f)
    /\ Goto(t, "open")
    /\ ctx' = [ctx EXCEPT ![t] = Fresh(f, "upload", FALSE)]
    /\ UNCHANGED <<db, snap, hist, cnt>>

\* open(dest, "wb") truncates whatever is there.
OpenForWrite(t) ==
    /\ At(t, "open")
    /\ Goto(t, "write")
    /\ store' = [store EXCEPT ![ctx[t].file] = "partial"]
    /\ UNCHANGED <<row, invoices, snap, ctx, hist, cnt>>

WriteContent(t) ==
    /\ At(t, "write")
    /\ Goto(t, "insert")
    /\ store' = [store EXCEPT ![ctx[t].file] = "full"]
    /\ UNCHANGED <<row, invoices, snap, ctx, hist, cnt>>

InsertRow(t) ==
    /\ At(t, "insert")
    /\ ~HasRow(ctx[t].file)
    /\ row' = [row EXCEPT ![ctx[t].file] = NewRow]
    /\ Goto(t, "refresh")
    /\ UNCHANGED <<store, invoices, snap, ctx, hist, cnt>>

\* Another upload of the same content registered it after this one's check:
\* the unique (tenant, sha256) violation is not handled, the client gets a 500.
InsertDuplicate(t) ==
    /\ At(t, "insert")
    /\ HasRow(ctx[t].file)
    /\ Leave(t)
    /\ UNCHANGED <<db, hist, cnt>>

RefreshRow(t) ==
    /\ At(t, "refresh")
    /\ snap' = [snap EXCEPT ![t] = row[ctx[t].file]]
    /\ Goto(t, "read")
    /\ UNCHANGED <<db, ctx, hist, cnt>>

-----------------------------------------------------------------------------
(* Manual extraction: POST /invoice-files/{id}/extract *)

StartTrigger(t, f, force) ==
    /\ At(t, "idle")
    /\ HasRow(f)
    /\ triggers < MaxTriggers
    /\ triggers' = triggers + 1
    /\ snap' = [snap EXCEPT ![t] = row[f]]
    /\ ctx' = [ctx EXCEPT ![t] = Fresh(f, "trigger", force)]
    /\ Goto(t, "read")
    /\ UNCHANGED <<db, hist, crashes>>

-----------------------------------------------------------------------------
(* The e-invoice path, awaited by both endpoints: try_extract *)

Readable(f) == store[f] = "full" /\ Einvoice[f] # NoNumber

\* The content is an e-invoice with a number.
ReadEinvoice(t) ==
    /\ At(t, "read")
    /\ Readable(ctx[t].file)
    /\ ctx' = [ctx EXCEPT ![t] = Numbered(@, Einvoice[ctx[t].file])]
    /\ Goto(t, IF snap[t].invoice = NoInvoice THEN "by_number" ELSE "get_linked")
    /\ UNCHANGED <<db, snap, hist, cnt>>

\* No e-invoice in it, or it cannot be parsed, or loading it raised: the upload
\* schedules the background extraction, the trigger falls back to the AI.
ReadNoEinvoice(t) ==
    /\ At(t, "read")
    /\ ~Readable(ctx[t].file)
    /\ \/ /\ ctx[t].role = "upload"
          /\ Goto(t, "load")
       \/ /\ ctx[t].role = "trigger"
          /\ ctx[t].file \notin XmlFiles
          /\ Goto(t, "mark")
    /\ UNCHANGED <<db, snap, ctx, hist, cnt>>

Rejected(r) == [status |-> "failed", attempts |-> r.attempts + 1, error |-> "bad_xml",
                result |-> NoNumber, invoice |-> NoInvoice]

\* A trigger on an XML file that is no e-invoice: failed, and unlinked.
RejectXml(t) ==
    /\ At(t, "read")
    /\ ~Readable(ctx[t].file)
    /\ ctx[t].role = "trigger"
    /\ ctx[t].file \in XmlFiles
    /\ CommitAndLeave(t, Rejected(snap[t]))
    /\ Attempted(t)
    /\ UNCHANGED <<store, invoices, abandoned, cnt>>

GetLinked(t) ==
    /\ At(t, "get_linked")
    /\ ctx' = [ctx EXCEPT ![t] = LinkedAs(@, invoices[snap[t].invoice])]
    /\ Goto(t, "by_number")
    /\ UNCHANGED <<db, snap, hist, cnt>>

SelectByNumber(t) ==
    /\ At(t, "by_number")
    /\ \E i \in Lookup(ctx[t].num) : ctx' = [ctx EXCEPT ![t] = Found(@, i)]
    /\ Goto(t, "apply")
    /\ UNCHANGED <<db, snap, hist, cnt>>

\* What the flush of the picked target does to the invoices: the invoice with
\* this number keeps it, otherwise the linked invoice is renamed (unless it had
\* the number when it was loaded), otherwise a new row is inserted.
Applied(t, i) ==
    LET c == ctx[t] IN
    CASE c.found # NoInvoice ->
            /\ i = c.found
            /\ UNCHANGED invoices
      [] c.found = NoInvoice /\ snap[t].invoice # NoInvoice ->
            /\ i = snap[t].invoice
            /\ invoices' = IF c.lnum = c.num THEN invoices
                           ELSE [invoices EXCEPT ![i] = c.num]
      [] OTHER ->
            /\ i \in Free
            /\ invoices' = [invoices EXCEPT ![i] = c.num]

\* The flush violates unique (tenant, invoice_number), or the data is rejected.
EinvoiceConflict(t) ==
    LET c == ctx[t] IN
    /\ c.found = NoInvoice
    /\ ~(snap[t].invoice # NoInvoice /\ c.lnum = c.num)
    /\ Holders(c.num) \ {snap[t].invoice} # {}

ApplyRefused(t) == EinvoiceConflict(t) \/ ctx[t].num \in Unstorable

ApplyEinvoice(t) ==
    /\ At(t, "apply")
    /\ ~ApplyRefused(t)
    /\ \E i \in Invoices :
          /\ Applied(t, i)
          /\ CommitAndLeave(t, Counted(Completed(snap[t], ctx[t].num, i)))
    /\ Attempted(t)
    /\ UNCHANGED <<store, abandoned, cnt>>

\* The failed flush expired invoice_file, so the except branches of try_extract
\* and of the endpoint raise again when they read its id or mime type: the
\* client gets a 500 and the upload never schedules the background extraction.
ApplyFails(t) ==
    /\ At(t, "apply")
    /\ ApplyRefused(t)
    /\ Leave(t)
    /\ IF ctx[t].role = "upload" THEN Abandon(t) ELSE UNCHANGED abandoned
    /\ UNCHANGED <<db, begun, cnt>>

-----------------------------------------------------------------------------
(* The AI extraction: ExtractionService.extract *)

\* The background task opens a session of its own and loads the row; the
\* trigger's session has it already and gets the same object again.
LoadForBackground(t) ==
    /\ At(t, "load")
    /\ snap' = [snap EXCEPT ![t] = row[ctx[t].file]]
    /\ Goto(t, "mark")
    /\ UNCHANGED <<db, ctx, hist, cnt>>

SkipCompleted(t) ==
    /\ At(t, "mark")
    /\ snap[t].status = "completed" /\ ~ctx[t].force
    /\ Leave(t)
    /\ UNCHANGED <<db, hist, cnt>>

MarkProcessing(t) ==
    /\ At(t, "mark")
    /\ ~(snap[t].status = "completed" /\ ~ctx[t].force)
    /\ Commit(t, Marked(snap[t]))
    /\ Goto(t, "llm")
    /\ Attempted(t)
    /\ abandoned' = abandoned \ {ctx[t].file}
    /\ UNCHANGED <<store, invoices, ctx, cnt>>

\* Loading, rendering or the provider raised.
ExtractionRaises(t) ==
    /\ At(t, "llm")
    /\ CommitAndLeave(t, Ended(snap[t], "failed", "exception"))
    /\ UNCHANGED <<store, invoices, hist, cnt>>

\* The answer does not validate.
AnswerInvalid(t) ==
    /\ At(t, "llm")
    /\ \/ CommitAndLeave(t, Ended(snap[t], "failed", "validation"))
       \/ CommitAndLeave(t, Ended(snap[t], "not_an_invoice", "no_invoice"))
    /\ UNCHANGED <<store, invoices, hist, cnt>>

AnswerValid(t) ==
    /\ At(t, "llm")
    /\ \E n \in Numbers : ctx' = [ctx EXCEPT ![t] = Numbered(@, n)]
    /\ Goto(t, "find")
    /\ UNCHANGED <<db, snap, hist, cnt>>

FindInvoice(t) ==
    /\ At(t, "find")
    /\ \E i \in Lookup(ctx[t].num) : ctx' = [ctx EXCEPT ![t] = Found(@, i)]
    /\ Goto(t, "link")
    /\ UNCHANGED <<db, snap, hist, cnt>>

LinkFound(t) ==
    /\ At(t, "link")
    /\ ctx[t].found # NoInvoice
    /\ CommitAndLeave(t, Completed(snap[t], ctx[t].num, ctx[t].found))
    /\ UNCHANGED <<store, invoices, hist, cnt>>

InsertAndLink(t) ==
    /\ At(t, "link")
    /\ ctx[t].found = NoInvoice
    /\ Holders(ctx[t].num) = {}
    /\ ctx[t].num \notin Unstorable
    /\ \E i \in Free :
          /\ invoices' = [invoices EXCEPT ![i] = ctx[t].num]
          /\ CommitAndLeave(t, Completed(snap[t], ctx[t].num, i))
    /\ UNCHANGED <<store, hist, cnt>>

\* The unique violation is handled: roll back (which expires the loaded row)
\* and look the invoice up again.
InsertConflict(t) ==
    /\ At(t, "link")
    /\ ctx[t].found = NoInvoice
    /\ Holders(ctx[t].num) # {}
    /\ ctx[t].num \notin Unstorable
    /\ Goto(t, "refetch")
    /\ UNCHANGED <<db, snap, ctx, hist, cnt>>

\* Any other database error leaves the session waiting for a rollback: the
\* commit of status failed raises too, and that error is only logged.
InsertRejected(t) ==
    /\ At(t, "link")
    /\ ctx[t].found = NoInvoice
    /\ ctx[t].num \in Unstorable
    /\ Leave(t)
    /\ Abandon(t)
    /\ UNCHANGED <<db, begun, cnt>>

Refetch(t) ==
    /\ At(t, "refetch")
    /\ \E i \in Lookup(ctx[t].num) : ctx' = [ctx EXCEPT ![t] = Found(@, i)]
    /\ Goto(t, "rewrite")
    /\ UNCHANGED <<db, snap, hist, cnt>>

\* After the rollback nothing is loaded, so every column that is set is written.
Rewrite(t) ==
    /\ At(t, "rewrite")
    /\ row' = [row EXCEPT ![ctx[t].file] =
                 IF ctx[t].found = NoInvoice THEN Ended(@, "failed", "exception")
                 ELSE Completed(@, ctx[t].num, ctx[t].found)]
    /\ Leave(t)
    /\ UNCHANGED <<store, invoices, hist, cnt>>

-----------------------------------------------------------------------------
(* The process dies: handlers and scheduled background tasks are lost. *)
Crash ==
    /\ crashes < MaxCrashes
    /\ crashes' = crashes + 1
    /\ abandoned' = abandoned \cup
           {f \in Files : \E t \in Tasks : Registers(t, f) \/ Extracts(t, f)}
    /\ pc' = [t \in Tasks |-> "idle"]
    /\ snap' = [t \in Tasks |-> NewRow]
    /\ ctx' = [t \in Tasks |-> Idle]
    /\ UNCHANGED <<db, begun, triggers>>

-----------------------------------------------------------------------------
Init ==
    /\ store = [f \in Files |-> "absent"]
    /\ row = [f \in Files |-> NoRow]
    /\ invoices = [i \in Invoices |-> NoNumber]
    /\ pc = [t \in Tasks |-> "idle"]
    /\ snap = [t \in Tasks |-> NewRow]
    /\ ctx = [t \in Tasks |-> Idle]
    /\ abandoned = {}
    /\ begun = [f \in Files |-> 0]
    /\ triggers = 0
    /\ crashes = 0

Request(t) ==
    \E f \in Files :
        \/ StartUpload(t, f)
        \/ \E force \in BOOLEAN : StartTrigger(t, f, force)

UploadStep(t) ==
    \/ OpenForWrite(t) \/ WriteContent(t)
    \/ InsertRow(t) \/ InsertDuplicate(t) \/ RefreshRow(t)

EinvoiceStep(t) ==
    \/ ReadEinvoice(t) \/ ReadNoEinvoice(t) \/ RejectXml(t)
    \/ GetLinked(t) \/ SelectByNumber(t)
    \/ ApplyEinvoice(t) \/ ApplyFails(t)

AiStep(t) ==
    \/ LoadForBackground(t) \/ SkipCompleted(t) \/ MarkProcessing(t)
    \/ ExtractionRaises(t) \/ AnswerInvalid(t) \/ AnswerValid(t)
    \/ FindInvoice(t) \/ LinkFound(t) \/ InsertAndLink(t)
    \/ InsertConflict(t) \/ InsertRejected(t)
    \/ Refetch(t) \/ Rewrite(t)

\* A started handler runs on: the event loop resumes it after every await.
Step(t) == UploadStep(t) \/ EinvoiceStep(t) \/ AiStep(t)

Next ==
    \/ \E t \in Tasks : Request(t) \/ Step(t)
    \/ Crash

Spec == Init /\ [][Next]_vars

FairSpec == Spec /\ \A t \in Tasks : WF_vars(Step(t))

-----------------------------------------------------------------------------
(* Safety *)

Unsettled(f) == HasRow(f) /\ row[f].status \in InFlight

\* A file that is still pending or processing is worked on: the upload that
\* registered it is still under way, or an extraction that claimed it has not
\* answered yet - unless a worker was lost or gave up.  Nothing in the code
\* sweeps such files, so this says when a client can poll a file for ever.
InFlightHasWorker ==
    \A f \in Files : HasRow(f) /\ f \notin abandoned =>
        /\ row[f].status = "pending" => \E t \in Tasks : Registers(t, f)
        /\ row[f].status = "processing" => \E t \in Tasks : Extracts(t, f)

\* A completed file shows a result and an invoice, whichever attempts wrote its
\* columns and in which order.  (XML files may be unlinked by a trigger that
\* read a truncated copy while another one completed.)
CompletedIsLinked ==
    \A f \in Files \ XmlFiles :
        HasRow(f) /\ row[f].status = "completed"
            => row[f].invoice # NoInvoice /\ row[f].result # NoNumber

\* Result and linked invoice belong together even when concurrent attempts each
\* write only the columns they changed: the number in the result is the number
\* of the linked invoice.  Stated for files without an embedded e-invoice, since
\* only the e-invoice path renames invoices.
ColumnsAgree ==
    (\A f \in Files : Einvoice[f] = NoNumber) =>
        \A f \in Files : HasRow(f) =>
            IF row[f].invoice = NoInvoice THEN row[f].result = NoNumber
            ELSE invoices[row[f].invoice] = row[f].result

\* A registered file can be read back: its content is complete on disk, except
\* while a duplicate upload that missed the deduplication check rewrites it (or
\* if it crashed there).
ContentIntact ==
    \A f \in Files :
        HasRow(f) => \/ store[f] = "full"
                     \/ /\ store[f] = "partial"
                        /\ \/ crashes > 0
                           \/ \E t \in Tasks : pc[t] = "write" /\ ctx[t].file = f

\* However attempts interleave, each counting on the row it loaded, a file never
\* shows more attempts than were made.
AttemptsEarned ==
    \A f \in Files : HasRow(f) => row[f].attempts <= begun[f]

\* Once an image or PDF is linked to an invoice it stays linked to one: failing
\* and re-extracting later never takes the link away.
LinkIsKept ==
    [][\A f \in Files \ XmlFiles :
          HasRow(f) /\ row[f].invoice # NoInvoice => row'[f].invoice # NoInvoice]_vars

\* A file whose result is its e-invoice links the invoice of that number ...
LinkAgrees(f) ==
    HasRow(f) /\ Einvoice[f] # NoNumber /\ row[f].result = Einvoice[f]
        => row[f].invoice # NoInvoice /\ invoices[row[f].invoice] = Einvoice[f]

\* Another handler has changed the result or the link since t loaded the row.
Overtaken(t) ==
    LET cur == row[ctx[t].file]
    IN  <<snap[t].result, snap[t].invoice>> # <<cur.result, cur.invoice>>

\* Files with e-invoices of different numbers rename one another's invoices.
OneNumber ==
    \A f, g \in Files :
        Einvoice[f] # NoNumber /\ Einvoice[g] # NoNumber => Einvoice[f] = Einvoice[g]

\* ... whatever the AI had linked it to before, or links concurrently.  Only a
\* handler that was overtaken between its load and its commit can break this: it
\* writes one of the two columns and keeps the other handler's value of the other.
EinvoiceLinkKept ==
    [][OneNumber =>
         \A f \in Files :
             LinkAgrees(f) /\ ~LinkAgrees(f)'
                 => \E t \in Tasks :
                        /\ ctx[t].file = f /\ Overtaken(t)
                        /\ pc[t] \in {"read", "apply", "link"} /\ pc'[t] = "idle"]_vars

(* Liveness *)

\* Every registered file gets an outcome (which ends the client's polling),
\* unless a worker abandoned it.
EventuallySettled ==
    \A f \in Files :
        Unsettled(f) ~> ~Unsettled(f) \/ f \in abandoned

-----------------------------------------------------------------------------
(* Refinement *)

\* The table as a client sees it.
ShownStatus == [f \in Files |-> IF HasRow(f) THEN row[f].status ELSE "unregistered"]
ShownLink   == [f \in Files |-> IF HasRow(f) THEN row[f].invoice ELSE NoInvoice]
Booked      == {i \in Invoices : invoices[i] # NoNumber}

Lifecycle == INSTANCE FileLifecycle
                WITH status <- ShownStatus, link <- ShownLink, booked <- Booked,
                     Embedded <- {f \in Files : Einvoice[f] # NoNumber}

\* Whatever handlers do to a file in parallel, and wherever they crash, what the
\* table shows are the steps of FileLifecycle: an invoice is created only
\* together with the link to it, a file is linked by completing it, only an XML
\* file loses its link, and no file returns to pending.
LifecycleSpec == Lifecycle!Spec

-----------------------------------------------------------------------------
(* What comments in the code say, and the code does not guarantee *)

\* "Exception crasht NIE den Caller, Status wird auf 'failed' gesetzt"
\* (extraction/service.py:8): an extraction does not end in processing.
FailureIsRecorded ==
    [][\A t \in Tasks :
          pc[t] \in ClaimedSteps /\ pc'[t] = "idle" /\ crashes' = crashes
            => row'[ctx[t].file].status # "processing"]_vars

=============================================================================
