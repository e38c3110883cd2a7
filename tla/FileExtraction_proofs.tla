----------------------- MODULE FileExtraction_proofs -----------------------
(***************************************************************************)
(* Proofs about FileExtraction, for any number of files, handlers,         *)
(* invoices, triggers and crashes, in three parts: its types and its       *)
(* invariants, the refinement of FileLifecycle, and the columns that       *)
(* belong together.                                                        *)
(***************************************************************************)
EXTENDS FileExtraction, TLAPS

USE DEF At, Goto, HasRow, db, hist, cnt

-----------------------------------------------------------------------------
(* Lemmas about rows and contexts *)

\* What a flush leaves behind is a row again, column by column.
LEMMA FlushedType ==
    ASSUME NEW cur \in Row, NEW old \in Row, NEW new \in Row
    PROVE  Flushed(cur, old, new) \in Row
BY DEF Flushed, Row

\* The rows that the handlers build in memory are rows.
LEMMA RowTypes ==
    /\ NewRow \in Row
    /\ \A r \in Row :
          /\ Counted(r) \in Row
          /\ Marked(r) \in Row
          /\ Rejected(r) \in Row
          /\ \A s \in Status, e \in Error : Ended(r, s, e) \in Row
          /\ \A n \in Numbers \cup {NoNumber}, i \in Invoices \cup {NoInvoice} :
                Completed(r, n, i) \in Row
<1>1. NewRow \in Row
  BY DEF Row, NewRow, Status, Error
<1> SUFFICES ASSUME NEW r \in Row
             PROVE  /\ Counted(r) \in Row
                    /\ Marked(r) \in Row
                    /\ Rejected(r) \in Row
                    /\ \A s \in Status, e \in Error : Ended(r, s, e) \in Row
                    /\ \A n \in Numbers \cup {NoNumber}, i \in Invoices \cup {NoInvoice} :
                          Completed(r, n, i) \in Row
  BY <1>1
<1>2. Counted(r) \in Row
  BY DEF Row, Counted
<1>3. Marked(r) \in Row
  BY <1>2 DEF Row, Marked, Status
<1>4. Rejected(r) \in Row
  <2>1. r.attempts + 1 \in Nat
    BY DEF Row
  <2>2. QED
    BY <2>1 DEF Row, Rejected, Status, Error
<1>5. ASSUME NEW s \in Status, NEW e \in Error PROVE Ended(r, s, e) \in Row
  BY DEF Row, Ended
<1>6. ASSUME NEW n \in Numbers \cup {NoNumber}, NEW i \in Invoices \cup {NoInvoice}
      PROVE  Completed(r, n, i) \in Row
  BY DEF Row, Completed, Status, Error
<1>7. QED
  BY <1>2, <1>3, <1>4, <1>5, <1>6

\* A started handler's locals, and those of an idle one.
LEMMA FreshType ==
    /\ \A f \in Files, b \in BOOLEAN :
          Fresh(f, "upload", b) \in Context /\ Fresh(f, "trigger", b) \in Context
    /\ Idle \in Context
<1>1. \A f \in Files, b \in BOOLEAN :
         Fresh(f, "upload", b) \in Context /\ Fresh(f, "trigger", b) \in Context
  BY DEF Fresh, Context
<1>2. (CHOOSE f \in Files : TRUE) \in Files
  BY ConstantsOK
<1>3. QED
  BY <1>1, <1>2 DEF Idle

\* Learning something leaves the rest of the locals alone.
LEMMA ContextTypes ==
    ASSUME NEW c \in Context
    PROVE  /\ \A n \in Numbers \cup {NoNumber} :
                 /\ Numbered(c, n) \in Context
                 /\ LinkedAs(c, n) \in Context
                 /\ Numbered(c, n).file = c.file /\ Numbered(c, n).role = c.role
                 /\ LinkedAs(c, n).file = c.file /\ LinkedAs(c, n).role = c.role
           /\ \A i \in Invoices \cup {NoInvoice} :
                 /\ Found(c, i) \in Context
                 /\ Found(c, i).file = c.file /\ Found(c, i).role = c.role
BY DEF Context, Numbered, LinkedAs, Found

\* The status a flush leaves behind.
LEMMA FlushedStatus ==
    ASSUME NEW cur, NEW old, NEW new
    PROVE  Flushed(cur, old, new).status =
              IF new.status # old.status THEN new.status ELSE cur.status
BY DEF Flushed

\* The status of the rows that the handlers build in memory.
LEMMA BuiltStatus ==
    ASSUME NEW r \in Row, NEW n, NEW i, NEW s, NEW e
    PROVE  /\ Completed(r, n, i).status = "completed"
           /\ Counted(Completed(r, n, i)).status = "completed"
           /\ Ended(r, s, e).status = s
           /\ Marked(r).status = "processing"
           /\ Rejected(r).status = "failed"
BY DEF Completed, Counted, Ended, Marked, Rejected, Row

\* A SELECT by number returns an invoice or nothing.
LEMMA LookupType ==
    ASSUME NEW n, NEW i \in Lookup(n)
    PROVE  /\ i \in Invoices \cup {NoInvoice}
           /\ i # NoInvoice => i \in Invoices /\ invoices[i] = n
           /\ i = NoInvoice => Holders(n) = {}
BY ConstantsOK DEF Lookup, Holders

-----------------------------------------------------------------------------
(* The inductive invariant *)

\* A handler past the INSERT works on a registered file.
Registered ==
    \A t \in Tasks :
        pc[t] \notin {"idle", "open", "write", "insert"} => HasRow(ctx[t].file)

\* The linked invoice is only fetched when there is one.
LinkLoaded ==
    \A t \in Tasks : pc[t] = "get_linked" => snap[t].invoice # NoInvoice

WellFormed == TypeOK /\ Registered /\ LinkLoaded

\* Until the INSERT a handler is an upload.
UploadRole ==
    \A t \in Tasks : pc[t] \in {"open", "write", "insert"} => ctx[t].role = "upload"

\* An extraction that claimed its file has processing in memory, so that its
\* last commit always writes the status.
ClaimLoaded ==
    \A t \in Tasks : pc[t] \in ClaimedSteps => snap[t].status = "processing"

\* A status other than pending in memory means that the row has left pending
\* for good.
PendingLoaded ==
    \A t \in Tasks :
        /\ pc[t] \in EinvoiceSteps \cup {"mark"}
        /\ row[ctx[t].file].status = "pending"
        => snap[t].status = "pending"

Owned == UploadRole /\ ClaimLoaded /\ PendingLoaded /\ InFlightHasWorker

\* The steps at which a handler knows the invoice number it works with.
NumberedSteps == {"get_linked", "by_number", "apply", "find", "link", "refetch", "rewrite"}

NumberKnown == \A t \in Tasks : pc[t] \in NumberedSteps => ctx[t].num \in Numbers

\* A row that has at least the link and the result that another one has.
Covers(r, s) ==
    /\ s.invoice # NoInvoice => r.invoice # NoInvoice
    /\ s.result # NoNumber => r.result # NoNumber

Linked(r) == r.status = "completed" => r.invoice # NoInvoice /\ r.result # NoNumber

\* What a handler loaded is still there: nobody unlinks an image or a PDF.
LoadedIsCovered ==
    \A t \in Tasks :
        /\ pc[t] \in EinvoiceSteps \cup {"mark"} \cup ClaimedSteps
        /\ ctx[t].file \notin XmlFiles
        => Covers(row[ctx[t].file], snap[t])

LinksHold ==
    /\ NumberKnown
    /\ LoadedIsCovered
    /\ \A f \in Files \ XmlFiles : HasRow(f) => Linked(row[f])

IInv == WellFormed /\ Owned /\ LinksHold

\* No image or PDF loses its link or its result in this step.
RowsAreCovered ==
    \A f \in Files \ XmlFiles : HasRow(f) => HasRow(f)' /\ Covers(row'[f], row[f])

-----------------------------------------------------------------------------
(* What the actions do, by kind *)

\* A handler that leaves is idle; nobody else notices.
LEMMA LeaveFacts ==
    ASSUME TypeOK, NEW t \in Tasks, Leave(t)
    PROVE  /\ pc' \in [Tasks -> Steps]
           /\ snap' \in [Tasks -> Row]
           /\ ctx' \in [Tasks -> Context]
           /\ pc'[t] = "idle"
           /\ \A u \in Tasks \ {t} :
                 pc'[u] = pc[u] /\ snap'[u] = snap[u] /\ ctx'[u] = ctx[u]
<1>1. "idle" \in Steps
  BY DEF Steps
<1>2. QED
  BY <1>1, RowTypes, FreshType DEF TypeOK, Leave

\* A commit writes a row over the handler's file and touches no other file.
LEMMA CommitFacts ==
    ASSUME TypeOK, NEW t \in Tasks, HasRow(ctx[t].file), NEW new \in Row,
           row' = [row EXCEPT ![ctx[t].file] = Flushed(@, snap[t], new)]
    PROVE  /\ row' \in [Files -> Row \cup {NoRow}]
           /\ row'[ctx[t].file] = Flushed(row[ctx[t].file], snap[t], new)
           /\ row'[ctx[t].file] \in Row
           /\ \A f \in Files : f # ctx[t].file => row'[f] = row[f]
           /\ \A f \in Files : HasRow(f) => HasRow(f)'
<1> DEFINE f == ctx[t].file
<1>1. f \in Files /\ row[f] \in Row /\ snap[t] \in Row
  BY DEF TypeOK, Context
<1>2. Flushed(row[f], snap[t], new) \in Row
  BY <1>1, FlushedType
<1>3. QED
  BY <1>1, <1>2, NoRowIsNoRow DEF TypeOK

\* The parts of a handler's state have their types.
LEMMA HandlerTypes ==
    ASSUME TypeOK, NEW t \in Tasks
    PROVE  /\ ctx[t] \in Context
           /\ ctx[t].file \in Files
           /\ ctx[t].num \in Numbers \cup {NoNumber}
           /\ ctx[t].found \in Invoices \cup {NoInvoice}
           /\ snap[t] \in Row
           /\ snap[t].invoice \in Invoices \cup {NoInvoice}
           /\ HasRow(ctx[t].file) => row[ctx[t].file] \in Row
BY DEF TypeOK, Context, Row

\* The actions that move a handler on and leave the database's rows alone.
Advance(t) ==
    \/ OpenForWrite(t) \/ WriteContent(t) \/ RefreshRow(t)
    \/ ReadEinvoice(t) \/ ReadNoEinvoice(t) \/ GetLinked(t) \/ SelectByNumber(t)
    \/ LoadForBackground(t) \/ AnswerValid(t) \/ FindInvoice(t)
    \/ InsertConflict(t) \/ Refetch(t)

\* From where they lead to where.
Moves ==
    {<<"open", "write">>, <<"write", "insert">>, <<"refresh", "read">>,
     <<"read", "get_linked">>, <<"read", "by_number">>, <<"read", "load">>,
     <<"read", "mark">>, <<"get_linked", "by_number">>, <<"by_number", "apply">>,
     <<"load", "mark">>, <<"llm", "find">>, <<"find", "link">>,
     <<"link", "refetch">>, <<"refetch", "rewrite">>}

\* What they have in common.
Advanced(t) ==
    /\ \E step \in Steps : Goto(t, step) /\ <<pc[t], step>> \in Moves
    /\ \A u \in Tasks \ {t} : ctx'[u] = ctx[u] /\ snap'[u] = snap[u]
    /\ ctx' \in [Tasks -> Context]
    /\ ctx'[t].file = ctx[t].file /\ ctx'[t].role = ctx[t].role
    /\ snap' \in [Tasks -> Row]
    /\ snap'[t] = IF pc[t] \in {"refresh", "load"} THEN row[ctx[t].file] ELSE snap[t]
    /\ store' \in [Files -> {"absent", "partial", "full"}]
    /\ UNCHANGED <<row, invoices, hist, cnt>>

LEMMA AdvanceFacts ==
    ASSUME WellFormed, NEW t \in Tasks, Advance(t)
    PROVE  Advanced(t)
<1>1. /\ TypeOK /\ ctx[t] \in Context /\ ctx[t].file \in Files
      /\ snap[t] \in Row /\ snap[t].invoice \in Invoices \cup {NoInvoice}
      /\ HasRow(ctx[t].file) => row[ctx[t].file] \in Row
  BY HandlerTypes DEF WellFormed
<1>2. CASE OpenForWrite(t)
  BY <1>1, <1>2
     DEF Advanced, Moves, Steps, UploadSteps, EinvoiceSteps, AiSteps, TypeOK, OpenForWrite
<1>3. CASE WriteContent(t)
  BY <1>1, <1>3
     DEF Advanced, Moves, Steps, UploadSteps, EinvoiceSteps, AiSteps, TypeOK, WriteContent
<1>4. CASE RefreshRow(t)
  BY <1>1, <1>4
     DEF Advanced, Moves, Steps, UploadSteps, EinvoiceSteps, AiSteps, TypeOK, WellFormed, Registered, RefreshRow
<1>5. CASE ReadEinvoice(t)
  BY <1>1, <1>5, ConstantsOK, ContextTypes
     DEF Advanced, Moves, Steps, UploadSteps, EinvoiceSteps, AiSteps, TypeOK, ReadEinvoice
<1>6. CASE ReadNoEinvoice(t)
  BY <1>1, <1>6
     DEF Advanced, Moves, Steps, UploadSteps, EinvoiceSteps, AiSteps, TypeOK, ReadNoEinvoice
<1>7. CASE GetLinked(t)
  BY <1>1, <1>7, ContextTypes
     DEF Advanced, Moves, Steps, UploadSteps, EinvoiceSteps, AiSteps, TypeOK, WellFormed, LinkLoaded, GetLinked
<1>8. CASE SelectByNumber(t)
  BY <1>1, <1>8, LookupType, ContextTypes
     DEF Advanced, Moves, Steps, UploadSteps, EinvoiceSteps, AiSteps, TypeOK, SelectByNumber
<1>9. CASE LoadForBackground(t)
  BY <1>1, <1>9
     DEF Advanced, Moves, Steps, UploadSteps, EinvoiceSteps, AiSteps, TypeOK, WellFormed, Registered, LoadForBackground
<1>10. CASE AnswerValid(t)
  BY <1>1, <1>10, ContextTypes
     DEF Advanced, Moves, Steps, UploadSteps, EinvoiceSteps, AiSteps, TypeOK, AnswerValid
<1>11. CASE FindInvoice(t)
  BY <1>1, <1>11, LookupType, ContextTypes
     DEF Advanced, Moves, Steps, UploadSteps, EinvoiceSteps, AiSteps, TypeOK, FindInvoice
<1>12. CASE InsertConflict(t)
  BY <1>1, <1>12
     DEF Advanced, Moves, Steps, UploadSteps, EinvoiceSteps, AiSteps, TypeOK, InsertConflict
<1>13. CASE Refetch(t)
  BY <1>1, <1>13, LookupType, ContextTypes
     DEF Advanced, Moves, Steps, UploadSteps, EinvoiceSteps, AiSteps, TypeOK, Refetch
<1>14. QED
  BY <1>2, <1>3, <1>4, <1>5, <1>6, <1>7, <1>8, <1>9, <1>10, <1>11, <1>12, <1>13 DEF Advance

\* The actions that end a handler without a commit.
Return(t) == InsertDuplicate(t) \/ ApplyFails(t) \/ SkipCompleted(t) \/ InsertRejected(t)

\* It owes the file nothing, or the file is abandoned now.
Returned(t) ==
    /\ Leave(t)
    /\ abandoned \subseteq abandoned' /\ abandoned' \in SUBSET Files
    /\ \A f \in Files \ abandoned' :
          /\ Registers(t, f) => pc[t] = "mark" /\ snap[t].status = "completed"
          /\ ~Extracts(t, f)
    /\ UNCHANGED <<db, begun, cnt>>

LEMMA ReturnFacts ==
    ASSUME WellFormed, NEW t \in Tasks, Return(t)
    PROVE  Returned(t)
<1>1. ctx[t].file \in Files /\ abandoned \in SUBSET Files
  BY HandlerTypes DEF WellFormed, TypeOK
<1>2. CASE InsertDuplicate(t)
  BY <1>1, <1>2 DEF Returned, Registers, Extracts, ClaimedSteps, EinvoiceSteps, InsertDuplicate
<1>3. CASE ApplyFails(t)
  BY <1>1, <1>3 DEF Returned, Registers, Extracts, ClaimedSteps, Abandon, ApplyFails
<1>4. CASE SkipCompleted(t)
  BY <1>1, <1>4 DEF Returned, Registers, Extracts, ClaimedSteps, SkipCompleted
<1>5. CASE InsertRejected(t)
  BY <1>1, <1>5 DEF Returned, Registers, Extracts, Abandon, InsertRejected
<1>6. QED
  BY <1>2, <1>3, <1>4, <1>5 DEF Return

\* The actions that end a handler with the commit of an outcome.
Answer(t) ==
    \/ RejectXml(t) \/ ApplyEinvoice(t)
    \/ ExtractionRaises(t) \/ AnswerInvalid(t) \/ LinkFound(t) \/ InsertAndLink(t)

\* A row in memory that sets link and result, or has them as they were loaded.
KeepsLink(old, new) ==
    \/ new.invoice # NoInvoice /\ new.result # NoNumber
    \/ new.invoice = old.invoice /\ new.result = old.result /\ new.status # "completed"

Answered(t) ==
    /\ \E new \in Row :
          /\ CommitAndLeave(t, new)
          /\ new.status \in {"completed", "failed", "not_an_invoice"}
          /\ NumberKnown /\ ctx[t].file \notin XmlFiles => KeepsLink(snap[t], new)
    /\ pc[t] \in {"read", "apply", "llm", "link"}
    /\ invoices' \in [Invoices -> Numbers \cup {NoNumber}]
    /\ begun' \in [Files -> Nat]
    /\ UNCHANGED <<store, abandoned, cnt>>

\* A completed row in memory links an invoice and carries its number.
LEMMA CompletedKeepsLink ==
    ASSUME NEW r \in Row, NEW n \in Numbers \cup {NoNumber}, NEW i \in Invoices
    PROVE  /\ Completed(r, n, i) \in Row /\ Counted(Completed(r, n, i)) \in Row
           /\ Completed(r, n, i).status = "completed"
           /\ Counted(Completed(r, n, i)).status = "completed"
           /\ n \in Numbers => /\ KeepsLink(r, Completed(r, n, i))
                               /\ KeepsLink(r, Counted(Completed(r, n, i)))
<1>1. Completed(r, n, i) \in Row /\ Counted(Completed(r, n, i)) \in Row
  BY RowTypes
<1>2. /\ Completed(r, n, i).status = "completed"
      /\ Completed(r, n, i).invoice = i /\ Completed(r, n, i).result = n
  BY DEF Completed, Row
<1>3. /\ Counted(Completed(r, n, i)).status = "completed"
      /\ Counted(Completed(r, n, i)).invoice = i /\ Counted(Completed(r, n, i)).result = n
  BY <1>1, <1>2 DEF Counted, Row
<1>4. QED
  BY <1>1, <1>2, <1>3, ConstantsOK DEF KeepsLink

\* An outcome without a result leaves link and result alone.
LEMMA EndedKeepsLink ==
    ASSUME NEW r \in Row, NEW s \in {"failed", "not_an_invoice"}, NEW e \in Error
    PROVE  Ended(r, s, e) \in Row /\ Ended(r, s, e).status = s /\ KeepsLink(r, Ended(r, s, e))
BY RowTypes DEF Ended, KeepsLink, Row, Status

LEMMA AnswerFacts ==
    ASSUME WellFormed, NEW t \in Tasks, Answer(t)
    PROVE  Answered(t)
<1>1. /\ TypeOK /\ ctx[t] \in Context /\ ctx[t].file \in Files
      /\ snap[t] \in Row /\ snap[t].invoice \in Invoices \cup {NoInvoice}
      /\ ctx[t].num \in Numbers \cup {NoNumber}
      /\ ctx[t].found \in Invoices \cup {NoInvoice}
  BY HandlerTypes DEF WellFormed
<1>2. invoices \in [Invoices -> Numbers \cup {NoNumber}] /\ begun \in [Files -> Nat]
  BY <1>1 DEF TypeOK
<1>3. Attempted(t) => begun' \in [Files -> Nat]
  BY <1>1, <1>2 DEF Attempted
<1>4. CASE RejectXml(t)
  <2>1. Rejected(snap[t]) \in Row /\ Rejected(snap[t]).status = "failed"
    BY <1>1, RowTypes DEF Rejected
  <2>2. QED
    BY <1>2, <1>3, <1>4, <2>1 DEF Answered, RejectXml
<1>5. CASE ApplyEinvoice(t)
  <2>1. PICK i \in Invoices :
           /\ Applied(t, i)
           /\ CommitAndLeave(t, Counted(Completed(snap[t], ctx[t].num, i)))
    BY <1>5 DEF ApplyEinvoice
  <2>2. NumberKnown => ctx[t].num \in Numbers
    BY <1>5 DEF NumberKnown, NumberedSteps, ApplyEinvoice
  <2>3. invoices' \in [Invoices -> Numbers \cup {NoNumber}]
    BY <1>1, <1>2, <2>1 DEF Applied
  <2>4. QED
    BY <1>1, <1>3, <1>5, <2>1, <2>2, <2>3, CompletedKeepsLink DEF Answered, ApplyEinvoice
<1>6. CASE ExtractionRaises(t)
  BY <1>1, <1>2, <1>6, EndedKeepsLink DEF Answered, Error, ExtractionRaises
<1>7. CASE AnswerInvalid(t)
  BY <1>1, <1>2, <1>7, EndedKeepsLink DEF Answered, Error, AnswerInvalid
<1>8. CASE LinkFound(t)
  <2>1. NumberKnown => ctx[t].num \in Numbers
    BY <1>8 DEF NumberKnown, NumberedSteps, LinkFound
  <2>2. QED
    BY <1>1, <1>2, <1>8, <2>1, CompletedKeepsLink DEF Answered, LinkFound
<1>9. CASE InsertAndLink(t)
  <2>1. PICK i \in Invoices : /\ invoices' = [invoices EXCEPT ![i] = ctx[t].num]
                              /\ CommitAndLeave(t, Completed(snap[t], ctx[t].num, i))
    BY <1>9 DEF InsertAndLink, Free
  <2>2. NumberKnown => ctx[t].num \in Numbers
    BY <1>9 DEF NumberKnown, NumberedSteps, InsertAndLink
  <2>3. QED
    BY <1>1, <1>2, <1>9, <2>1, <2>2, CompletedKeepsLink DEF Answered, InsertAndLink
<1>10. QED
  BY <1>4, <1>5, <1>6, <1>7, <1>8, <1>9 DEF Answer

\* The actions are the two requests, these three kinds, and three of their own.
LEMMA StepKinds ==
    ASSUME [Next]_vars
    PROVE  \/ \E t \in Tasks : \/ \E f \in Files : \/ StartUpload(t, f)
                                                   \/ \E force \in BOOLEAN : StartTrigger(t, f, force)
                               \/ Advance(t) \/ InsertRow(t) \/ Return(t) \/ Answer(t)
                               \/ MarkProcessing(t) \/ Rewrite(t)
           \/ Crash
           \/ UNCHANGED vars
BY DEF Next, Request, Step, UploadStep, EinvoiceStep, AiStep, Advance, Return, Answer

-----------------------------------------------------------------------------
(* Type correctness *)

LEMMA WellFormedInit == Init => WellFormed
<1>1. Init => TypeOK
  BY ConstantsOK, RowTypes, FreshType DEF Init, TypeOK, Steps
<1>2. Init => Registered /\ LinkLoaded
  BY DEF Init, Registered, LinkLoaded
<1>3. QED
  BY <1>1, <1>2 DEF WellFormed

\* A handler that leaves, having written its file's row or none.
LEMMA LeaveStep ==
    ASSUME WellFormed, NEW t \in Tasks, Leave(t),
           row' \in [Files -> Row \cup {NoRow}],
           \A f \in Files : HasRow(f) => HasRow(f)',
           UNCHANGED <<store, cnt>>,
           invoices' \in [Invoices -> Numbers \cup {NoNumber}],
           abandoned' \in SUBSET Files,
           begun' \in [Files -> Nat]
    PROVE  WellFormed'
<1>1. /\ pc' \in [Tasks -> Steps]
      /\ snap' \in [Tasks -> Row]
      /\ ctx' \in [Tasks -> Context]
      /\ pc'[t] = "idle"
      /\ \A u \in Tasks \ {t} :
            pc'[u] = pc[u] /\ snap'[u] = snap[u] /\ ctx'[u] = ctx[u]
  BY LeaveFacts DEF WellFormed
<1>2. TypeOK'
  BY <1>1 DEF WellFormed, TypeOK
<1>3. Registered'
  BY <1>1 DEF WellFormed, Registered, TypeOK, Context
<1>4. LinkLoaded'
  BY <1>1 DEF WellFormed, LinkLoaded
<1>5. QED
  BY <1>2, <1>3, <1>4 DEF WellFormed

\* Every step keeps the types, the rows of the registered files, and the linked
\* invoice of a handler that is about to fetch it.
LEMMA WellFormedStep == WellFormed /\ [Next]_vars => WellFormed'
<1> SUFFICES ASSUME WellFormed, [Next]_vars PROVE WellFormed'
  OBVIOUS
<1>0. TypeOK /\ Registered /\ LinkLoaded
  BY DEF WellFormed
<1>1. ASSUME NEW t \in Tasks, NEW f \in Files, StartUpload(t, f) PROVE WellFormed'
  <2>1. ctx' \in [Tasks -> Context] /\ "open" \in Steps
    BY <1>0, <1>1, FreshType DEF TypeOK, StartUpload, Steps, UploadSteps
  <2>2. TypeOK'
    BY <1>0, <1>1, <2>1 DEF TypeOK, StartUpload
  <2>3. Registered' /\ LinkLoaded'
    BY <1>0, <1>1 DEF TypeOK, Registered, LinkLoaded, StartUpload
  <2>4. QED
    BY <2>2, <2>3 DEF WellFormed
<1>2. ASSUME NEW t \in Tasks, NEW f \in Files, NEW force \in BOOLEAN,
             StartTrigger(t, f, force)
      PROVE  WellFormed'
  <2>1. ctx' \in [Tasks -> Context] /\ snap' \in [Tasks -> Row] /\ "read" \in Steps
    BY <1>0, <1>2, FreshType DEF TypeOK, StartTrigger, Steps, EinvoiceSteps
  <2>2. TypeOK'
    BY <1>0, <1>2, <2>1 DEF TypeOK, StartTrigger
  <2>3. Registered'
    BY <1>0, <1>2 DEF TypeOK, Registered, StartTrigger, Fresh
  <2>4. LinkLoaded'
    BY <1>0, <1>2 DEF TypeOK, LinkLoaded, StartTrigger
  <2>5. QED
    BY <2>2, <2>3, <2>4 DEF WellFormed
<1>3. ASSUME NEW t \in Tasks, Advance(t) PROVE WellFormed'
  <2>1. Advanced(t)
    BY <1>3, AdvanceFacts
  <2>2. TypeOK'
    BY <1>0, <2>1 DEF TypeOK, Advanced
  <2>3. Registered'
    BY <1>0, <2>1 DEF TypeOK, Registered, Advanced, Moves
  <2>4. ASSUME pc'[t] = "get_linked" PROVE snap'[t].invoice # NoInvoice
    <3>1. pc[t] = "read" /\ snap' [t] = snap[t]
      BY <1>0, <2>1, <2>4 DEF TypeOK, Advanced, Moves
    <3>2. ReadEinvoice(t)
      BY <1>0, <1>3, <2>4, <3>1
         DEF TypeOK, Advance, OpenForWrite, WriteContent, RefreshRow, ReadNoEinvoice,
             GetLinked, SelectByNumber, LoadForBackground, AnswerValid, FindInvoice,
             InsertConflict, Refetch
    <3>3. QED
      BY <1>0, <2>4, <3>1, <3>2 DEF TypeOK, ReadEinvoice
  <2>5. LinkLoaded'
    BY <1>0, <2>1, <2>4 DEF TypeOK, LinkLoaded, Advanced
  <2>6. QED
    BY <2>2, <2>3, <2>5 DEF WellFormed
<1>4. ASSUME NEW t \in Tasks, InsertRow(t) PROVE WellFormed'
  <2>1. NewRow \in Row /\ NewRow # NoRow /\ "refresh" \in Steps
    BY RowTypes, NoRowIsNoRow DEF Steps, UploadSteps
  <2>2. TypeOK'
    BY <1>0, <1>4, <2>1, HandlerTypes DEF TypeOK, InsertRow
  <2>3. Registered'
    BY <1>0, <1>4, <2>1, HandlerTypes DEF TypeOK, Registered, InsertRow
  <2>4. LinkLoaded'
    BY <1>0, <1>4 DEF TypeOK, LinkLoaded, InsertRow
  <2>5. QED
    BY <2>2, <2>3, <2>4 DEF WellFormed
<1>5. ASSUME NEW t \in Tasks, Return(t) PROVE WellFormed'
  BY <1>0, <1>5, ReturnFacts, LeaveStep DEF Returned, TypeOK
<1>6. ASSUME NEW t \in Tasks, Answer(t) PROVE WellFormed'
  <2>1. Answered(t)
    BY <1>6, AnswerFacts
  <2>2. PICK new \in Row : CommitAndLeave(t, new)
    BY <2>1 DEF Answered
  <2>3. HasRow(ctx[t].file)
    BY <1>0, <2>1 DEF Registered, Answered
  <2>4. row' \in [Files -> Row \cup {NoRow}] /\ \A f \in Files : HasRow(f) => HasRow(f)'
    BY <1>0, <2>2, <2>3, CommitFacts DEF CommitAndLeave
  <2>5. QED
    BY <1>0, <2>1, <2>2, <2>4, LeaveStep DEF TypeOK, CommitAndLeave, Answered
<1>7. ASSUME NEW t \in Tasks, MarkProcessing(t) PROVE WellFormed'
  <2>1. /\ HasRow(ctx[t].file)
        /\ Marked(snap[t]) \in Row
        /\ row' = [row EXCEPT ![ctx[t].file] = Flushed(@, snap[t], Marked(snap[t]))]
    BY <1>0, <1>7, HandlerTypes, RowTypes DEF Registered, Commit, MarkProcessing
  <2>2. row' \in [Files -> Row \cup {NoRow}] /\ \A f \in Files : HasRow(f) => HasRow(f)'
    BY <1>0, <2>1, CommitFacts
  <2>3. begun' \in [Files -> Nat] /\ "llm" \in Steps
    BY <1>0, <1>7, HandlerTypes DEF TypeOK, Attempted, MarkProcessing, Steps, AiSteps
  <2>4. TypeOK'
    BY <1>0, <1>7, <2>1, <2>2, <2>3 DEF TypeOK, Commit, MarkProcessing
  <2>5. Registered'
    BY <1>0, <1>7, <2>1, <2>2, HandlerTypes DEF TypeOK, Registered, MarkProcessing
  <2>6. LinkLoaded'
    BY <1>0, <1>7 DEF TypeOK, LinkLoaded, Commit, MarkProcessing
  <2>7. QED
    BY <2>4, <2>5, <2>6 DEF WellFormed
<1>8. ASSUME NEW t \in Tasks, Rewrite(t) PROVE WellFormed'
  <2>1. HasRow(ctx[t].file) /\ row[ctx[t].file] \in Row /\ ctx[t].file \in Files
    BY <1>0, <1>8, HandlerTypes DEF Registered, Rewrite
  <2>2. PICK new \in Row : row' = [row EXCEPT ![ctx[t].file] = new]
    BY <1>0, <1>8, <2>1, RowTypes, HandlerTypes DEF Rewrite, Status, Error
  <2>3. row' \in [Files -> Row \cup {NoRow}] /\ \A f \in Files : HasRow(f) => HasRow(f)'
    BY <1>0, <2>1, <2>2, NoRowIsNoRow DEF TypeOK
  <2>4. QED
    BY <1>0, <1>8, <2>3, LeaveStep DEF TypeOK, Rewrite
<1>9. ASSUME Crash PROVE WellFormed'
  <2>1. TypeOK'
    BY <1>0, <1>9, RowTypes, FreshType DEF TypeOK, Steps, Crash
  <2>2. Registered' /\ LinkLoaded'
    BY <1>9 DEF Registered, LinkLoaded, Crash
  <2>3. QED
    BY <2>1, <2>2 DEF WellFormed
<1>10. CASE UNCHANGED vars
  BY <1>0, <1>10 DEF WellFormed, TypeOK, Registered, LinkLoaded, vars
<1>11. QED
  BY <1>1, <1>2, <1>3, <1>4, <1>5, <1>6, <1>7, <1>8, <1>9, <1>10, StepKinds

-----------------------------------------------------------------------------
(* Files in flight have a worker *)

\* The part about the other files of a step of t: what t owes it owes its own file.
LEMMA OtherFilesHaveWorkers ==
    ASSUME InFlightHasWorker, NEW t \in Tasks,
           \A u \in Tasks \ {t} : pc'[u] = pc[u] /\ ctx'[u] = ctx[u],
           NEW f \in Files, HasRow(f), f \notin abandoned,
           row'[f] = row[f],
           Registers(t, f) /\ row[f].status = "pending" => Registers(t, f)',
           Extracts(t, f) /\ row[f].status = "processing" => Extracts(t, f)'
    PROVE  /\ row'[f].status = "pending" => \E u \in Tasks : Registers(u, f)'
           /\ row'[f].status = "processing" => \E u \in Tasks : Extracts(u, f)'
<1>1. ASSUME row[f].status = "pending" PROVE \E u \in Tasks : Registers(u, f)'
  <2>1. PICK u \in Tasks : Registers(u, f)
    BY <1>1 DEF InFlightHasWorker
  <2>2. Registers(u, f)'
    BY <1>1, <2>1 DEF Registers
  <2>3. QED
    BY <2>2
<1>2. ASSUME row[f].status = "processing" PROVE \E u \in Tasks : Extracts(u, f)'
  <2>1. PICK u \in Tasks : Extracts(u, f)
    BY <1>2 DEF InFlightHasWorker
  <2>2. Extracts(u, f)'
    BY <1>2, <2>1 DEF Extracts
  <2>3. QED
    BY <2>2
<1>3. QED
  BY <1>1, <1>2

\* A handler moves on without touching a row, and keeps what it owes.
LEMMA MovesOn ==
    ASSUME WellFormed, Owned, NEW t \in Tasks,
           \A u \in Tasks \ {t} :
              pc'[u] = pc[u] /\ ctx'[u] = ctx[u] /\ snap'[u] = snap[u],
           UNCHANGED <<row, abandoned>>,
           pc'[t] \in {"open", "write", "insert"} => ctx'[t].role = "upload",
           pc'[t] \in ClaimedSteps => snap'[t].status = "processing",
           pc'[t] \in EinvoiceSteps \cup {"mark"} /\ row[ctx'[t].file].status = "pending"
              => snap'[t].status = "pending",
           \A f \in Files \ abandoned :
              /\ Registers(t, f) /\ row[f].status = "pending" => Registers(t, f)'
              /\ Extracts(t, f) /\ row[f].status = "processing" => Extracts(t, f)'
    PROVE  Owned'
<1>1. UploadRole'
  BY DEF Owned, UploadRole
<1>2. ClaimLoaded'
  BY DEF Owned, ClaimLoaded
<1>3. PendingLoaded'
  BY DEF Owned, PendingLoaded
<1>4. ASSUME NEW f \in Files, HasRow(f)', f \notin abandoned'
      PROVE  /\ row'[f].status = "pending" => \E u \in Tasks : Registers(u, f)'
             /\ row'[f].status = "processing" => \E u \in Tasks : Extracts(u, f)'
  <2>1. Registers(t, f) /\ row[f].status = "pending" => Registers(t, f)'
    BY <1>4 DEF Registers
  <2>2. Extracts(t, f) /\ row[f].status = "processing" => Extracts(t, f)'
    BY <1>4 DEF Extracts
  <2>3. QED
    BY <1>4, <2>1, <2>2, OtherFilesHaveWorkers DEF Owned
<1>5. InFlightHasWorker'
  BY <1>4 DEF InFlightHasWorker
<1>6. QED
  BY <1>1, <1>2, <1>3, <1>5 DEF Owned

\* A handler returns without touching a row: it owed nothing, or the file is
\* abandoned now.
LEMMA Returns ==
    ASSUME WellFormed, Owned, NEW t \in Tasks, Returned(t)
    PROVE  Owned'
<1>1. /\ pc'[t] = "idle"
      /\ \A u \in Tasks \ {t} :
            pc'[u] = pc[u] /\ snap'[u] = snap[u] /\ ctx'[u] = ctx[u]
      /\ UNCHANGED row /\ abandoned \subseteq abandoned'
  BY LeaveFacts DEF WellFormed, Returned
<1>2. UploadRole'
  BY <1>1 DEF Owned, UploadRole
<1>3. ClaimLoaded'
  BY <1>1 DEF Owned, ClaimLoaded, ClaimedSteps
<1>4. PendingLoaded'
  BY <1>1 DEF Owned, PendingLoaded, EinvoiceSteps
<1>5. ASSUME NEW f \in Files, HasRow(f)', f \notin abandoned'
      PROVE  /\ row'[f].status = "pending" => \E u \in Tasks : Registers(u, f)'
             /\ row'[f].status = "processing" => \E u \in Tasks : Extracts(u, f)'
  <2>1. Registers(t, f) => row[f].status # "pending"
    BY <1>5 DEF Owned, PendingLoaded, Returned, Registers
  <2>2. ~Extracts(t, f)
    BY <1>5 DEF Returned
  <2>3. HasRow(f) /\ f \notin abandoned /\ row'[f] = row[f]
    BY <1>1, <1>5
  <2>4. QED
    BY <1>1, <2>1, <2>2, <2>3, OtherFilesHaveWorkers DEF Owned
<1>6. InFlightHasWorker'
  BY <1>5 DEF InFlightHasWorker
<1>7. QED
  BY <1>2, <1>3, <1>4, <1>6 DEF Owned

\* A handler returns having written an outcome, or having left a file that
\* another extraction claims as it was.
LEMMA Settles ==
    ASSUME WellFormed, Owned, NEW t \in Tasks, Leave(t), UNCHANGED abandoned,
           HasRow(ctx[t].file),
           \A f \in Files : f # ctx[t].file => row'[f] = row[f],
           row'[ctx[t].file].status # "pending",
           row'[ctx[t].file].status = "processing"
              => row[ctx[t].file].status = "processing" /\ pc[t] \notin ClaimedSteps
    PROVE  Owned'
<1>1. /\ pc'[t] = "idle"
      /\ \A u \in Tasks \ {t} :
            pc'[u] = pc[u] /\ snap'[u] = snap[u] /\ ctx'[u] = ctx[u]
      /\ \A u \in Tasks : ctx[u].file \in Files
  BY LeaveFacts, HandlerTypes DEF WellFormed
<1>2. UploadRole'
  BY <1>1 DEF Owned, UploadRole
<1>3. ClaimLoaded'
  BY <1>1 DEF Owned, ClaimLoaded, ClaimedSteps
<1>4. PendingLoaded'
  BY <1>1 DEF Owned, PendingLoaded, EinvoiceSteps
<1>5. ASSUME NEW f \in Files, HasRow(f)', f \notin abandoned'
      PROVE  /\ row'[f].status = "pending" => \E u \in Tasks : Registers(u, f)'
             /\ row'[f].status = "processing" => \E u \in Tasks : Extracts(u, f)'
  <2>1. CASE f = ctx[t].file
    <3>1. ASSUME row'[f].status = "processing" PROVE \E u \in Tasks : Extracts(u, f)'
      <4>1. row[f].status = "processing" /\ pc[t] \notin ClaimedSteps
        BY <2>1, <3>1
      <4>2. PICK u \in Tasks : Extracts(u, f)
        BY <1>5, <2>1, <4>1 DEF Owned, InFlightHasWorker
      <4>3. Extracts(u, f)'
        BY <1>1, <4>1, <4>2 DEF Extracts
      <4>4. QED
        BY <4>3
    <3>2. QED
      BY <2>1, <3>1
  <2>2. CASE f # ctx[t].file
    <3>1. HasRow(f) /\ f \notin abandoned /\ row'[f] = row[f]
      BY <1>5, <2>2
    <3>2. ~Registers(t, f) /\ ~Extracts(t, f)
      BY <2>2 DEF Registers, Extracts
    <3>3. QED
      BY <1>1, <3>1, <3>2, OtherFilesHaveWorkers DEF Owned
  <2>3. QED
    BY <2>1, <2>2
<1>6. InFlightHasWorker'
  BY <1>5 DEF InFlightHasWorker
<1>7. QED
  BY <1>2, <1>3, <1>4, <1>6 DEF Owned

LEMMA OwnedInit == Init => Owned
BY DEF Init, Owned, UploadRole, ClaimLoaded, PendingLoaded, InFlightHasWorker,
       ClaimedSteps, EinvoiceSteps

\* Whatever step is taken, a file in flight keeps or gets a worker.
LEMMA OwnedStep == WellFormed /\ Owned /\ [Next]_vars => Owned'
<1> SUFFICES ASSUME WellFormed, Owned, [Next]_vars PROVE Owned'
  OBVIOUS
<1>0. /\ TypeOK /\ Registered
      /\ UploadRole /\ ClaimLoaded /\ PendingLoaded /\ InFlightHasWorker
      /\ \A u \in Tasks : ctx[u].file \in Files
  BY HandlerTypes DEF WellFormed, Owned
<1>1. ASSUME NEW t \in Tasks, NEW f \in Files, StartUpload(t, f) PROVE Owned'
  <2>1. /\ \A u \in Tasks \ {t} :
              pc'[u] = pc[u] /\ ctx'[u] = ctx[u] /\ snap'[u] = snap[u]
        /\ pc'[t] = "open" /\ ctx'[t].role = "upload"
        /\ UNCHANGED <<row, abandoned>>
    BY <1>0, <1>1 DEF TypeOK, StartUpload, Fresh
  <2>2. \A g \in Files : ~Registers(t, g) /\ ~Extracts(t, g)
    BY <1>1 DEF Registers, Extracts, EinvoiceSteps, ClaimedSteps, StartUpload
  <2>3. QED
    BY <2>1, <2>2, MovesOn DEF ClaimedSteps, EinvoiceSteps
<1>2. ASSUME NEW t \in Tasks, NEW f \in Files, NEW force \in BOOLEAN,
             StartTrigger(t, f, force)
      PROVE  Owned'
  <2>1. /\ \A u \in Tasks \ {t} :
              pc'[u] = pc[u] /\ ctx'[u] = ctx[u] /\ snap'[u] = snap[u]
        /\ pc'[t] = "read" /\ ctx'[t].file = f /\ snap'[t] = row[f]
        /\ UNCHANGED <<row, abandoned>>
    BY <1>0, <1>2 DEF TypeOK, StartTrigger, Fresh
  <2>2. \A g \in Files : ~Registers(t, g) /\ ~Extracts(t, g)
    BY <1>2 DEF Registers, Extracts, EinvoiceSteps, ClaimedSteps, StartTrigger
  <2>3. QED
    BY <2>1, <2>2, MovesOn DEF ClaimedSteps, EinvoiceSteps
<1>3. ASSUME NEW t \in Tasks, Advance(t) PROVE Owned'
  <2>1. Advanced(t)
    BY <1>3, AdvanceFacts
  <2>2. /\ \A u \in Tasks \ {t} :
              pc'[u] = pc[u] /\ ctx'[u] = ctx[u] /\ snap'[u] = snap[u]
        /\ <<pc[t], pc'[t]>> \in Moves
        /\ ctx'[t].file = ctx[t].file /\ ctx'[t].role = ctx[t].role
        /\ snap'[t] = IF pc[t] \in {"refresh", "load"} THEN row[ctx[t].file] ELSE snap[t]
        /\ UNCHANGED <<row, abandoned>>
    BY <1>0, <2>1 DEF TypeOK, Advanced
  <2>3. /\ pc'[t] \in {"open", "write", "insert"} => ctx'[t].role = "upload"
        /\ pc'[t] \in ClaimedSteps => snap'[t].status = "processing"
        /\ pc'[t] \in EinvoiceSteps \cup {"mark"} /\ row[ctx'[t].file].status = "pending"
              => snap'[t].status = "pending"
    BY <1>0, <2>2 DEF Moves, UploadRole, ClaimLoaded, ClaimedSteps, PendingLoaded, EinvoiceSteps
  <2>4. pc[t] = "read" /\ pc'[t] = "mark" => ctx[t].role = "trigger"
    BY <1>0, <1>3
       DEF TypeOK, Advance, OpenForWrite, WriteContent, RefreshRow, ReadEinvoice,
           ReadNoEinvoice, GetLinked, SelectByNumber, LoadForBackground, AnswerValid,
           FindInvoice, InsertConflict, Refetch
  <2>5. ASSUME NEW f \in Files
        PROVE  /\ Registers(t, f) => Registers(t, f)'
               /\ Extracts(t, f) => Extracts(t, f)'
    BY <2>2, <2>4 DEF Registers, Extracts, Moves, EinvoiceSteps, ClaimedSteps
  <2>6. \A f \in Files \ abandoned :
           /\ Registers(t, f) /\ row[f].status = "pending" => Registers(t, f)'
           /\ Extracts(t, f) /\ row[f].status = "processing" => Extracts(t, f)'
    BY <2>5 DEF Registers, Extracts
  <2>7. QED
    BY <2>2, <2>3, <2>6, MovesOn
<1>4. ASSUME NEW t \in Tasks, InsertRow(t) PROVE Owned'
  <2>1. /\ pc'[t] = "refresh" /\ ctx[t].role = "upload" /\ pc[t] = "insert"
        /\ \A u \in Tasks \ {t} : pc'[u] = pc[u]
        /\ UNCHANGED <<ctx, snap, abandoned>>
    BY <1>0, <1>4 DEF TypeOK, UploadRole, InsertRow
  <2>2. /\ ~HasRow(ctx[t].file)
        /\ \A f \in Files : f # ctx[t].file => row'[f] = row[f]
        /\ row'[ctx[t].file].status = "pending"
    BY <1>0, <1>4 DEF TypeOK, InsertRow, NewRow
  <2>3. UploadRole' /\ ClaimLoaded'
    BY <1>0, <2>1 DEF UploadRole, ClaimLoaded, ClaimedSteps
  <2>4. PendingLoaded'
    <3>1. \A u \in Tasks \ {t} :
             pc[u] \in EinvoiceSteps \cup {"mark"} => ctx[u].file # ctx[t].file
      BY <1>0, <2>2 DEF Registered, EinvoiceSteps
    <3>2. QED
      BY <1>0, <2>1, <2>2, <3>1 DEF PendingLoaded, EinvoiceSteps
  <2>5. ASSUME NEW f \in Files, HasRow(f)', f \notin abandoned'
        PROVE  /\ row'[f].status = "pending" => \E u \in Tasks : Registers(u, f)'
               /\ row'[f].status = "processing" => \E u \in Tasks : Extracts(u, f)'
    <3>1. CASE f = ctx[t].file
      <4>1. Registers(t, f)'
        BY <2>1, <3>1 DEF Registers
      <4>2. QED
        BY <2>2, <3>1, <4>1
    <3>2. CASE f # ctx[t].file
      <4>1. row'[f] = row[f] /\ HasRow(f) /\ f \notin abandoned
        BY <2>1, <2>2, <2>5, <3>2
      <4>2. ~Registers(t, f) /\ ~Extracts(t, f)
        BY <3>2 DEF Registers, Extracts
      <4>3. \A u \in Tasks \ {t} : pc'[u] = pc[u] /\ ctx'[u] = ctx[u]
        BY <2>1
      <4>4. QED
        BY <1>0, <4>1, <4>2, <4>3, OtherFilesHaveWorkers
    <3>3. QED
      BY <3>1, <3>2
  <2>6. InFlightHasWorker'
    BY <2>5 DEF InFlightHasWorker
  <2>7. QED
    BY <2>3, <2>4, <2>6 DEF Owned
<1>5. ASSUME NEW t \in Tasks, Return(t) PROVE Owned'
  BY <1>5, ReturnFacts, Returns
<1>6. ASSUME NEW t \in Tasks, Answer(t) PROVE Owned'
  <2>1. Answered(t)
    BY <1>6, AnswerFacts
  <2>2. PICK new \in Row : /\ CommitAndLeave(t, new)
                           /\ new.status \in {"completed", "failed", "not_an_invoice"}
    BY <2>1 DEF Answered
  <2>3. HasRow(ctx[t].file) /\ Leave(t) /\ UNCHANGED abandoned
    BY <1>0, <2>1, <2>2 DEF Registered, CommitAndLeave, Answered
  <2>4. /\ \A f \in Files : f # ctx[t].file => row'[f] = row[f]
        /\ row'[ctx[t].file] = Flushed(row[ctx[t].file], snap[t], new)
    BY <1>0, <2>2, <2>3, CommitFacts DEF CommitAndLeave
  <2>5. row'[ctx[t].file].status = IF new.status # snap[t].status THEN new.status
                                   ELSE row[ctx[t].file].status
    BY <2>4, FlushedStatus
  <2>6. pc[t] \in ClaimedSteps => snap[t].status = "processing"
    BY <1>0 DEF ClaimLoaded
  <2>7. pc[t] \notin ClaimedSteps /\ row[ctx[t].file].status = "pending"
           => snap[t].status = "pending"
    BY <1>0, <2>1 DEF PendingLoaded, Answered, EinvoiceSteps, ClaimedSteps
  <2>8. row'[ctx[t].file].status # "pending"
    BY <2>2, <2>5, <2>6, <2>7
  <2>9. row'[ctx[t].file].status = "processing"
           => row[ctx[t].file].status = "processing" /\ pc[t] \notin ClaimedSteps
    BY <2>2, <2>5, <2>6
  <2>10. QED
    BY <2>3, <2>4, <2>8, <2>9, Settles
<1>7. ASSUME NEW t \in Tasks, MarkProcessing(t) PROVE Owned'
  <2>1. HasRow(ctx[t].file) /\ snap[t] \in Row /\ Marked(snap[t]) \in Row
    BY <1>0, <1>7, HandlerTypes, RowTypes DEF Registered, MarkProcessing
  <2>2. /\ pc[t] = "mark" /\ pc'[t] = "llm"
        /\ \A u \in Tasks \ {t} : pc'[u] = pc[u] /\ snap'[u] = snap[u]
        /\ snap'[t] = Marked(snap[t])
        /\ UNCHANGED ctx
    BY <1>0, <1>7 DEF TypeOK, Commit, MarkProcessing
  <2>3. /\ \A f \in Files : f # ctx[t].file => row'[f] = row[f]
        /\ row'[ctx[t].file] = Flushed(row[ctx[t].file], snap[t], Marked(snap[t]))
    BY <1>0, <1>7, <2>1, CommitFacts DEF Commit, MarkProcessing
  <2>4. Marked(snap[t]).status = "processing"
    BY <2>1, BuiltStatus
  <2>5. row'[ctx[t].file].status # "pending"
    <3>1. row'[ctx[t].file].status = IF snap[t].status # "processing" THEN "processing"
                                     ELSE row[ctx[t].file].status
      BY <2>3, <2>4, FlushedStatus
    <3>2. row[ctx[t].file].status = "pending" => snap[t].status = "pending"
      BY <1>0, <2>2 DEF PendingLoaded
    <3>3. QED
      BY <3>1, <3>2
  <2>6. UploadRole' /\ ClaimLoaded'
    BY <1>0, <2>2, <2>4 DEF UploadRole, ClaimLoaded
  <2>7. PendingLoaded'
    BY <1>0, <2>2, <2>3, <2>5 DEF PendingLoaded, EinvoiceSteps
  <2>8. ASSUME NEW f \in Files, HasRow(f)', f \notin abandoned'
        PROVE  /\ row'[f].status = "pending" => \E u \in Tasks : Registers(u, f)'
               /\ row'[f].status = "processing" => \E u \in Tasks : Extracts(u, f)'
    <3>1. CASE f = ctx[t].file
      <4>1. Extracts(t, f)'
        BY <2>2, <3>1 DEF Extracts, ClaimedSteps
      <4>2. QED
        BY <2>5, <3>1, <4>1
    <3>2. CASE f # ctx[t].file
      <4>1. row'[f] = row[f] /\ HasRow(f) /\ f \notin abandoned
        BY <1>7, <2>3, <2>8, <3>2 DEF MarkProcessing
      <4>2. ~Registers(t, f) /\ ~Extracts(t, f)
        BY <3>2 DEF Registers, Extracts
      <4>3. \A u \in Tasks \ {t} : pc'[u] = pc[u] /\ ctx'[u] = ctx[u]
        BY <2>2
      <4>4. QED
        BY <1>0, <4>1, <4>2, <4>3, OtherFilesHaveWorkers
    <3>3. QED
      BY <3>1, <3>2
  <2>9. InFlightHasWorker'
    BY <2>8 DEF InFlightHasWorker
  <2>10. QED
    BY <2>6, <2>7, <2>9 DEF Owned
<1>8. ASSUME NEW t \in Tasks, Rewrite(t) PROVE Owned'
  <2>1. HasRow(ctx[t].file) /\ row[ctx[t].file] \in Row
    BY <1>0, <1>8, HandlerTypes DEF Registered, Rewrite
  <2>2. PICK new : /\ row' = [row EXCEPT ![ctx[t].file] = new]
                   /\ new.status \in {"completed", "failed"}
    <3>1. Ended(row[ctx[t].file], "failed", "exception").status = "failed"
      BY <2>1, BuiltStatus
    <3>2. Completed(row[ctx[t].file], ctx[t].num, ctx[t].found).status = "completed"
      BY <2>1, BuiltStatus
    <3>3. QED
      BY <1>8, <3>1, <3>2 DEF Rewrite
  <2>3. /\ \A f \in Files : f # ctx[t].file => row'[f] = row[f]
        /\ row'[ctx[t].file] = new
    BY <1>0, <2>1, <2>2 DEF TypeOK
  <2>4. Leave(t) /\ UNCHANGED abandoned
    BY <1>8 DEF Rewrite
  <2>5. QED
    BY <2>1, <2>2, <2>3, <2>4, Settles
<1>9. ASSUME Crash PROVE Owned'
  <2>1. \A t \in Tasks : pc'[t] = "idle"
    BY <1>9 DEF Crash
  <2>2. UploadRole' /\ ClaimLoaded' /\ PendingLoaded'
    BY <2>1 DEF UploadRole, ClaimLoaded, PendingLoaded, ClaimedSteps, EinvoiceSteps
  <2>3. ASSUME NEW f \in Files, HasRow(f)', f \notin abandoned'
        PROVE  row'[f].status # "pending" /\ row'[f].status # "processing"
    <3>1. row'[f] = row[f] /\ HasRow(f) /\ f \notin abandoned
      BY <1>9, <2>3 DEF Crash
    <3>2. \A t \in Tasks : ~Registers(t, f) /\ ~Extracts(t, f)
      BY <1>9, <2>3 DEF Crash
    <3>3. QED
      BY <1>0, <3>1, <3>2 DEF InFlightHasWorker
  <2>4. InFlightHasWorker'
    BY <2>3 DEF InFlightHasWorker
  <2>5. QED
    BY <2>2, <2>4 DEF Owned
<1>10. CASE UNCHANGED vars
  BY <1>0, <1>10
     DEF vars, Owned, UploadRole, ClaimLoaded, PendingLoaded, InFlightHasWorker,
         Registers, Extracts
<1>11. QED
  BY <1>1, <1>2, <1>3, <1>4, <1>5, <1>6, <1>7, <1>8, <1>9, <1>10, StepKinds

-----------------------------------------------------------------------------
(* Links are kept *)

\* A flush over a row that covers what was loaded leaves a row that covers it
\* still, and links what it completes.
LEMMA FlushedLinks ==
    ASSUME NEW cur \in Row, NEW old \in Row, NEW new \in Row,
           Covers(cur, old), KeepsLink(old, new), Linked(cur)
    PROVE  LET r == Flushed(cur, old, new) IN
           /\ Covers(r, cur)
           /\ Linked(r)
<1> DEFINE r == Flushed(cur, old, new)
<1>1. /\ r.status = IF new.status # old.status THEN new.status ELSE cur.status
      /\ r.result = IF new.result # old.result THEN new.result ELSE cur.result
      /\ r.invoice = IF new.invoice # old.invoice THEN new.invoice ELSE cur.invoice
  BY DEF Flushed
<1>2. QED
  BY <1>1 DEF Covers, KeepsLink, Linked

\* What the other handlers loaded is covered after a step that writes one row.
LEMMA OthersAreCovered ==
    ASSUME WellFormed, LinksHold, RowsAreCovered, NEW u \in Tasks,
           pc'[u] = pc[u], ctx'[u] = ctx[u], snap'[u] = snap[u]
    PROVE  /\ pc'[u] \in NumberedSteps => ctx'[u].num \in Numbers
           /\ /\ pc'[u] \in EinvoiceSteps \cup {"mark"} \cup ClaimedSteps
              /\ ctx'[u].file \notin XmlFiles
              => Covers(row'[ctx'[u].file], snap'[u])
<1>1. ASSUME pc[u] \in EinvoiceSteps \cup {"mark"} \cup ClaimedSteps, ctx[u].file \notin XmlFiles
      PROVE  Covers(row'[ctx[u].file], snap[u])
  <2>1. ctx[u].file \in Files \ XmlFiles /\ HasRow(ctx[u].file)
    BY <1>1, HandlerTypes DEF WellFormed, Registered, EinvoiceSteps, ClaimedSteps
  <2>2. Covers(row[ctx[u].file], snap[u])
    BY <1>1 DEF LinksHold, LoadedIsCovered
  <2>3. Covers(row'[ctx[u].file], row[ctx[u].file])
    BY <2>1 DEF RowsAreCovered
  <2>4. QED
    BY <2>2, <2>3 DEF Covers
<1>2. QED
  BY <1>1 DEF LinksHold, NumberKnown

\* A step in which t alone moves: it has to care for its own row and locals.
LEMMA LinksStep ==
    ASSUME WellFormed, LinksHold, NEW t \in Tasks, RowsAreCovered,
           \A u \in Tasks \ {t} :
              pc'[u] = pc[u] /\ ctx'[u] = ctx[u] /\ snap'[u] = snap[u],
           \A f \in Files \ XmlFiles : HasRow(f)' => Linked(row'[f]),
           pc'[t] \in NumberedSteps => ctx'[t].num \in Numbers,
           pc'[t] \in EinvoiceSteps \cup {"mark"} \cup ClaimedSteps
              /\ ctx'[t].file \notin XmlFiles
              => Covers(row'[ctx'[t].file], snap'[t])
    PROVE  LinksHold'
<1>1. NumberKnown'
  BY OthersAreCovered DEF NumberKnown
<1>2. LoadedIsCovered'
  BY OthersAreCovered DEF LoadedIsCovered
<1>3. QED
  BY <1>1, <1>2 DEF LinksHold, Linked

\* A row covers itself.
LEMMA CoversItself == \A r : Covers(r, r)
BY DEF Covers

LEMMA LinksInit == Init => LinksHold
BY DEF Init, LinksHold, NumberKnown, LoadedIsCovered, NumberedSteps, EinvoiceSteps, ClaimedSteps

\* No step takes the link or the result of an image or a PDF away, or completes
\* one without them.
LEMMA LinksHoldStep ==
    ASSUME WellFormed, WellFormed', LinksHold, [Next]_vars
    PROVE  LinksHold' /\ RowsAreCovered
<1>0. /\ TypeOK /\ Registered /\ NumberKnown /\ LoadedIsCovered
      /\ \A f \in Files \ XmlFiles : HasRow(f) => Linked(row[f])
      /\ \A u \in Tasks : ctx[u].file \in Files
  BY HandlerTypes DEF WellFormed, LinksHold
<1>00. UNCHANGED row => RowsAreCovered
  BY CoversItself DEF RowsAreCovered
<1>1. ASSUME NEW t \in Tasks, NEW f \in Files, StartUpload(t, f)
      PROVE  LinksHold' /\ RowsAreCovered
  <2>1. /\ \A u \in Tasks \ {t} :
              pc'[u] = pc[u] /\ ctx'[u] = ctx[u] /\ snap'[u] = snap[u]
        /\ pc'[t] = "open" /\ UNCHANGED row
    BY <1>0, <1>1 DEF TypeOK, StartUpload
  <2>2. QED
    BY <1>0, <1>00, <2>1, LinksStep DEF NumberedSteps, EinvoiceSteps, ClaimedSteps
<1>2. ASSUME NEW t \in Tasks, NEW f \in Files, NEW force \in BOOLEAN,
             StartTrigger(t, f, force)
      PROVE  LinksHold' /\ RowsAreCovered
  <2>1. /\ \A u \in Tasks \ {t} :
              pc'[u] = pc[u] /\ ctx'[u] = ctx[u] /\ snap'[u] = snap[u]
        /\ pc'[t] = "read" /\ ctx'[t].file = f /\ snap'[t] = row[f] /\ UNCHANGED row
    BY <1>0, <1>2 DEF TypeOK, StartTrigger, Fresh
  <2>2. QED
    BY <1>0, <1>00, <2>1, LinksStep, CoversItself DEF NumberedSteps
<1>3. ASSUME NEW t \in Tasks, Advance(t) PROVE LinksHold' /\ RowsAreCovered
  <2>1. Advanced(t)
    BY <1>3, AdvanceFacts
  <2>2. /\ \A u \in Tasks \ {t} :
              pc'[u] = pc[u] /\ ctx'[u] = ctx[u] /\ snap'[u] = snap[u]
        /\ <<pc[t], pc'[t]>> \in Moves
        /\ ctx'[t].file = ctx[t].file
        /\ snap'[t] = IF pc[t] \in {"refresh", "load"} THEN row[ctx[t].file] ELSE snap[t]
        /\ UNCHANGED row
    BY <1>0, <2>1 DEF TypeOK, Advanced
  <2>3. pc'[t] \in NumberedSteps => ctx'[t].num \in Numbers
    <3>1. ctx[t] \in Context
      BY <1>0, HandlerTypes
    <3>2. CASE ReadEinvoice(t)
      <4>1. Einvoice[ctx[t].file] \in Numbers
        BY <1>0, <3>2, ConstantsOK DEF ReadEinvoice, Readable
      <4>2. QED
        BY <1>0, <3>1, <3>2, <4>1 DEF TypeOK, ReadEinvoice, Numbered, Context
    <3>3. CASE AnswerValid(t)
      BY <1>0, <3>1, <3>3 DEF TypeOK, AnswerValid, Numbered, Context
    <3>4. CASE GetLinked(t) \/ SelectByNumber(t) \/ FindInvoice(t) \/ InsertConflict(t) \/ Refetch(t)
      <4>1. pc[t] \in NumberedSteps
        BY <3>4
           DEF NumberedSteps, GetLinked, SelectByNumber, FindInvoice, InsertConflict, Refetch
      <4>2. ctx'[t].num = ctx[t].num
        BY <1>0, <3>1, <3>4
           DEF TypeOK, Context, LinkedAs, Found, GetLinked, SelectByNumber, FindInvoice,
               InsertConflict, Refetch
      <4>3. QED
        BY <1>0, <4>1, <4>2 DEF NumberKnown
    <3>5. CASE OpenForWrite(t) \/ WriteContent(t) \/ RefreshRow(t) \/ ReadNoEinvoice(t)
               \/ LoadForBackground(t)
      BY <1>0, <3>5
         DEF TypeOK, NumberedSteps, OpenForWrite, WriteContent, RefreshRow, ReadNoEinvoice,
             LoadForBackground
    <3>6. QED
      BY <1>3, <3>2, <3>3, <3>4, <3>5 DEF Advance
  <2>4. /\ pc'[t] \in EinvoiceSteps \cup {"mark"} \cup ClaimedSteps
        /\ ctx'[t].file \notin XmlFiles
        => Covers(row'[ctx'[t].file], snap'[t])
    BY <1>0, <2>2, CoversItself DEF LoadedIsCovered, Moves, EinvoiceSteps, ClaimedSteps
  <2>5. QED
    BY <1>0, <1>00, <2>2, <2>3, <2>4, LinksStep
<1>4. ASSUME NEW t \in Tasks, InsertRow(t) PROVE LinksHold' /\ RowsAreCovered
  <2>1. /\ \A u \in Tasks \ {t} :
              pc'[u] = pc[u] /\ ctx'[u] = ctx[u] /\ snap'[u] = snap[u]
        /\ pc'[t] = "refresh"
        /\ ~HasRow(ctx[t].file)
        /\ \A f \in Files : f # ctx[t].file => row'[f] = row[f]
        /\ row'[ctx[t].file] = NewRow
    BY <1>0, <1>4 DEF TypeOK, InsertRow
  <2>2. RowsAreCovered
    BY <2>1, CoversItself DEF RowsAreCovered
  <2>3. Linked(NewRow)
    BY DEF Linked, NewRow
  <2>4. \A f \in Files \ XmlFiles : HasRow(f)' => Linked(row'[f])
    BY <1>0, <2>1, <2>3
  <2>5. QED
    BY <2>1, <2>2, <2>4, LinksStep DEF NumberedSteps, EinvoiceSteps, ClaimedSteps
<1>5. ASSUME NEW t \in Tasks, Return(t) PROVE LinksHold' /\ RowsAreCovered
  <2>1. Leave(t) /\ UNCHANGED row
    BY <1>5, ReturnFacts DEF Returned
  <2>2. /\ pc'[t] = "idle"
        /\ \A u \in Tasks \ {t} :
              pc'[u] = pc[u] /\ ctx'[u] = ctx[u] /\ snap'[u] = snap[u]
    BY <1>0, <2>1, LeaveFacts
  <2>3. QED
    BY <1>0, <1>00, <2>1, <2>2, LinksStep DEF NumberedSteps, EinvoiceSteps, ClaimedSteps
<1>6. ASSUME NEW t \in Tasks, Answer(t) PROVE LinksHold' /\ RowsAreCovered
  <2>1. Answered(t)
    BY <1>6, AnswerFacts
  <2>2. PICK new \in Row :
           /\ CommitAndLeave(t, new)
           /\ ctx[t].file \notin XmlFiles => KeepsLink(snap[t], new)
    BY <1>0, <2>1 DEF Answered
  <2>3. HasRow(ctx[t].file) /\ pc[t] \in EinvoiceSteps \cup {"mark"} \cup ClaimedSteps
    BY <1>0, <2>1 DEF Registered, Answered, EinvoiceSteps, ClaimedSteps
  <2>4. /\ pc'[t] = "idle"
        /\ \A u \in Tasks \ {t} :
              pc'[u] = pc[u] /\ ctx'[u] = ctx[u] /\ snap'[u] = snap[u]
    BY <1>0, <2>2, LeaveFacts DEF CommitAndLeave
  <2>5. /\ \A f \in Files : f # ctx[t].file => row'[f] = row[f]
        /\ \A f \in Files : HasRow(f) => HasRow(f)'
        /\ row'[ctx[t].file] = Flushed(row[ctx[t].file], snap[t], new)
    BY <1>0, <2>2, <2>3, CommitFacts DEF CommitAndLeave
  <2>6. ctx[t].file \notin XmlFiles
           => /\ Covers(row'[ctx[t].file], row[ctx[t].file])
              /\ Linked(row'[ctx[t].file])
    <3>1. row[ctx[t].file] \in Row /\ snap[t] \in Row
      BY <1>0, <2>3, HandlerTypes
    <3>2. ctx[t].file \notin XmlFiles
             => Covers(row[ctx[t].file], snap[t]) /\ Linked(row[ctx[t].file])
      BY <1>0, <2>3 DEF LoadedIsCovered
    <3>3. QED
      BY <2>2, <2>5, <3>1, <3>2, FlushedLinks
  <2>7. RowsAreCovered
    BY <2>5, <2>6, CoversItself DEF RowsAreCovered
  <2>8. \A f \in Files \ XmlFiles : HasRow(f)' => Linked(row'[f])
    BY <1>0, <2>5, <2>6
  <2>9. QED
    BY <2>4, <2>7, <2>8, LinksStep DEF NumberedSteps, EinvoiceSteps, ClaimedSteps
<1>7. ASSUME NEW t \in Tasks, MarkProcessing(t) PROVE LinksHold' /\ RowsAreCovered
  <2>1. /\ HasRow(ctx[t].file) /\ snap[t] \in Row /\ Marked(snap[t]) \in Row
        /\ row[ctx[t].file] \in Row
    BY <1>0, <1>7, HandlerTypes, RowTypes DEF Registered, MarkProcessing
  <2>2. /\ pc[t] = "mark" /\ pc'[t] = "llm"
        /\ \A u \in Tasks \ {t} :
              pc'[u] = pc[u] /\ ctx'[u] = ctx[u] /\ snap'[u] = snap[u]
        /\ ctx'[t] = ctx[t] /\ snap'[t] = Marked(snap[t])
    BY <1>0, <1>7 DEF TypeOK, Commit, MarkProcessing
  <2>3. /\ \A f \in Files : f # ctx[t].file => row'[f] = row[f]
        /\ \A f \in Files : HasRow(f) => HasRow(f)'
        /\ row'[ctx[t].file] = Flushed(row[ctx[t].file], snap[t], Marked(snap[t]))
    BY <1>0, <1>7, <2>1, CommitFacts DEF Commit, MarkProcessing
  <2>4. /\ Marked(snap[t]).invoice = snap[t].invoice
        /\ Marked(snap[t]).result = snap[t].result
        /\ Marked(snap[t]).status = "processing"
    BY <2>1 DEF Marked, Counted, Row
  <2>5. ctx[t].file \notin XmlFiles
           => /\ Covers(row'[ctx[t].file], row[ctx[t].file])
              /\ Covers(row'[ctx[t].file], Marked(snap[t]))
              /\ Linked(row'[ctx[t].file])
    <3>1. KeepsLink(snap[t], Marked(snap[t]))
      BY <2>4 DEF KeepsLink
    <3>2. ctx[t].file \notin XmlFiles
             => Covers(row[ctx[t].file], snap[t]) /\ Linked(row[ctx[t].file])
      BY <1>0, <2>1, <2>2 DEF LoadedIsCovered
    <3>3. ctx[t].file \notin XmlFiles
             => Covers(row'[ctx[t].file], row[ctx[t].file]) /\ Linked(row'[ctx[t].file])
      BY <2>1, <2>3, <3>1, <3>2, FlushedLinks
    <3>4. QED
      BY <2>4, <3>2, <3>3 DEF Covers
  <2>6. RowsAreCovered
    BY <2>3, <2>5, CoversItself DEF RowsAreCovered
  <2>7. \A f \in Files \ XmlFiles : HasRow(f)' => Linked(row'[f])
    BY <1>0, <2>1, <2>3, <2>5
  <2>8. QED
    BY <2>2, <2>5, <2>6, <2>7, LinksStep DEF NumberedSteps
<1>8. ASSUME NEW t \in Tasks, Rewrite(t) PROVE LinksHold' /\ RowsAreCovered
  <2>1. /\ HasRow(ctx[t].file) /\ row[ctx[t].file] \in Row
        /\ ctx[t].num \in Numbers /\ ctx[t].found \in Invoices \cup {NoInvoice}
    BY <1>0, <1>8, HandlerTypes DEF Registered, NumberKnown, NumberedSteps, Rewrite
  <2>2. PICK new \in Row : /\ row' = [row EXCEPT ![ctx[t].file] = new]
                           /\ KeepsLink(row[ctx[t].file], new)
    BY <1>8, <2>1, EndedKeepsLink, CompletedKeepsLink DEF Rewrite, Error
  <2>3. /\ \A f \in Files : f # ctx[t].file => row'[f] = row[f]
        /\ row'[ctx[t].file] = new
    BY <1>0, <2>2 DEF TypeOK
  <2>4. Covers(new, row[ctx[t].file]) /\ Linked(new)
    BY <2>2 DEF KeepsLink, Covers, Linked
  <2>5. Leave(t)
    BY <1>8 DEF Rewrite
  <2>6. /\ pc'[t] = "idle"
        /\ \A u \in Tasks \ {t} :
              pc'[u] = pc[u] /\ ctx'[u] = ctx[u] /\ snap'[u] = snap[u]
    BY <1>0, <2>5, LeaveFacts
  <2>7. RowsAreCovered
    BY <2>3, <2>4, CoversItself, NoRowIsNoRow DEF RowsAreCovered
  <2>8. \A f \in Files \ XmlFiles : HasRow(f)' => Linked(row'[f])
    BY <1>0, <2>3, <2>4
  <2>9. QED
    BY <2>6, <2>7, <2>8, LinksStep DEF NumberedSteps, EinvoiceSteps, ClaimedSteps
<1>9. ASSUME Crash PROVE LinksHold' /\ RowsAreCovered
  <2>1. UNCHANGED row /\ \A t \in Tasks : pc'[t] = "idle"
    BY <1>9 DEF Crash
  <2>2. QED
    BY <1>0, <1>00, <2>1
       DEF LinksHold, NumberKnown, LoadedIsCovered, NumberedSteps, EinvoiceSteps, ClaimedSteps
<1>10. CASE UNCHANGED vars
  BY <1>00, <1>10 DEF vars, LinksHold, NumberKnown, LoadedIsCovered
<1>11. QED
  BY <1>1, <1>2, <1>3, <1>4, <1>5, <1>6, <1>7, <1>8, <1>9, <1>10, StepKinds

-----------------------------------------------------------------------------
(* The theorems *)

LEMMA Inductive == /\ Init => IInv
                   /\ IInv /\ [Next]_vars => IInv' /\ RowsAreCovered
<1>1. Init => IInv
  BY WellFormedInit, OwnedInit, LinksInit DEF IInv
<1>2. IInv /\ [Next]_vars => IInv' /\ RowsAreCovered
  BY WellFormedStep, OwnedStep, LinksHoldStep DEF IInv
<1>3. QED
  BY <1>1, <1>2

\* Every variable of the model keeps its type, with any number of files,
\* handlers, crashes and triggers.
THEOREM TypeCorrect == Spec => []TypeOK
<1>1. IInv => TypeOK
  BY DEF IInv, WellFormed
<1>2. QED
  BY <1>1, Inductive, PTL DEF Spec

\* A pending or processing file has a worker, unless one was lost or gave up:
\* the code that writes the statuses never drops a file by itself.
THEOREM InFlightCorrect == Spec => []InFlightHasWorker
<1>1. IInv => InFlightHasWorker
  BY DEF IInv, Owned
<1>2. QED
  BY <1>1, Inductive, PTL DEF Spec

\* A completed image or PDF has a result and an invoice, however the column
\* updates of concurrent extractions fall.
THEOREM CompletedCorrect == Spec => []CompletedIsLinked
<1>1. IInv => CompletedIsLinked
  BY DEF IInv, LinksHold, Linked, CompletedIsLinked
<1>2. QED
  BY <1>1, Inductive, PTL DEF Spec

\* Once an image or PDF is linked to an invoice it stays linked.
THEOREM LinkKept == Spec => LinkIsKept
<1>1. RowsAreCovered => \A f \in Files \ XmlFiles :
                           HasRow(f) /\ row[f].invoice # NoInvoice => row'[f].invoice # NoInvoice
  BY DEF RowsAreCovered, Covers
<1>2. QED
  BY <1>1, Inductive, PTL DEF Spec, LinkIsKept

-----------------------------------------------------------------------------
(***************************************************************************)
(* FileExtraction implements FileLifecycle: every step of the handlers is  *)
(* one of its steps, or changes nothing that a client sees.                *)
(***************************************************************************)

-----------------------------------------------------------------------------
(* The invariant of the refinement *)

\* Invoices are never deleted, so whatever a row, a session or a handler knows
\* of them is still there.
BooksHold ==
    /\ \A f \in Files : HasRow(f) => row[f].invoice \in Booked \cup {NoInvoice}
    /\ \A t \in Tasks :
          /\ snap[t].invoice \in Booked \cup {NoInvoice}
          /\ ctx[t].found \in Booked \cup {NoInvoice}

\* Only a file with an e-invoice gets to the steps that apply one.
EinvoiceKnown ==
    \A t \in Tasks :
        pc[t] \in {"get_linked", "by_number", "apply"} => Einvoice[ctx[t].file] # NoNumber

RInv == IInv /\ BooksHold /\ EinvoiceKnown

-----------------------------------------------------------------------------
(* What the steps write *)

\* What a handler's last commit says about the file and its invoice.
Outcome(t, new) ==
    \/ \E i \in Invoices :
          /\ new.status = "completed" /\ new.invoice = i
          /\ Booked' = Booked \cup {i}
          /\ i \in Booked \/ snap[t].invoice # i
          /\ snap[t].status = "processing" \/ Einvoice[ctx[t].file] # NoNumber
    \/ /\ new.status \in {"failed", "not_an_invoice"}
       /\ new.invoice = snap[t].invoice
       /\ snap[t].status = "processing"
       /\ Booked' = Booked
    \/ /\ new.status = "failed" /\ new.invoice = NoInvoice
       /\ ctx[t].file \in XmlFiles
       /\ Booked' = Booked

\* The columns that decide what is shown.
LEMMA BuiltColumns ==
    ASSUME NEW r \in Row, NEW n, NEW i, NEW s, NEW e
    PROVE  /\ Completed(r, n, i).status = "completed"
           /\ Completed(r, n, i).invoice = i
           /\ Counted(Completed(r, n, i)).status = "completed"
           /\ Counted(Completed(r, n, i)).invoice = i
           /\ Ended(r, s, e).status = s
           /\ Ended(r, s, e).invoice = r.invoice
           /\ Marked(r).status = "processing"
           /\ Marked(r).invoice = r.invoice
           /\ Rejected(r).status = "failed"
           /\ Rejected(r).invoice = NoInvoice
BY DEF Completed, Counted, Ended, Marked, Rejected, Row

\* Writing a number over one invoice books it and leaves the others booked.
LEMMA BookedBy ==
    ASSUME TypeOK, NEW i \in Invoices, NEW n \in Numbers,
           invoices' = [invoices EXCEPT ![i] = n]
    PROVE  Booked' = Booked \cup {i}
BY ConstantsOK DEF Booked, TypeOK

LEMMA AnswerOutcome ==
    ASSUME RInv, NEW t \in Tasks, Answer(t)
    PROVE  \E new \in Row : CommitAndLeave(t, new) /\ Outcome(t, new)
<1>1. /\ TypeOK /\ NumberKnown /\ ClaimLoaded
      /\ snap[t] \in Row /\ ctx[t].file \in Files
      /\ ctx[t].num \in Numbers \cup {NoNumber}
      /\ ctx[t].found \in Booked \cup {NoInvoice}
      /\ snap[t].invoice \in Booked \cup {NoInvoice}
  BY HandlerTypes DEF RInv, IInv, WellFormed, Owned, LinksHold, BooksHold
<1>2. Booked \subseteq Invoices /\ NoInvoice \notin Invoices
  BY ConstantsOK DEF Booked
<1>3. pc[t] \in ClaimedSteps => snap[t].status = "processing"
  BY <1>1 DEF ClaimLoaded
<1>4. invoices' = invoices => Booked' = Booked
  BY DEF Booked
<1>5. ASSUME NEW s \in {"failed", "not_an_invoice"}, NEW e \in Error,
              CommitAndLeave(t, Ended(snap[t], s, e)),
              snap[t].status = "processing", Booked' = Booked
       PROVE  \E new \in Row : CommitAndLeave(t, new) /\ Outcome(t, new)
  <2>1. /\ Ended(snap[t], s, e) \in Row
        /\ Ended(snap[t], s, e).status = s
        /\ Ended(snap[t], s, e).invoice = snap[t].invoice
    BY <1>1, EndedKeepsLink DEF Ended, Row
  <2>2. QED
    BY <1>5, <2>1 DEF Outcome
<1>6. CASE RejectXml(t)
  BY <1>1, <1>4, <1>6, RowTypes, BuiltColumns DEF RejectXml, Outcome
<1>7. CASE ApplyEinvoice(t)
  <2>1. PICK i \in Invoices :
           /\ Applied(t, i)
           /\ CommitAndLeave(t, Counted(Completed(snap[t], ctx[t].num, i)))
    BY <1>7 DEF ApplyEinvoice
  <2>2. ctx[t].num \in Numbers /\ Einvoice[ctx[t].file] # NoNumber
    BY <1>1, <1>7 DEF RInv, EinvoiceKnown, NumberKnown, NumberedSteps, ApplyEinvoice
  <2>3. /\ Booked' = Booked \cup {i}
        /\ i \in Booked \/ snap[t].invoice # i
    <3>1. CASE ctx[t].found # NoInvoice
      BY <1>1, <1>4, <2>1, <3>1 DEF Applied
    <3>2. CASE ctx[t].found = NoInvoice /\ snap[t].invoice # NoInvoice
      BY <1>1, <1>4, <2>1, <2>2, <3>2, BookedBy DEF Applied
    <3>3. CASE ctx[t].found = NoInvoice /\ snap[t].invoice = NoInvoice
      BY <1>1, <1>2, <2>1, <2>2, <3>3, BookedBy DEF Applied
    <3>4. QED
      BY <3>1, <3>2, <3>3
  <2>4. Counted(Completed(snap[t], ctx[t].num, i)) \in Row
    BY <1>1, CompletedKeepsLink
  <2>5. QED
    BY <1>1, <2>1, <2>2, <2>3, <2>4, BuiltColumns DEF Outcome
<1>8. CASE ExtractionRaises(t)
  <2>1. /\ CommitAndLeave(t, Ended(snap[t], "failed", "exception"))
        /\ snap[t].status = "processing" /\ Booked' = Booked
    BY <1>3, <1>4, <1>8 DEF ExtractionRaises, ClaimedSteps
  <2>2. QED
    BY <2>1, <1>5 DEF Error
<1>9. CASE AnswerInvalid(t)
  <2>1. /\ \/ CommitAndLeave(t, Ended(snap[t], "failed", "validation"))
           \/ CommitAndLeave(t, Ended(snap[t], "not_an_invoice", "no_invoice"))
        /\ snap[t].status = "processing" /\ Booked' = Booked
    BY <1>3, <1>4, <1>9 DEF AnswerInvalid, ClaimedSteps
  <2>2. QED
    BY <2>1, <1>5 DEF Error
<1>10. CASE LinkFound(t)
  <2>1. ctx[t].found \in Booked /\ ctx[t].found \in Invoices
    BY <1>1, <1>2, <1>10 DEF LinkFound
  <2>2. Completed(snap[t], ctx[t].num, ctx[t].found) \in Row
    BY <1>1, <2>1, CompletedKeepsLink
  <2>3. /\ CommitAndLeave(t, Completed(snap[t], ctx[t].num, ctx[t].found))
        /\ snap[t].status = "processing" /\ Booked' = Booked
    BY <1>3, <1>4, <1>10 DEF LinkFound, ClaimedSteps
  <2>4. /\ Completed(snap[t], ctx[t].num, ctx[t].found).status = "completed"
        /\ Completed(snap[t], ctx[t].num, ctx[t].found).invoice = ctx[t].found
    BY <1>1, BuiltColumns
  <2>5. QED
    BY <2>1, <2>2, <2>3, <2>4 DEF Outcome
<1>11. CASE InsertAndLink(t)
  <2>1. PICK i \in Free :
           /\ invoices' = [invoices EXCEPT ![i] = ctx[t].num]
           /\ CommitAndLeave(t, Completed(snap[t], ctx[t].num, i))
    BY <1>11 DEF InsertAndLink
  <2>2. ctx[t].num \in Numbers /\ i \in Invoices /\ i \notin Booked
    BY <1>1, <1>11, <2>1 DEF NumberKnown, NumberedSteps, InsertAndLink, Free, Booked
  <2>3. Booked' = Booked \cup {i} /\ snap[t].invoice # i
    BY <1>1, <1>2, <2>1, <2>2, BookedBy
  <2>4. Completed(snap[t], ctx[t].num, i) \in Row
    BY <1>1, <2>2, CompletedKeepsLink
  <2>5. QED
    BY <1>1, <1>3, <1>11, <2>1, <2>2, <2>3, <2>4, BuiltColumns
       DEF InsertAndLink, Outcome, ClaimedSteps
<1>12. QED
  BY <1>6, <1>7, <1>8, <1>9, <1>10, <1>11 DEF Answer

-----------------------------------------------------------------------------
(* The invariant is inductive *)

\* A step that books more, writes only rows with booked invoices and loads
\* only what is booked keeps the references.
LEMMA BooksStep ==
    ASSUME BooksHold, NEW t \in Tasks,
           Booked \subseteq Booked',
           \A f \in Files :
               HasRow(f)' => \/ HasRow(f) /\ row'[f].invoice = row[f].invoice
                            \/ row'[f].invoice \in Booked' \cup {NoInvoice},
           \A u \in Tasks \ {t} : snap'[u] = snap[u] /\ ctx'[u] = ctx[u],
           snap'[t].invoice \in Booked' \cup {NoInvoice},
           ctx'[t].found \in Booked' \cup {NoInvoice}
    PROVE  BooksHold'
BY DEF BooksHold

\* An invoice that a SELECT by number finds is booked.
LEMMA LookupBooked ==
    ASSUME NEW n \in Numbers, NEW i \in Lookup(n)
    PROVE  i \in Booked \cup {NoInvoice}
BY ConstantsOK, LookupType DEF Booked

\* An idle handler, and one that has just started, knows no invoice.
LEMMA FreshFound ==
    /\ NewRow.invoice = NoInvoice
    /\ Idle.found = NoInvoice
    /\ \A f, r, b : Fresh(f, r, b).found = NoInvoice
BY DEF NewRow, Idle, Fresh

\* What a handler learns does not touch the invoice it found.
LEMMA LearnedFound ==
    ASSUME NEW c \in Context, NEW n, NEW i
    PROVE  /\ Numbered(c, n).found = c.found
           /\ LinkedAs(c, n).found = c.found
           /\ Found(c, i).found = i
BY DEF Context, Numbered, LinkedAs, Found

\* A flush leaves the invoice of the row or writes the one in memory.
LEMMA FlushedInvoice ==
    ASSUME NEW cur, NEW old, NEW new
    PROVE  Flushed(cur, old, new).invoice =
              IF new.invoice # old.invoice THEN new.invoice ELSE cur.invoice
BY DEF Flushed

LEMMA AdvancedBooks ==
    ASSUME RInv, NEW t \in Tasks, Advance(t)
    PROVE  BooksHold'
<1>1. /\ WellFormed /\ NumberKnown /\ BooksHold /\ ctx[t] \in Context
      /\ ctx[t].found \in Booked \cup {NoInvoice}
      /\ snap[t].invoice \in Booked \cup {NoInvoice}
  BY HandlerTypes DEF RInv, IInv, WellFormed, LinksHold, BooksHold
<1>2. Advanced(t)
  BY <1>1, AdvanceFacts
<1>3. UNCHANGED row /\ Booked' = Booked
  BY <1>2 DEF Advanced, Booked
<1>4. snap'[t].invoice \in Booked' \cup {NoInvoice}
  <2>1. pc[t] \in {"refresh", "load"} => HasRow(ctx[t].file) /\ ctx[t].file \in Files
    BY <1>1, HandlerTypes DEF WellFormed, Registered
  <2>2. QED
    BY <1>1, <1>2, <1>3, <2>1 DEF Advanced, BooksHold
<1>5. ctx'[t].found \in Booked' \cup {NoInvoice}
  <2>0. ctx \in [Tasks -> Context]
    BY <1>1 DEF WellFormed, TypeOK
  <2>1. CASE SelectByNumber(t) \/ FindInvoice(t) \/ Refetch(t)
    <3>1. ctx[t].num \in Numbers
      BY <1>1, <2>1 DEF NumberKnown, NumberedSteps, SelectByNumber, FindInvoice, Refetch
    <3>2. PICK i \in Lookup(ctx[t].num) : ctx' = [ctx EXCEPT ![t] = Found(@, i)]
      BY <2>1 DEF SelectByNumber, FindInvoice, Refetch
    <3>3. ctx'[t].found = i
      BY <1>1, <2>0, <3>2, LearnedFound
    <3>4. QED
      BY <1>3, <3>1, <3>3, LookupBooked
  <2>2. CASE ReadEinvoice(t) \/ AnswerValid(t)
    <3>1. PICK n : ctx' = [ctx EXCEPT ![t] = Numbered(@, n)]
      BY <2>2 DEF ReadEinvoice, AnswerValid
    <3>2. QED
      BY <1>1, <1>3, <2>0, <3>1, LearnedFound
  <2>3. CASE GetLinked(t)
    <3>1. PICK n : ctx' = [ctx EXCEPT ![t] = LinkedAs(@, n)]
      BY <2>3 DEF GetLinked
    <3>2. QED
      BY <1>1, <1>3, <2>0, <3>1, LearnedFound
  <2>4. CASE UNCHANGED ctx
    BY <1>1, <1>3, <2>4
  <2>5. QED
    BY <2>1, <2>2, <2>3, <2>4
       DEF Advance, OpenForWrite, WriteContent, RefreshRow, ReadNoEinvoice,
           LoadForBackground, InsertConflict
<1>6. \A u \in Tasks \ {t} : snap'[u] = snap[u] /\ ctx'[u] = ctx[u]
  BY <1>2 DEF Advanced
<1>7. QED
  BY <1>1, <1>3, <1>4, <1>5, <1>6, BooksStep DEF BooksHold

LEMMA BooksInit == Init => RInv
<1>1. Init => IInv
  BY Inductive
<1>2. Init => BooksHold /\ EinvoiceKnown
  BY FreshFound, NoRowIsNoRow DEF Init, BooksHold, EinvoiceKnown
<1>3. QED
  BY <1>1, <1>2 DEF RInv

\* Nobody but the e-invoice path goes to the steps that apply an e-invoice.
LEMMA EinvoiceKnownStep ==
    ASSUME RInv, [Next]_vars
    PROVE  EinvoiceKnown'
<1>1. WellFormed /\ TypeOK /\ EinvoiceKnown
  BY DEF RInv, IInv, WellFormed
<1>2. ASSUME NEW t \in Tasks,
             \A u \in Tasks \ {t} : pc'[u] = pc[u] /\ ctx'[u] = ctx[u],
             pc'[t] \notin {"get_linked", "by_number", "apply"}
      PROVE  EinvoiceKnown'
  BY <1>1, <1>2 DEF EinvoiceKnown
<1>3. ASSUME NEW t \in Tasks, Leave(t) PROVE EinvoiceKnown'
  BY <1>1, <1>2, <1>3, LeaveFacts
<1>4. ASSUME NEW t \in Tasks, NEW f \in Files, StartUpload(t, f) PROVE EinvoiceKnown'
  BY <1>1, <1>2, <1>4 DEF StartUpload, TypeOK
<1>5. ASSUME NEW t \in Tasks, NEW f \in Files, NEW force \in BOOLEAN,
             StartTrigger(t, f, force)
      PROVE  EinvoiceKnown'
  BY <1>1, <1>2, <1>5 DEF StartTrigger, TypeOK
<1>6. ASSUME NEW t \in Tasks, Advance(t) PROVE EinvoiceKnown'
  <2>1. Advanced(t)
    BY <1>1, <1>6, AdvanceFacts
  <2>2. PICK step \in Steps : pc' = [pc EXCEPT ![t] = step] /\ <<pc[t], step>> \in Moves
    BY <2>1 DEF Advanced
  <2>3. /\ \A u \in Tasks \ {t} : pc'[u] = pc[u] /\ ctx'[u] = ctx[u]
        /\ pc'[t] = step /\ ctx'[t].file = ctx[t].file
    BY <1>1, <2>1, <2>2 DEF Advanced, TypeOK
  <2>4. step \in {"get_linked", "by_number", "apply"} => Einvoice[ctx[t].file] # NoNumber
    <3>1. CASE pc[t] \in {"get_linked", "by_number"}
      BY <1>1, <3>1 DEF EinvoiceKnown
    <3>2. CASE ReadEinvoice(t)
      BY <3>2 DEF ReadEinvoice, Readable
    <3>3. CASE pc[t] # "read" /\ pc[t] \notin {"get_linked", "by_number"}
      BY <2>2, <3>3 DEF Moves
    <3>4. CASE pc[t] = "read" /\ ~ReadEinvoice(t)
      <4>1. ReadNoEinvoice(t)
        BY <1>6, <3>4 DEF Advance, OpenForWrite, WriteContent, RefreshRow, GetLinked,
              SelectByNumber, LoadForBackground, AnswerValid, FindInvoice, InsertConflict,
              Refetch
      <4>2. pc'[t] \in {"load", "mark"}
        BY <1>1, <4>1 DEF ReadNoEinvoice, TypeOK
      <4>3. QED
        BY <2>3, <4>2
    <3>5. QED
      BY <3>1, <3>2, <3>3, <3>4
  <2>5. QED
    BY <1>1, <2>3, <2>4 DEF EinvoiceKnown
<1>7. ASSUME NEW t \in Tasks, InsertRow(t) PROVE EinvoiceKnown'
  BY <1>1, <1>2, <1>7 DEF InsertRow, TypeOK
<1>8. ASSUME NEW t \in Tasks, MarkProcessing(t) PROVE EinvoiceKnown'
  BY <1>1, <1>2, <1>8 DEF MarkProcessing, TypeOK
<1>9. ASSUME NEW t \in Tasks, Return(t) PROVE EinvoiceKnown'
  BY <1>1, <1>3, <1>9, ReturnFacts DEF Returned
<1>10. ASSUME NEW t \in Tasks, Answer(t) PROVE EinvoiceKnown'
  BY <1>1, <1>3, <1>10, AnswerFacts DEF Answered, CommitAndLeave
<1>11. ASSUME NEW t \in Tasks, Rewrite(t) PROVE EinvoiceKnown'
  BY <1>3, <1>11 DEF Rewrite
<1>12. ASSUME Crash PROVE EinvoiceKnown'
  BY <1>12 DEF Crash, EinvoiceKnown
<1>13. CASE UNCHANGED vars
  BY <1>1, <1>13 DEF vars, EinvoiceKnown
<1>14. QED
  BY <1>4, <1>5, <1>6, <1>7, <1>8, <1>9, <1>10, <1>11, <1>12, <1>13, StepKinds

LEMMA BooksHoldStep ==
    ASSUME RInv, [Next]_vars
    PROVE  BooksHold'
<1>1. WellFormed /\ TypeOK /\ NumberKnown /\ BooksHold
  BY DEF RInv, IInv, WellFormed, LinksHold
<1>2. UNCHANGED invoices => Booked' = Booked
  BY DEF Booked
<1>3. ASSUME NEW t \in Tasks, Leave(t)
      PROVE  /\ \A u \in Tasks \ {t} : snap'[u] = snap[u] /\ ctx'[u] = ctx[u]
             /\ snap'[t].invoice = NoInvoice /\ ctx'[t].found = NoInvoice
  BY <1>1, <1>3, LeaveFacts, FreshFound DEF Leave, TypeOK
<1>4. ASSUME NEW t \in Tasks, NEW f \in Files, StartUpload(t, f) PROVE BooksHold'
  <2>1. /\ UNCHANGED <<row, invoices, snap>>
        /\ ctx'[t].found = NoInvoice
        /\ \A u \in Tasks \ {t} : ctx'[u] = ctx[u]
    BY <1>1, <1>4, FreshFound DEF StartUpload, TypeOK
  <2>2. QED
    BY <1>1, <1>2, <2>1, BooksStep DEF BooksHold
<1>5. ASSUME NEW t \in Tasks, NEW f \in Files, NEW force \in BOOLEAN,
             StartTrigger(t, f, force)
      PROVE  BooksHold'
  BY <1>1, <1>2, <1>5, FreshFound, BooksStep DEF StartTrigger, TypeOK, BooksHold
<1>6. ASSUME NEW t \in Tasks, Advance(t) PROVE BooksHold'
  BY <1>6, AdvancedBooks
<1>7. ASSUME NEW t \in Tasks, InsertRow(t) PROVE BooksHold'
  <2>1. /\ UNCHANGED <<invoices, snap, ctx>>
        /\ \A f \in Files : row'[f] = row[f] \/ row'[f] = NewRow
    BY <1>1, <1>7 DEF InsertRow, TypeOK
  <2>2. QED
    BY <1>1, <1>2, <2>1, FreshFound, BooksStep DEF BooksHold
<1>8. ASSUME NEW t \in Tasks, MarkProcessing(t) PROVE BooksHold'
  <2>1. /\ HasRow(ctx[t].file) /\ snap[t] \in Row /\ Marked(snap[t]) \in Row
    BY <1>1, <1>8, HandlerTypes, RowTypes DEF WellFormed, Registered, MarkProcessing
  <2>2. /\ \A f \in Files : f # ctx[t].file => row'[f] = row[f]
        /\ row'[ctx[t].file].invoice = row[ctx[t].file].invoice
    BY <1>1, <1>8, <2>1, CommitFacts, FlushedInvoice, BuiltColumns DEF Commit, MarkProcessing
  <2>3. /\ snap' = [snap EXCEPT ![t] = Marked(snap[t])]
        /\ UNCHANGED <<invoices, ctx>>
    BY <1>8 DEF Commit, MarkProcessing
  <2>4. snap'[t].invoice = snap[t].invoice
    BY <1>1, <2>1, <2>3, BuiltColumns DEF TypeOK
  <2>5. \A f \in Files : HasRow(f)' => HasRow(f) /\ row'[f].invoice = row[f].invoice
    BY <2>1, <2>2
  <2>6. \A u \in Tasks \ {t} : snap'[u] = snap[u] /\ ctx'[u] = ctx[u]
    BY <1>1, <2>3 DEF TypeOK
  <2>7. QED
    BY <1>1, <1>2, <2>3, <2>4, <2>5, <2>6, BooksStep DEF BooksHold
<1>9. ASSUME NEW t \in Tasks, Return(t) PROVE BooksHold'
  <2>1. Leave(t) /\ UNCHANGED <<row, invoices>>
    BY <1>1, <1>9, ReturnFacts DEF Returned
  <2>2. QED
    BY <1>1, <1>2, <1>3, <2>1, BooksStep
<1>10. ASSUME NEW t \in Tasks, Answer(t) PROVE BooksHold'
  <2>1. PICK new \in Row : CommitAndLeave(t, new) /\ Outcome(t, new)
    BY <1>10, AnswerOutcome
  <2>2. /\ Booked \subseteq Booked' /\ new.invoice \in Booked' \cup {NoInvoice}
    BY <1>1, <2>1 DEF Outcome, BooksHold
  <2>3. HasRow(ctx[t].file)
    BY <1>1, <1>10, AnswerFacts DEF WellFormed, Registered, Answered
  <2>4. /\ \A f \in Files : f # ctx[t].file => row'[f] = row[f]
        /\ row'[ctx[t].file].invoice \in {new.invoice, row[ctx[t].file].invoice}
    BY <1>1, <2>1, <2>3, CommitFacts, FlushedInvoice DEF CommitAndLeave
  <2>5. Leave(t)
    BY <2>1 DEF CommitAndLeave
  <2>6. QED
    BY <1>1, <1>3, <2>2, <2>3, <2>4, <2>5, BooksStep
<1>11. ASSUME NEW t \in Tasks, Rewrite(t) PROVE BooksHold'
  <2>1. /\ HasRow(ctx[t].file) /\ row[ctx[t].file] \in Row /\ Leave(t)
        /\ UNCHANGED invoices
        /\ ctx[t].found \in Booked \cup {NoInvoice}
    BY <1>1, <1>11, HandlerTypes DEF WellFormed, Registered, BooksHold, Rewrite
  <2>2. /\ \A f \in Files : f # ctx[t].file => row'[f] = row[f]
        /\ row'[ctx[t].file].invoice \in {ctx[t].found, row[ctx[t].file].invoice}
    BY <1>1, <1>11, <2>1, BuiltColumns DEF Rewrite, TypeOK
  <2>3. QED
    BY <1>1, <1>2, <1>3, <2>1, <2>2, BooksStep
<1>12. ASSUME Crash PROVE BooksHold'
  BY <1>1, <1>2, <1>12, FreshFound DEF Crash, BooksHold
<1>13. CASE UNCHANGED vars
  BY <1>1, <1>2, <1>13 DEF vars, BooksHold
<1>14. QED
  BY <1>4, <1>5, <1>6, <1>7, <1>8, <1>9, <1>10, <1>11, <1>12, <1>13, StepKinds

LEMMA BooksInductive == /\ Init => RInv
                        /\ RInv /\ [Next]_vars => RInv'
BY BooksInit, BooksHoldStep, EinvoiceKnownStep, Inductive DEF RInv

-----------------------------------------------------------------------------
(* The refinement *)

\* A row written over the row of a registered file shows as just that.
LEMMA ShownWrite ==
    ASSUME TypeOK, NEW f \in Files, HasRow(f), NEW r \in Row,
           row' = [row EXCEPT ![f] = r]
    PROVE  /\ ShownStatus' = [ShownStatus EXCEPT ![f] = r.status]
           /\ ShownLink' = [ShownLink EXCEPT ![f] = r.invoice]
           /\ r.status = row[f].status => ShownStatus' = ShownStatus
           /\ r.invoice = row[f].invoice => ShownLink' = ShownLink
           /\ ShownStatus[f] # "unregistered"
           /\ ShownLink'[f] = r.invoice
<1>1. /\ row[f] \in Row /\ row[f] # NoRow /\ row'[f] = r /\ r # NoRow
      /\ \A g \in Files : g # f => row'[g] = row[g]
  BY NoRowIsNoRow DEF TypeOK
<1>2. row[f].status \in Status /\ "unregistered" \notin Status
  BY <1>1 DEF Row, Status
<1>3. ShownStatus[f] = row[f].status /\ ShownLink[f] = row[f].invoice
  BY <1>1 DEF ShownStatus, ShownLink
<1>4. /\ ShownStatus'[f] = r.status /\ ShownLink'[f] = r.invoice
      /\ \A g \in Files : g # f => /\ ShownStatus'[g] = ShownStatus[g]
                                  /\ ShownLink'[g] = ShownLink[g]
  BY <1>1 DEF ShownStatus, ShownLink
<1>5. \A h, x, y :
         /\ h = [g \in Files |-> h[g]] /\ x = [g \in Files |-> x[g]]
         /\ h[f] = y /\ \A g \in Files : g # f => h[g] = x[g]
         => h = [x EXCEPT ![f] = y] /\ (y = x[f] => h = x)
  OBVIOUS
<1>6. /\ ShownStatus = [g \in Files |-> ShownStatus[g]]
      /\ ShownLink = [g \in Files |-> ShownLink[g]]
      /\ ShownStatus' = [g \in Files |-> ShownStatus'[g]]
      /\ ShownLink' = [g \in Files |-> ShownLink'[g]]
  BY DEF ShownStatus, ShownLink
<1>7. /\ ShownStatus' = [ShownStatus EXCEPT ![f] = r.status]
      /\ r.status = ShownStatus[f] => ShownStatus' = ShownStatus
  BY <1>4, <1>5, <1>6
<1>8. /\ ShownLink' = [ShownLink EXCEPT ![f] = r.invoice]
      /\ r.invoice = ShownLink[f] => ShownLink' = ShownLink
  BY <1>4, <1>5, <1>6
<1>9. QED
  BY <1>2, <1>3, <1>4, <1>7, <1>8

\* The last commit of a handler is Complete, Fail or Reject.
LEMMA OutcomeShown ==
    ASSUME RInv, NEW t \in Tasks, NEW new \in Row,
           pc[t] \in EinvoiceSteps \cup ClaimedSteps,
           CommitAndLeave(t, new), Outcome(t, new)
    PROVE  Lifecycle!Next
<1>0. PICK f \in Files : f = ctx[t].file
  BY HandlerTypes DEF RInv, IInv, WellFormed
<1>1. /\ TypeOK /\ HasRow(f) /\ row[f] \in Row /\ snap[t] \in Row /\ BooksHold
  BY <1>0, HandlerTypes DEF RInv, IInv, WellFormed, Registered, EinvoiceSteps, ClaimedSteps
<1>2. PICK r \in Row : r = Flushed(row[f], snap[t], new) /\ row' = [row EXCEPT ![f] = r]
  BY <1>0, <1>1, FlushedType DEF CommitAndLeave
<1>3. /\ r.status = IF new.status # snap[t].status THEN new.status ELSE row[f].status
      /\ r.invoice = IF new.invoice # snap[t].invoice THEN new.invoice ELSE row[f].invoice
  BY <1>2, FlushedStatus, FlushedInvoice
<1>4. /\ ShownStatus' = [ShownStatus EXCEPT ![f] = r.status]
      /\ ShownLink' = [ShownLink EXCEPT ![f] = r.invoice]
      /\ r.status = row[f].status => ShownStatus' = ShownStatus
      /\ r.invoice = row[f].invoice => ShownLink' = ShownLink
      /\ ShownStatus[f] # "unregistered"
      /\ ShownLink'[f] = r.invoice
  BY <1>1, <1>2, ShownWrite
<1>5. CASE \E i \in Invoices :
              /\ new.status = "completed" /\ new.invoice = i
              /\ Booked' = Booked \cup {i}
              /\ i \in Booked \/ snap[t].invoice # i
              /\ snap[t].status = "processing" \/ Einvoice[ctx[t].file] # NoNumber
  <2>1. PICK i \in Invoices :
              /\ new.status = "completed" /\ new.invoice = i
              /\ Booked' = Booked \cup {i}
              /\ i \in Booked \/ snap[t].invoice # i
              /\ snap[t].status = "processing" \/ Einvoice[f] # NoNumber
    BY <1>0, <1>5
  <2>2. \/ ShownStatus' = [ShownStatus EXCEPT ![f] = "completed"]
        \/ f \in {g \in Files : Einvoice[g] # NoNumber} /\ ShownStatus' = ShownStatus
    BY <1>1, <1>3, <1>4, <2>1
  <2>3. \/ ShownLink' = [ShownLink EXCEPT ![f] = i]
        \/ i \in Booked /\ ShownLink' = ShownLink
    BY <1>3, <1>4, <2>1
  <2>4. f \notin XmlFiles => ShownLink'[f] # NoInvoice
    <3>1. f \notin XmlFiles => Covers(row[f], snap[t])
      BY <1>0 DEF RInv, IInv, LinksHold, LoadedIsCovered
    <3>2. i # NoInvoice
      BY ConstantsOK
    <3>3. QED
      BY <1>3, <1>4, <2>1, <3>1, <3>2 DEF Covers
  <2>5. Lifecycle!Complete(f, i)
    BY <1>4, <2>1, <2>2, <2>3, <2>4
       DEF Lifecycle!Complete, Lifecycle!Known, Lifecycle!Show
  <2>6. QED
    BY <1>1, <2>5 DEF Lifecycle!Next
<1>6. CASE /\ new.status \in {"failed", "not_an_invoice"}
           /\ new.invoice = snap[t].invoice
           /\ snap[t].status = "processing"
           /\ Booked' = Booked
  <2>1. Lifecycle!Fail(f)
    BY <1>3, <1>4, <1>6 DEF Lifecycle!Fail, Lifecycle!Known, Lifecycle!Show
  <2>2. QED
    BY <1>1, <2>1 DEF Lifecycle!Next
<1>7. CASE /\ new.status = "failed" /\ new.invoice = NoInvoice
           /\ ctx[t].file \in XmlFiles
           /\ Booked' = Booked
  <2>1. Lifecycle!Reject(f)
    BY <1>0, <1>3, <1>4, <1>7 DEF Lifecycle!Reject, Lifecycle!Known, Lifecycle!Show
  <2>2. QED
    BY <1>1, <2>1 DEF Lifecycle!Next
<1>8. QED
  BY <1>5, <1>6, <1>7 DEF Outcome

\* A rewritten row, after the insert of the invoice lost its race.
LEMMA RewriteShown ==
    ASSUME RInv, NEW t \in Tasks, Rewrite(t)
    PROVE  Lifecycle!Next
<1>0. PICK f \in Files : f = ctx[t].file
  BY HandlerTypes DEF RInv, IInv, WellFormed
<1>1. /\ TypeOK /\ HasRow(f) /\ row[f] \in Row
      /\ ctx[t].found \in Booked \cup {NoInvoice}
      /\ ctx[t].num \in Numbers \cup {NoNumber}
      /\ Booked' = Booked /\ Booked \subseteq Invoices
  BY <1>0, HandlerTypes DEF RInv, IInv, WellFormed, Registered, BooksHold, Booked, Rewrite
<1>2. CASE ctx[t].found = NoInvoice
  <2>0. PICK r \in Row : r = Ended(row[f], "failed", "exception")
    BY <1>1, EndedKeepsLink DEF Error
  <2>1. /\ row' = [row EXCEPT ![f] = r]
        /\ r.status = "failed" /\ r.invoice = row[f].invoice
    <3>1. row' = [row EXCEPT ![f] = r]
      BY <1>0, <1>2, <2>0 DEF Rewrite
    <3>2. r.status = "failed" /\ r.invoice = row[f].invoice
      BY <1>1, <2>0, BuiltColumns
    <3>3. QED
      BY <3>1, <3>2
  <2>9. /\ ShownStatus' = [ShownStatus EXCEPT ![f] = r.status]
        /\ r.invoice = row[f].invoice => ShownLink' = ShownLink
        /\ ShownStatus[f] # "unregistered"
    <3>1. row' = [row EXCEPT ![f] = r]
      BY <2>1
    <3>2. QED
      BY <1>1, <3>1, ShownWrite
  <2>2. /\ ShownStatus' = [ShownStatus EXCEPT ![f] = "failed"]
        /\ ShownLink' = ShownLink
        /\ ShownStatus[f] # "unregistered"
    BY <2>1, <2>9
  <2>3. Lifecycle!Fail(f)
    BY <1>1, <2>2 DEF Lifecycle!Fail, Lifecycle!Known, Lifecycle!Show
  <2>4. QED
    BY <1>1, <2>3 DEF Lifecycle!Next
<1>3. CASE ctx[t].found # NoInvoice
  <2>1. ctx[t].found \in Booked /\ ctx[t].found \in Invoices
    BY <1>1, <1>3
  <2>0. PICK r \in Row : r = Completed(row[f], ctx[t].num, ctx[t].found)
    BY <1>1, <2>1, CompletedKeepsLink
  <2>2. /\ row' = [row EXCEPT ![f] = r]
        /\ r.status = "completed" /\ r.invoice = ctx[t].found
    <3>1. row' = [row EXCEPT ![f] = r]
      BY <1>0, <1>3, <2>0 DEF Rewrite
    <3>2. r.status = "completed" /\ r.invoice = ctx[t].found
      BY <1>1, <2>0, <2>1, BuiltColumns
    <3>3. QED
      BY <3>1, <3>2
  <2>9. /\ ShownStatus' = [ShownStatus EXCEPT ![f] = r.status]
        /\ ShownLink' = [ShownLink EXCEPT ![f] = r.invoice]
        /\ ShownStatus[f] # "unregistered"
        /\ ShownLink'[f] = r.invoice
    <3>1. row' = [row EXCEPT ![f] = r]
      BY <2>2
    <3>2. QED
      BY <1>1, <3>1, ShownWrite
  <2>3. /\ ShownStatus' = [ShownStatus EXCEPT ![f] = "completed"]
        /\ ShownLink' = [ShownLink EXCEPT ![f] = ctx[t].found]
        /\ ShownStatus[f] # "unregistered"
        /\ ShownLink'[f] = ctx[t].found
    BY <2>2, <2>9
  <2>4. Lifecycle!Complete(f, ctx[t].found)
    BY <1>1, <1>3, <2>1, <2>2, <2>3 DEF Lifecycle!Complete, Lifecycle!Known, Lifecycle!Show
  <2>5. QED
    BY <1>1, <2>1, <2>4 DEF Lifecycle!Next
<1>4. QED
  BY <1>2, <1>3

LEMMA MarkShown ==
    ASSUME RInv, NEW t \in Tasks, MarkProcessing(t)
    PROVE  [Lifecycle!Next]_(Lifecycle!vars)
<1>0. PICK f \in Files : f = ctx[t].file
  BY HandlerTypes DEF RInv, IInv, WellFormed
<1>1. /\ TypeOK /\ HasRow(f) /\ row[f] \in Row /\ snap[t] \in Row
      /\ Marked(snap[t]) \in Row
  BY <1>0, HandlerTypes, RowTypes DEF RInv, IInv, WellFormed, Registered, MarkProcessing
<1>2. PICK r \in Row : /\ r = Flushed(row[f], snap[t], Marked(snap[t]))
                       /\ row' = [row EXCEPT ![f] = r] /\ Booked' = Booked
  BY <1>0, <1>1, FlushedType DEF MarkProcessing, Commit, Booked
<1>3. /\ r.status \in {"processing", row[f].status}
      /\ r.invoice = row[f].invoice
  BY <1>1, <1>2, FlushedStatus, FlushedInvoice, BuiltColumns
<1>4. CASE r.status = "processing"
  <2>0. /\ ShownStatus' = [ShownStatus EXCEPT ![f] = r.status]
        /\ ShownLink' = ShownLink
        /\ ShownStatus[f] # "unregistered"
    BY <1>1, <1>2, <1>3, ShownWrite
  <2>1. ShownStatus' = [ShownStatus EXCEPT ![f] = "processing"]
    BY <1>4, <2>0
  <2>2. Lifecycle!Claim(f)
    BY <1>2, <2>0, <2>1 DEF Lifecycle!Claim, Lifecycle!Known, Lifecycle!Show
  <2>3. QED
    BY <1>1, <2>2 DEF Lifecycle!Next
<1>5. CASE r.status = row[f].status
  <2>1. ShownStatus' = ShownStatus /\ ShownLink' = ShownLink
    BY <1>1, <1>2, <1>3, <1>5, ShownWrite
  <2>2. QED
    BY <1>2, <2>1 DEF Lifecycle!vars
<1>6. QED
  BY <1>3, <1>4, <1>5

LEMMA InsertShown ==
    ASSUME RInv, NEW t \in Tasks, InsertRow(t)
    PROVE  Lifecycle!Next
<1>0. PICK f \in Files : f = ctx[t].file
  BY HandlerTypes DEF RInv, IInv, WellFormed
<1>1. /\ TypeOK /\ ~HasRow(f)
      /\ row' = [row EXCEPT ![f] = NewRow] /\ Booked' = Booked
  BY <1>0, HandlerTypes DEF RInv, IInv, WellFormed, InsertRow, Booked
<1>2. /\ NewRow.status = "pending" /\ NewRow.invoice = NoInvoice
      /\ NewRow # NoRow
  BY RowTypes, NoRowIsNoRow DEF NewRow
<1>3. /\ row'[f] = NewRow /\ row[f] = NoRow
      /\ \A g \in Files : g # f => row'[g] = row[g]
  BY <1>1 DEF TypeOK
<1>4. /\ ShownStatus' = [ShownStatus EXCEPT ![f] = "pending"]
      /\ ShownStatus[f] = "unregistered"
  <2>1. ShownStatus[f] = "unregistered" /\ ShownStatus'[f] = "pending"
    BY <1>1, <1>2, <1>3 DEF ShownStatus
  <2>2. \A g \in Files : g # f => ShownStatus'[g] = ShownStatus[g]
    BY <1>3 DEF ShownStatus
  <2>3. /\ ShownStatus = [g \in Files |-> ShownStatus[g]]
        /\ ShownStatus' = [g \in Files |-> ShownStatus'[g]]
    BY DEF ShownStatus
  <2>4. \A h, x, y :
           /\ h = [g \in Files |-> h[g]] /\ x = [g \in Files |-> x[g]]
           /\ h[f] = y /\ \A g \in Files : g # f => h[g] = x[g]
           => h = [x EXCEPT ![f] = y]
    OBVIOUS
  <2>5. QED
    BY <2>1, <2>2, <2>3, <2>4
<1>5. ShownLink' = ShownLink
  BY <1>1, <1>2, <1>3 DEF ShownLink
<1>6. Lifecycle!Register(f)
  BY <1>1, <1>4, <1>5 DEF Lifecycle!Register, Lifecycle!Known, Lifecycle!Show
<1>7. QED
  BY <1>1, <1>6 DEF Lifecycle!Next

\* The handlers implement the lifecycle, for any number of files, handlers,
\* invoices, triggers and crashes: whatever they do to a file in parallel, an
\* invoice is created only together with the link to it, a file is linked by
\* completing it, only an XML file loses its link, and none returns to pending.
THEOREM LifecycleImplemented == Spec => LifecycleSpec
<1>1. Init => Lifecycle!Init
  BY NoRowIsNoRow DEF Init, Lifecycle!Init, ShownStatus, ShownLink, Booked
<1>2. RInv /\ [Next]_vars => [Lifecycle!Next]_(Lifecycle!vars)
  <2> SUFFICES ASSUME RInv, [Next]_vars PROVE [Lifecycle!Next]_(Lifecycle!vars)
    OBVIOUS
  <2>1. WellFormed
    BY DEF RInv, IInv
  <2>2. UNCHANGED <<row, invoices>> => UNCHANGED Lifecycle!vars
    BY DEF Lifecycle!vars, ShownStatus, ShownLink, Booked
  <2>3. ASSUME NEW t \in Tasks, Advance(t) PROVE UNCHANGED <<row, invoices>>
    BY <2>1, <2>3, AdvanceFacts DEF Advanced
  <2>4. ASSUME NEW t \in Tasks, Return(t) PROVE UNCHANGED <<row, invoices>>
    BY <2>1, <2>4, ReturnFacts DEF Returned
  <2>5. ASSUME NEW t \in Tasks, NEW f \in Files, StartUpload(t, f)
        PROVE  UNCHANGED <<row, invoices>>
    BY <2>5 DEF StartUpload
  <2>6. ASSUME NEW t \in Tasks, NEW f \in Files, NEW force \in BOOLEAN,
               StartTrigger(t, f, force)
        PROVE  UNCHANGED <<row, invoices>>
    BY <2>6 DEF StartTrigger
  <2>7. Crash \/ UNCHANGED vars => UNCHANGED <<row, invoices>>
    BY DEF Crash, vars
  <2>8. ASSUME NEW t \in Tasks, Answer(t) PROVE Lifecycle!Next
    <3>1. PICK new \in Row : CommitAndLeave(t, new) /\ Outcome(t, new)
      BY <2>8, AnswerOutcome
    <3>2. pc[t] \in EinvoiceSteps \cup ClaimedSteps
      BY <2>1, <2>8, AnswerFacts DEF Answered, EinvoiceSteps, ClaimedSteps
    <3>3. QED
      BY <3>1, <3>2, OutcomeShown
  <2>9. QED
    BY <2>2, <2>3, <2>4, <2>5, <2>6, <2>7, <2>8, InsertShown, MarkShown, RewriteShown, StepKinds
<1>3. QED
  BY <1>1, <1>2, BooksInductive, PTL DEF Spec, LifecycleSpec, Lifecycle!Spec

-----------------------------------------------------------------------------
(***************************************************************************)
(* What belongs together stays together although concurrent handlers each  *)
(* write the columns they changed: the attempts counter, the result with   *)
(* the link (without and with e-invoices), the row with its content.       *)
(***************************************************************************)

-----------------------------------------------------------------------------
(* The invariants *)

\* The steps at which a handler's session holds the row.
LoadedSteps == EinvoiceSteps \cup AiSteps

\* Neither the row nor a copy of it counts an attempt that was not begun.
AttemptsHold ==
    /\ AttemptsEarned
    /\ \A t \in Tasks : pc[t] \in LoadedSteps => snap[t].attempts <= begun[ctx[t].file]

\* Without e-invoices nothing renames an invoice.
Plain == \A f \in Files : Einvoice[f] = NoNumber

\* Result and link of a row agree, given the invoices table.
Pair(r, table) ==
    /\ r.invoice = NoInvoice => r.result = NoNumber
    /\ r.invoice # NoInvoice => /\ r.invoice \in Invoices
                                /\ r.result = table[r.invoice]
                                /\ r.result # NoNumber

Unique(table) ==
    \A i, j \in Invoices : table[i] = table[j] /\ table[i] # NoNumber => i = j

\* The invoice that a handler found carries the number it looked for.
FoundIsNumbered(t, step, locals, table) ==
    step \in {"link", "rewrite"} /\ locals.found # NoInvoice
        => table[locals.found] = locals.num

PairsHold ==
    /\ Unique(invoices)
    /\ \A f \in Files : HasRow(f) => Pair(row[f], invoices)
    /\ \A t \in Tasks : /\ Pair(snap[t], invoices)
                        /\ FoundIsNumbered(t, pc[t], ctx[t], invoices)

CInv == RInv /\ AttemptsHold /\ (Plain => PairsHold)

-----------------------------------------------------------------------------
(* Attempts *)

\* The counters that the handlers build in memory.
LEMMA BuiltAttempts ==
    ASSUME NEW r \in Row, NEW n, NEW i, NEW s, NEW e
    PROVE  /\ r.attempts \in Nat
           /\ Completed(r, n, i).attempts = r.attempts
           /\ Ended(r, s, e).attempts = r.attempts
           /\ Counted(r).attempts = r.attempts + 1
           /\ Counted(Completed(r, n, i)).attempts = r.attempts + 1
           /\ Marked(r).attempts = r.attempts + 1
           /\ Rejected(r).attempts = r.attempts + 1
BY DEF Completed, Ended, Counted, Marked, Rejected, Row

LEMMA FlushedAttempts ==
    ASSUME NEW cur, NEW old, NEW new
    PROVE  Flushed(cur, old, new).attempts \in {new.attempts, cur.attempts}
BY DEF Flushed

\* Beginning an attempt counts it for the handler's file.
LEMMA AttemptedFacts ==
    ASSUME TypeOK, NEW t \in Tasks, Attempted(t)
    PROVE  /\ begun'[ctx[t].file] = begun[ctx[t].file] + 1
           /\ \A f \in Files : begun[f] \in Nat /\ begun[f] <= begun'[f] /\ begun'[f] \in Nat
BY HandlerTypes DEF TypeOK, Attempted

\* The last commit of a handler counts at most what was begun.
LEMMA AnswerCounts ==
    ASSUME TypeOK, NEW t \in Tasks, Answer(t)
    PROVE  \E new : /\ CommitAndLeave(t, new)
                    /\ new \in Row
                    /\ \/ Attempted(t) /\ new.attempts = snap[t].attempts + 1
                       \/ UNCHANGED begun /\ new.attempts = snap[t].attempts
<1>1. /\ snap[t] \in Row
      /\ ctx[t].num \in Numbers \cup {NoNumber}
      /\ ctx[t].found \in Invoices \cup {NoInvoice}
  BY HandlerTypes
<1>2. CASE RejectXml(t)
  BY <1>1, <1>2, RowTypes, BuiltAttempts DEF RejectXml
<1>3. CASE ApplyEinvoice(t)
  <2>1. PICK i \in Invoices : CommitAndLeave(t, Counted(Completed(snap[t], ctx[t].num, i)))
    BY <1>3 DEF ApplyEinvoice
  <2>2. Counted(Completed(snap[t], ctx[t].num, i)) \in Row
    BY <1>1, CompletedKeepsLink
  <2>3. Counted(Completed(snap[t], ctx[t].num, i)).attempts = snap[t].attempts + 1
    BY <1>1, BuiltAttempts
  <2>4. QED
    BY <1>3, <2>1, <2>2, <2>3 DEF ApplyEinvoice
<1>4. ASSUME NEW s \in {"failed", "not_an_invoice"}, NEW e \in Error
      PROVE  Ended(snap[t], s, e) \in Row /\ Ended(snap[t], s, e).attempts = snap[t].attempts
  BY <1>1, EndedKeepsLink DEF Ended, Row
<1>5. CASE ExtractionRaises(t)
  <2>1. CommitAndLeave(t, Ended(snap[t], "failed", "exception")) /\ UNCHANGED begun
    BY <1>5 DEF ExtractionRaises
  <2>2. QED
    BY <1>4, <2>1 DEF Error
<1>6. CASE AnswerInvalid(t)
  <2>1. /\ \/ CommitAndLeave(t, Ended(snap[t], "failed", "validation"))
           \/ CommitAndLeave(t, Ended(snap[t], "not_an_invoice", "no_invoice"))
        /\ UNCHANGED begun
    BY <1>6 DEF AnswerInvalid
  <2>2. QED
    BY <1>4, <2>1 DEF Error
<1>7. ASSUME NEW i \in Invoices
      PROVE  /\ Completed(snap[t], ctx[t].num, i) \in Row
             /\ Completed(snap[t], ctx[t].num, i).attempts = snap[t].attempts
  BY <1>1, CompletedKeepsLink DEF Completed, Row
<1>8. CASE LinkFound(t)
  <2>1. /\ CommitAndLeave(t, Completed(snap[t], ctx[t].num, ctx[t].found))
        /\ UNCHANGED begun /\ ctx[t].found \in Invoices
    BY <1>1, <1>8 DEF LinkFound
  <2>2. QED
    BY <1>7, <2>1
<1>9. CASE InsertAndLink(t)
  <2>1. PICK i \in Invoices : CommitAndLeave(t, Completed(snap[t], ctx[t].num, i))
    BY <1>9 DEF InsertAndLink, Free
  <2>2. QED
    BY <1>7, <1>9, <2>1 DEF InsertAndLink
<1>10. QED
  BY <1>2, <1>3, <1>5, <1>6, <1>8, <1>9 DEF Answer

\* A counter within what was begun; opaque below, so that arithmetic stays here.
Earned(n, m) == n \in Nat /\ m \in Nat /\ n <= m

LEMMA EarnedFacts ==
    /\ \A n \in Nat : Earned(n, n) /\ Earned(0, n)
    /\ \A n, m, k : Earned(n, m) /\ Earned(m, k) => Earned(n, k)
    /\ \A n, m : Earned(n, m) => Earned(n + 1, m + 1)
    /\ \A n \in Nat : Earned(n, n + 1)
BY DEF Earned

\* A step of one handler that writes rows with earned attempts only.
LEMMA AttemptsStep ==
    ASSUME TypeOK, AttemptsHold, NEW t \in Tasks,
           \A f \in Files : Earned(begun[f], begun'[f]),
           \A f \in Files :
               HasRow(f)' => \/ HasRow(f) /\ row'[f].attempts = row[f].attempts
                            \/ Earned(row'[f].attempts, begun'[f]),
           \A u \in Tasks \ {t} : pc'[u] = pc[u] /\ snap'[u] = snap[u] /\ ctx'[u] = ctx[u],
           pc'[t] \in LoadedSteps => Earned(snap'[t].attempts, begun'[ctx'[t].file])
    PROVE  AttemptsHold'
<1>1. ASSUME NEW f \in Files, HasRow(f)' PROVE row'[f].attempts <= begun'[f]
  <2>1. HasRow(f) => row[f] \in Row
    BY DEF TypeOK
  <2>2. HasRow(f) => Earned(row[f].attempts, begun[f])
    BY <2>1 DEF TypeOK, AttemptsHold, AttemptsEarned, Row, Earned
  <2>3. Earned(row'[f].attempts, begun'[f])
    BY <1>1, <2>2, EarnedFacts
  <2>4. QED
    BY <2>3 DEF Earned
<1>2. ASSUME NEW u \in Tasks, pc'[u] \in LoadedSteps
      PROVE  snap'[u].attempts <= begun'[ctx'[u].file]
  <2>1. u # t => Earned(snap[u].attempts, begun[ctx[u].file])
    BY <1>2, HandlerTypes DEF TypeOK, AttemptsHold, Row, Earned
  <2>2. ctx[u].file \in Files
    BY HandlerTypes
  <2>3. u # t => Earned(snap'[u].attempts, begun'[ctx'[u].file])
    BY <2>1, <2>2, EarnedFacts
  <2>4. QED
    BY <1>2, <2>3 DEF Earned
<1>3. QED
  BY <1>1, <1>2 DEF AttemptsHold, AttemptsEarned

LEMMA AttemptsInit == Init => AttemptsHold
BY DEF Init, AttemptsHold, AttemptsEarned, LoadedSteps, EinvoiceSteps, AiSteps

LEMMA AttemptsHoldStep ==
    ASSUME RInv, AttemptsHold, [Next]_vars
    PROVE  AttemptsHold'
<1>1. WellFormed /\ TypeOK /\ AttemptsHold
  BY DEF RInv, IInv, WellFormed
<1>2. UNCHANGED begun => \A f \in Files : Earned(begun[f], begun'[f])
  BY <1>1 DEF TypeOK, Earned
<1>3. \A t \in Tasks : pc[t] \in LoadedSteps =>
         Earned(snap[t].attempts, begun[ctx[t].file])
  BY <1>1, HandlerTypes DEF TypeOK, AttemptsHold, Row, Earned
<1>4. \A f \in Files : HasRow(f) =>
         Earned(row[f].attempts, begun[f])
  <2>1. \A f \in Files : HasRow(f) => row[f] \in Row
    BY <1>1 DEF TypeOK
  <2>2. QED
    BY <1>1, <2>1 DEF TypeOK, AttemptsHold, AttemptsEarned, Row, Earned
<1>5. \A f \in Files : begun[f] \in Nat
  BY <1>1 DEF TypeOK
<1>6. ASSUME NEW t \in Tasks, Leave(t)
      PROVE  /\ \A u \in Tasks \ {t} : pc'[u] = pc[u] /\ snap'[u] = snap[u] /\ ctx'[u] = ctx[u]
             /\ pc'[t] \notin LoadedSteps
  BY <1>1, <1>6, LeaveFacts DEF LoadedSteps, EinvoiceSteps, AiSteps
<1>7. ASSUME NEW t \in Tasks, NEW f \in Files, StartUpload(t, f) PROVE AttemptsHold'
  <2>1. /\ UNCHANGED <<row, snap, begun>>
        /\ pc'[t] = "open"
        /\ \A u \in Tasks \ {t} : pc'[u] = pc[u] /\ ctx'[u] = ctx[u]
    BY <1>1, <1>7 DEF StartUpload, TypeOK
  <2>2. pc'[t] \notin LoadedSteps
    BY <2>1 DEF LoadedSteps, EinvoiceSteps, AiSteps
  <2>3. QED
    BY <1>1, <1>2, <1>5, <2>1, <2>2, AttemptsStep
<1>8. ASSUME NEW t \in Tasks, NEW f \in Files, NEW force \in BOOLEAN,
             StartTrigger(t, f, force)
      PROVE  AttemptsHold'
  <2>1. /\ UNCHANGED <<row, begun>> /\ HasRow(f)
        /\ snap'[t] = row[f] /\ ctx'[t] = Fresh(f, "trigger", force)
        /\ \A u \in Tasks \ {t} : pc'[u] = pc[u] /\ ctx'[u] = ctx[u] /\ snap'[u] = snap[u]
    BY <1>1, <1>8 DEF StartTrigger, TypeOK
  <2>2. ctx'[t].file = f
    BY <2>1 DEF Fresh
  <2>3. Earned(snap'[t].attempts, begun'[ctx'[t].file])
    BY <1>4, <2>1, <2>2
  <2>4. QED
    BY <1>1, <1>2, <1>5, <2>1, <2>3, AttemptsStep
<1>9. ASSUME NEW t \in Tasks, Advance(t) PROVE AttemptsHold'
  <2>1. Advanced(t)
    BY <1>1, <1>9, AdvanceFacts
  <2>2. PICK step \in Steps : pc' = [pc EXCEPT ![t] = step] /\ <<pc[t], step>> \in Moves
    BY <2>1 DEF Advanced
  <2>3. /\ UNCHANGED <<row, begun>>
        /\ \A u \in Tasks \ {t} : pc'[u] = pc[u] /\ ctx'[u] = ctx[u] /\ snap'[u] = snap[u]
        /\ pc'[t] = step /\ ctx'[t].file = ctx[t].file
    BY <1>1, <2>1, <2>2 DEF Advanced, TypeOK
  <2>4. CASE pc[t] \in {"refresh", "load"}
    <3>1. HasRow(ctx[t].file) /\ ctx[t].file \in Files
      BY <1>1, <2>4, HandlerTypes DEF WellFormed, Registered
    <3>2. snap'[t] = row[ctx[t].file]
      BY <2>1, <2>4 DEF Advanced
    <3>3. Earned(snap'[t].attempts, begun'[ctx'[t].file])
      BY <1>4, <2>3, <3>1, <3>2
    <3>4. QED
      BY <1>1, <1>2, <1>5, <2>3, <3>3, AttemptsStep
  <2>5. CASE pc[t] \notin {"refresh", "load"}
    <3>1. step \in LoadedSteps => pc[t] \in LoadedSteps
      BY <2>2, <2>5 DEF Moves, LoadedSteps, EinvoiceSteps, AiSteps
    <3>2. snap'[t] = snap[t]
      BY <2>1, <2>5 DEF Advanced
    <3>3. pc'[t] \in LoadedSteps =>
             Earned(snap'[t].attempts, begun'[ctx'[t].file])
      BY <1>3, <2>3, <3>1, <3>2
    <3>4. QED
      BY <1>1, <1>2, <1>5, <2>3, <3>3, AttemptsStep
  <2>6. QED
    BY <2>4, <2>5
<1>10. ASSUME NEW t \in Tasks, InsertRow(t) PROVE AttemptsHold'
  <2>1. /\ UNCHANGED <<snap, ctx, begun>> /\ pc'[t] = "refresh"
        /\ \A u \in Tasks \ {t} : pc'[u] = pc[u]
        /\ \A f \in Files : row'[f] = row[f] \/ row'[f] = NewRow
    BY <1>1, <1>10 DEF InsertRow, TypeOK
  <2>2. pc'[t] \notin LoadedSteps
    BY <2>1 DEF LoadedSteps, EinvoiceSteps, AiSteps
  <2>3. NewRow.attempts = 0
    BY DEF NewRow
  <2>4. \A f \in Files : Earned(NewRow.attempts, begun'[f])
    BY <1>5, <2>1, <2>3, EarnedFacts
  <2>5. \A f \in Files : HasRow(f)' =>
           \/ HasRow(f) /\ row'[f].attempts = row[f].attempts
           \/ Earned(row'[f].attempts, begun'[f])
    BY <2>1, <2>4
  <2>6. QED
    BY <1>1, <1>2, <1>5, <2>1, <2>2, <2>5, AttemptsStep
<1>11. ASSUME NEW t \in Tasks, MarkProcessing(t) PROVE AttemptsHold'
  <2>1. /\ HasRow(ctx[t].file) /\ ctx[t].file \in Files /\ Marked(snap[t]) \in Row
        /\ pc[t] \in LoadedSteps
    BY <1>1, <1>11, HandlerTypes, RowTypes
       DEF WellFormed, Registered, MarkProcessing, LoadedSteps, AiSteps
  <2>2. /\ begun'[ctx[t].file] = begun[ctx[t].file] + 1
        /\ \A f \in Files : Earned(begun[f], begun'[f])
    BY <1>1, <1>11, AttemptedFacts DEF MarkProcessing, Earned
  <2>3. Earned(Marked(snap[t]).attempts, begun'[ctx[t].file])
    <3>1. snap[t] \in Row
      BY <1>1, HandlerTypes
    <3>2. Marked(snap[t]).attempts = snap[t].attempts + 1
      BY <3>1, BuiltAttempts
    <3>3. QED
      BY <1>3, <2>1, <2>2, <3>2, EarnedFacts
  <2>4. /\ \A f \in Files : f # ctx[t].file => row'[f] = row[f]
        /\ row'[ctx[t].file].attempts
              \in {Marked(snap[t]).attempts, row[ctx[t].file].attempts}
    BY <1>1, <1>11, <2>1, CommitFacts, FlushedAttempts DEF Commit, MarkProcessing
  <2>5. /\ snap'[t] = Marked(snap[t]) /\ ctx'[t] = ctx[t]
        /\ \A u \in Tasks \ {t} : pc'[u] = pc[u] /\ ctx'[u] = ctx[u] /\ snap'[u] = snap[u]
    BY <1>1, <1>11 DEF Commit, MarkProcessing, TypeOK
  <2>6. \A f \in Files : HasRow(f)' =>
           \/ HasRow(f) /\ row'[f].attempts = row[f].attempts
           \/ Earned(row'[f].attempts, begun'[f])
    BY <2>1, <2>3, <2>4
  <2>7. QED
    BY <1>1, <2>2, <2>3, <2>5, <2>6, AttemptsStep
<1>12. ASSUME NEW t \in Tasks, Return(t) PROVE AttemptsHold'
  <2>1. Leave(t) /\ UNCHANGED <<row, begun>>
    BY <1>1, <1>12, ReturnFacts DEF Returned
  <2>2. QED
    BY <1>1, <1>2, <1>5, <1>6, <2>1, AttemptsStep
<1>13. ASSUME NEW t \in Tasks, Answer(t) PROVE AttemptsHold'
  <2>1. PICK new : /\ CommitAndLeave(t, new) /\ new \in Row
                   /\ \/ Attempted(t) /\ new.attempts = snap[t].attempts + 1
                      \/ UNCHANGED begun /\ new.attempts = snap[t].attempts
    BY <1>1, <1>13, AnswerCounts
  <2>2. HasRow(ctx[t].file) /\ ctx[t].file \in Files /\ pc[t] \in LoadedSteps
    BY <1>1, <1>13, AnswerFacts, HandlerTypes
       DEF WellFormed, Registered, Answered, LoadedSteps, EinvoiceSteps, AiSteps
  <2>3. /\ \A f \in Files : Earned(begun[f], begun'[f])
        /\ Earned(new.attempts, begun'[ctx[t].file])
    <3>1. CASE Attempted(t) /\ new.attempts = snap[t].attempts + 1
      <4>1. /\ begun'[ctx[t].file] = begun[ctx[t].file] + 1
            /\ \A f \in Files : Earned(begun[f], begun'[f])
        BY <1>1, <3>1, AttemptedFacts DEF Earned
      <4>2. QED
        BY <1>3, <2>2, <3>1, <4>1, EarnedFacts
    <3>2. CASE UNCHANGED begun /\ new.attempts = snap[t].attempts
      BY <1>2, <1>3, <1>5, <2>2, <3>2
    <3>3. QED
      BY <2>1, <3>1, <3>2
  <2>4. /\ \A f \in Files : f # ctx[t].file => row'[f] = row[f]
        /\ row'[ctx[t].file].attempts \in {new.attempts, row[ctx[t].file].attempts}
    BY <1>1, <2>1, <2>2, CommitFacts, FlushedAttempts DEF CommitAndLeave
  <2>5. \A f \in Files : HasRow(f)' =>
           \/ HasRow(f) /\ row'[f].attempts = row[f].attempts
           \/ Earned(row'[f].attempts, begun'[f])
    BY <2>2, <2>3, <2>4
  <2>6. Leave(t)
    BY <2>1 DEF CommitAndLeave
  <2>7. QED
    BY <1>1, <1>6, <2>3, <2>5, <2>6, AttemptsStep
<1>14. ASSUME NEW t \in Tasks, Rewrite(t) PROVE AttemptsHold'
  <2>1. /\ HasRow(ctx[t].file) /\ ctx[t].file \in Files /\ row[ctx[t].file] \in Row
        /\ Leave(t) /\ UNCHANGED begun
    BY <1>1, <1>14, HandlerTypes DEF WellFormed, Registered, Rewrite
  <2>2. /\ \A f \in Files : f # ctx[t].file => row'[f] = row[f]
        /\ row'[ctx[t].file].attempts = row[ctx[t].file].attempts
    <3>1. /\ \A n, i : Completed(row[ctx[t].file], n, i).attempts = row[ctx[t].file].attempts
          /\ \A s, e : Ended(row[ctx[t].file], s, e).attempts = row[ctx[t].file].attempts
      BY <2>1 DEF Completed, Ended, Row
    <3>2. QED
      BY <1>1, <1>14, <2>1, <3>1 DEF Rewrite, TypeOK
  <2>3. QED
    BY <1>1, <1>2, <1>5, <1>6, <2>1, <2>2, AttemptsStep
<1>15. ASSUME Crash PROVE AttemptsHold'
  BY <1>15 DEF Crash, AttemptsHold, AttemptsEarned, LoadedSteps, EinvoiceSteps, AiSteps
<1>16. CASE UNCHANGED vars
  BY <1>16 DEF vars, AttemptsHold, AttemptsEarned
<1>17. QED
  BY <1>7, <1>8, <1>9, <1>10, <1>11, <1>12, <1>13, <1>14, <1>15, <1>16, StepKinds

-----------------------------------------------------------------------------
(* Result and link *)

\* A flush that writes only the changed ones of two agreeing columns leaves
\* them in agreement: a number belongs to one invoice, so both change or none.
LEMMA FlushedPair ==
    ASSUME NEW table, Unique(table), NEW cur, NEW old, NEW new,
           Pair(cur, table), Pair(old, table), Pair(new, table)
    PROVE  Pair(Flushed(cur, old, new), table)
<1>1. /\ Flushed(cur, old, new).invoice =
            IF new.invoice # old.invoice THEN new.invoice ELSE cur.invoice
      /\ Flushed(cur, old, new).result =
            IF new.result # old.result THEN new.result ELSE cur.result
  BY DEF Flushed
<1>2. new.invoice = old.invoice <=> new.result = old.result
  BY DEF Pair, Unique
<1>3. CASE new.invoice = old.invoice
  <2>1. /\ Flushed(cur, old, new).invoice = cur.invoice
        /\ Flushed(cur, old, new).result = cur.result
    BY <1>1, <1>2, <1>3
  <2>2. QED
    BY <2>1 DEF Pair
<1>4. CASE new.invoice # old.invoice
  <2>1. /\ Flushed(cur, old, new).invoice = new.invoice
        /\ Flushed(cur, old, new).result = new.result
    BY <1>1, <1>2, <1>4
  <2>2. QED
    BY <2>1 DEF Pair
<1>5. QED
  BY <1>3, <1>4

\* The pairs that the handlers build in memory.
LEMMA BuiltPair ==
    ASSUME NEW table, NEW r \in Row
    PROVE  /\ \A s, e : Pair(r, table) => Pair(Ended(r, s, e), table)
           /\ Pair(r, table) => Pair(Marked(r), table)
           /\ Pair(Rejected(r), table)
           /\ Pair(NewRow, table)
           /\ \A n \in Numbers, i \in Invoices :
                 table[i] = n => Pair(Completed(r, n, i), table)
<1>1. /\ \A s, e : Ended(r, s, e).invoice = r.invoice /\ Ended(r, s, e).result = r.result
      /\ Marked(r).invoice = r.invoice /\ Marked(r).result = r.result
      /\ Rejected(r).invoice = NoInvoice /\ Rejected(r).result = NoNumber
      /\ NewRow.invoice = NoInvoice /\ NewRow.result = NoNumber
  BY DEF Ended, Marked, Counted, Rejected, NewRow, Row
<1>2. \A n, i : Completed(r, n, i).invoice = i /\ Completed(r, n, i).result = n
  BY DEF Completed, Row
<1>3. QED
  BY <1>1, <1>2, ConstantsOK DEF Pair

\* A new invoice takes a number that none has, so numbers stay unique and the
\* pairs that agreed go on to agree.
LEMMA InsertedPair ==
    ASSUME TypeOK, NEW n \in Numbers, NEW i \in Free, Holders(n) = {},
           Unique(invoices), invoices' = [invoices EXCEPT ![i] = n]
    PROVE  /\ Unique(invoices') /\ invoices'[i] = n
           /\ \A r : Pair(r, invoices) => Pair(r, invoices')
           /\ \A j \in Invoices : invoices[j] # NoNumber => invoices'[j] = invoices[j]
<1>1. /\ i \in Invoices /\ invoices[i] = NoNumber /\ invoices'[i] = n /\ n # NoNumber
      /\ \A j \in Invoices : j # i => invoices'[j] = invoices[j] /\ invoices[j] # n
  BY ConstantsOK DEF TypeOK, Free, Holders
<1>2. Unique(invoices')
  BY <1>1 DEF Unique
<1>3. \A r : Pair(r, invoices) => Pair(r, invoices')
  BY <1>1 DEF Pair
<1>4. QED
  BY <1>1, <1>2, <1>3

\* The last commit of a handler writes an agreeing pair.
LEMMA AnswerPair ==
    ASSUME RInv, Plain, PairsHold, NEW t \in Tasks, Answer(t)
    PROVE  /\ Unique(invoices')
           /\ \A r : Pair(r, invoices) => Pair(r, invoices')
           /\ \A i \in Invoices : invoices[i] # NoNumber => invoices'[i] = invoices[i]
           /\ \E new \in Row : CommitAndLeave(t, new) /\ Pair(new, invoices')
<1>1. /\ TypeOK /\ NumberKnown
      /\ snap[t] \in Row /\ ctx[t].file \in Files
      /\ ctx[t].found \in Invoices \cup {NoInvoice}
      /\ Pair(snap[t], invoices) /\ Unique(invoices)
      /\ FoundIsNumbered(t, pc[t], ctx[t], invoices)
  BY HandlerTypes DEF RInv, IInv, WellFormed, LinksHold, PairsHold
<1>2. ~ApplyEinvoice(t)
  BY <1>1 DEF RInv, EinvoiceKnown, Plain, ApplyEinvoice
<1>3. CASE InsertAndLink(t)
  <2>1. PICK i \in Free : /\ invoices' = [invoices EXCEPT ![i] = ctx[t].num]
                          /\ CommitAndLeave(t, Completed(snap[t], ctx[t].num, i))
    BY <1>3 DEF InsertAndLink
  <2>2. ctx[t].num \in Numbers /\ Holders(ctx[t].num) = {} /\ i \in Invoices
    BY <1>1, <1>3 DEF NumberKnown, NumberedSteps, InsertAndLink, Free
  <2>3. /\ Unique(invoices') /\ invoices'[i] = ctx[t].num
        /\ \A r : Pair(r, invoices) => Pair(r, invoices')
        /\ \A j \in Invoices : invoices[j] # NoNumber => invoices'[j] = invoices[j]
    BY <1>1, <2>1, <2>2, InsertedPair
  <2>4. /\ Completed(snap[t], ctx[t].num, i) \in Row
        /\ Pair(Completed(snap[t], ctx[t].num, i), invoices')
    BY <1>1, <2>2, <2>3, BuiltPair, RowTypes
  <2>5. QED
    BY <2>1, <2>3, <2>4
<1>4. ASSUME UNCHANGED invoices,
             \E new \in Row : CommitAndLeave(t, new) /\ Pair(new, invoices)
      PROVE  /\ Unique(invoices')
             /\ \A r : Pair(r, invoices) => Pair(r, invoices')
             /\ \A i \in Invoices : invoices[i] # NoNumber => invoices'[i] = invoices[i]
             /\ \E new \in Row : CommitAndLeave(t, new) /\ Pair(new, invoices')
  BY <1>1, <1>4
<1>5. CASE RejectXml(t)
  <2>1. CommitAndLeave(t, Rejected(snap[t])) /\ UNCHANGED invoices
    BY <1>5 DEF RejectXml
  <2>2. QED
    BY <1>1, <1>4, <2>1, BuiltPair, RowTypes
<1>6. ASSUME NEW s \in {"failed", "not_an_invoice"}, NEW e \in Error
      PROVE  Ended(snap[t], s, e) \in Row /\ Pair(Ended(snap[t], s, e), invoices)
  BY <1>1, BuiltPair, EndedKeepsLink
<1>7. CASE ExtractionRaises(t)
  <2>1. CommitAndLeave(t, Ended(snap[t], "failed", "exception")) /\ UNCHANGED invoices
    BY <1>7 DEF ExtractionRaises
  <2>2. QED
    BY <1>4, <1>6, <2>1 DEF Error
<1>8. CASE AnswerInvalid(t)
  <2>1. /\ \/ CommitAndLeave(t, Ended(snap[t], "failed", "validation"))
           \/ CommitAndLeave(t, Ended(snap[t], "not_an_invoice", "no_invoice"))
        /\ UNCHANGED invoices
    BY <1>8 DEF AnswerInvalid
  <2>2. QED
    BY <1>4, <1>6, <2>1 DEF Error
<1>9. CASE LinkFound(t)
  <2>1. /\ CommitAndLeave(t, Completed(snap[t], ctx[t].num, ctx[t].found))
        /\ UNCHANGED invoices /\ ctx[t].found \in Invoices /\ ctx[t].num \in Numbers
        /\ invoices[ctx[t].found] = ctx[t].num
    BY <1>1, <1>9 DEF LinkFound, FoundIsNumbered, NumberKnown, NumberedSteps
  <2>2. /\ Completed(snap[t], ctx[t].num, ctx[t].found) \in Row
        /\ Pair(Completed(snap[t], ctx[t].num, ctx[t].found), invoices)
    BY <1>1, <2>1, BuiltPair, RowTypes
  <2>3. QED
    BY <1>4, <2>1, <2>2
<1>10. QED
  BY <1>2, <1>3, <1>5, <1>7, <1>8, <1>9 DEF Answer

\* A step of one handler that writes agreeing pairs only.
LEMMA PairsStep ==
    ASSUME BooksHold, PairsHold, NEW t \in Tasks,
           Unique(invoices'),
           \A r : Pair(r, invoices) => Pair(r, invoices'),
           \A i \in Invoices : invoices[i] # NoNumber => invoices'[i] = invoices[i],
           \A f \in Files :
               HasRow(f)' => \/ HasRow(f) /\ row'[f] = row[f]
                            \/ Pair(row'[f], invoices'),
           \A u \in Tasks \ {t} : pc'[u] = pc[u] /\ snap'[u] = snap[u] /\ ctx'[u] = ctx[u],
           Pair(snap'[t], invoices'),
           FoundIsNumbered(t, pc'[t], ctx'[t], invoices')
    PROVE  PairsHold'
<1>1. ASSUME NEW f \in Files, HasRow(f)' PROVE Pair(row'[f], invoices')
  BY <1>1 DEF PairsHold
<1>2. ASSUME NEW u \in Tasks
      PROVE  Pair(snap'[u], invoices') /\ FoundIsNumbered(u, pc'[u], ctx'[u], invoices')
  <2>1. CASE u = t
    BY <2>1
  <2>2. CASE u # t
    <3>1. /\ pc'[u] = pc[u] /\ snap'[u] = snap[u] /\ ctx'[u] = ctx[u]
          /\ Pair(snap[u], invoices) /\ FoundIsNumbered(u, pc[u], ctx[u], invoices)
          /\ ctx[u].found \in Booked \cup {NoInvoice}
      BY <2>2 DEF PairsHold, BooksHold
    <3>2. ctx[u].found # NoInvoice => invoices'[ctx[u].found] = invoices[ctx[u].found]
      BY <3>1 DEF Booked
    <3>3. QED
      BY <3>1, <3>2 DEF FoundIsNumbered
  <2>3. QED
    BY <2>1, <2>2
<1>3. QED
  BY <1>1, <1>2 DEF PairsHold

LEMMA PairsInit == Init => PairsHold
<1>1. Pair(NewRow, [i \in Invoices |-> NoNumber])
  BY DEF Pair, NewRow
<1>2. QED
  BY <1>1, NoRowIsNoRow DEF Init, PairsHold, Unique, FoundIsNumbered

\* What a SELECT by number returns has the number.
LEMMA AdvancedPairs ==
    ASSUME RInv, PairsHold, NEW t \in Tasks, Advance(t)
    PROVE  PairsHold'
<1>1. /\ WellFormed /\ TypeOK /\ NumberKnown /\ BooksHold /\ PairsHold
      /\ ctx[t] \in Context /\ ctx[t].file \in Files
      /\ Pair(snap[t], invoices) /\ Unique(invoices)
      /\ FoundIsNumbered(t, pc[t], ctx[t], invoices)
  BY HandlerTypes DEF RInv, IInv, WellFormed, LinksHold, PairsHold
<1>2. Advanced(t)
  BY <1>1, AdvanceFacts
<1>3. PICK step \in Steps : pc' = [pc EXCEPT ![t] = step] /\ <<pc[t], step>> \in Moves
  BY <1>2 DEF Advanced
<1>4. /\ UNCHANGED <<row, invoices>>
      /\ \A u \in Tasks \ {t} : pc'[u] = pc[u] /\ ctx'[u] = ctx[u] /\ snap'[u] = snap[u]
      /\ pc'[t] = step
  BY <1>1, <1>2, <1>3 DEF Advanced, TypeOK
<1>5. Pair(snap'[t], invoices')
  <2>1. pc[t] \in {"refresh", "load"} => HasRow(ctx[t].file)
    BY <1>1 DEF WellFormed, Registered
  <2>2. snap'[t] = IF pc[t] \in {"refresh", "load"} THEN row[ctx[t].file] ELSE snap[t]
    BY <1>2 DEF Advanced
  <2>3. QED
    BY <1>1, <1>4, <2>1, <2>2 DEF PairsHold
<1>6. FoundIsNumbered(t, pc'[t], ctx'[t], invoices')
  <2>1. CASE FindInvoice(t) \/ Refetch(t)
    <3>1. PICK i \in Lookup(ctx[t].num) : ctx' = [ctx EXCEPT ![t] = Found(@, i)]
      BY <2>1 DEF FindInvoice, Refetch
    <3>2. ctx'[t] = Found(ctx[t], i)
      BY <1>1, <3>1 DEF TypeOK
    <3>3. ctx'[t].found = i /\ ctx'[t].num = ctx[t].num
      BY <1>1, <3>2 DEF Found, Context
    <3>4. i # NoInvoice => invoices[i] = ctx[t].num
      BY LookupType
    <3>5. QED
      BY <1>4, <3>3, <3>4 DEF FoundIsNumbered
  <2>2. CASE ~(FindInvoice(t) \/ Refetch(t))
    <3>1. step \notin {"link", "rewrite"}
      <4>1. pc[t] \notin {"find", "refetch"}
        BY <2>2 DEF Advance, OpenForWrite, WriteContent, RefreshRow, ReadEinvoice,
              ReadNoEinvoice, GetLinked, SelectByNumber, LoadForBackground, AnswerValid,
              InsertConflict
      <4>2. QED
        BY <1>3, <4>1 DEF Moves
    <3>2. QED
      BY <1>4, <3>1 DEF FoundIsNumbered
  <2>3. QED
    BY <2>1, <2>2
<1>7. QED
  BY <1>1, <1>4, <1>5, <1>6, PairsStep

LEMMA PairsHoldStep ==
    ASSUME RInv, Plain, PairsHold, [Next]_vars
    PROVE  PairsHold'
<1>1. WellFormed /\ TypeOK /\ NumberKnown /\ BooksHold /\ PairsHold /\ Unique(invoices)
  BY DEF RInv, IInv, WellFormed, LinksHold, PairsHold
<1>2. UNCHANGED invoices =>
         /\ Unique(invoices') /\ \A r : Pair(r, invoices) => Pair(r, invoices')
         /\ \A i \in Invoices : invoices[i] # NoNumber => invoices'[i] = invoices[i]
  BY <1>1
<1>3. \A t \in Tasks : Pair(snap[t], invoices)
  BY <1>1 DEF PairsHold
<1>4. \A t \in Tasks : \A locals, step, table :
         step \notin {"link", "rewrite"} => FoundIsNumbered(t, step, locals, table)
  BY DEF FoundIsNumbered
<1>5. ASSUME NEW t \in Tasks, Leave(t)
      PROVE  /\ \A u \in Tasks \ {t} : pc'[u] = pc[u] /\ snap'[u] = snap[u] /\ ctx'[u] = ctx[u]
             /\ Pair(snap'[t], invoices')
             /\ FoundIsNumbered(t, pc'[t], ctx'[t], invoices')
  <2>1. /\ \A u \in Tasks \ {t} : pc'[u] = pc[u] /\ snap'[u] = snap[u] /\ ctx'[u] = ctx[u]
        /\ pc'[t] = "idle" /\ snap'[t] = NewRow
    BY <1>1, <1>5, LeaveFacts DEF Leave, TypeOK
  <2>2. Pair(NewRow, invoices')
    BY DEF Pair, NewRow
  <2>3. QED
    BY <1>4, <2>1, <2>2
<1>6. ASSUME NEW t \in Tasks, NEW f \in Files, StartUpload(t, f) PROVE PairsHold'
  <2>1. /\ UNCHANGED <<row, invoices, snap>> /\ pc'[t] = "open"
        /\ \A u \in Tasks \ {t} : pc'[u] = pc[u] /\ ctx'[u] = ctx[u]
    BY <1>1, <1>6 DEF StartUpload, TypeOK
  <2>2. Pair(snap'[t], invoices') /\ FoundIsNumbered(t, pc'[t], ctx'[t], invoices')
    BY <1>3, <1>4, <2>1
  <2>3. QED
    BY <1>1, <1>2, <2>1, <2>2, PairsStep
<1>7. ASSUME NEW t \in Tasks, NEW f \in Files, NEW force \in BOOLEAN,
             StartTrigger(t, f, force)
      PROVE  PairsHold'
  <2>1. /\ UNCHANGED <<row, invoices>> /\ HasRow(f) /\ pc'[t] = "read" /\ snap'[t] = row[f]
        /\ \A u \in Tasks \ {t} : pc'[u] = pc[u] /\ ctx'[u] = ctx[u] /\ snap'[u] = snap[u]
    BY <1>1, <1>7 DEF StartTrigger, TypeOK
  <2>2. Pair(snap'[t], invoices') /\ FoundIsNumbered(t, pc'[t], ctx'[t], invoices')
    BY <1>1, <1>4, <2>1 DEF PairsHold
  <2>3. QED
    BY <1>1, <1>2, <2>1, <2>2, PairsStep
<1>8. ASSUME NEW t \in Tasks, Advance(t) PROVE PairsHold'
  BY <1>8, AdvancedPairs
<1>9. ASSUME NEW t \in Tasks, InsertRow(t) PROVE PairsHold'
  <2>1. /\ UNCHANGED <<invoices, snap, ctx>> /\ pc'[t] = "refresh"
        /\ \A u \in Tasks \ {t} : pc'[u] = pc[u]
        /\ \A f \in Files : row'[f] = row[f] \/ row'[f] = NewRow
    BY <1>1, <1>9 DEF InsertRow, TypeOK
  <2>2. Pair(NewRow, invoices')
    BY DEF Pair, NewRow
  <2>3. Pair(snap'[t], invoices') /\ FoundIsNumbered(t, pc'[t], ctx'[t], invoices')
    BY <1>3, <1>4, <2>1
  <2>4. \A f \in Files :
           HasRow(f)' => (HasRow(f) /\ row'[f] = row[f]) \/ Pair(row'[f], invoices')
    BY <2>1, <2>2
  <2>5. QED
    BY <1>1, <1>2, <2>1, <2>3, <2>4, PairsStep
<1>10. ASSUME NEW t \in Tasks, MarkProcessing(t) PROVE PairsHold'
  <2>1. /\ HasRow(ctx[t].file) /\ ctx[t].file \in Files /\ Marked(snap[t]) \in Row
        /\ snap[t] \in Row
    BY <1>1, <1>10, HandlerTypes, RowTypes DEF WellFormed, Registered, MarkProcessing
  <2>2. /\ \A f \in Files : f # ctx[t].file => row'[f] = row[f]
        /\ row'[ctx[t].file] = Flushed(row[ctx[t].file], snap[t], Marked(snap[t]))
    BY <1>1, <1>10, <2>1, CommitFacts DEF Commit, MarkProcessing
  <2>3. Pair(Marked(snap[t]), invoices) /\ Pair(row[ctx[t].file], invoices)
    BY <1>1, <1>3, <2>1, BuiltPair DEF PairsHold
  <2>4. Pair(row'[ctx[t].file], invoices)
    BY <1>1, <1>3, <2>2, <2>3, FlushedPair
  <2>5. /\ snap'[t] = Marked(snap[t]) /\ ctx'[t] = ctx[t] /\ pc'[t] = "llm"
        /\ UNCHANGED invoices
        /\ \A u \in Tasks \ {t} : pc'[u] = pc[u] /\ ctx'[u] = ctx[u] /\ snap'[u] = snap[u]
    BY <1>1, <1>10 DEF Commit, MarkProcessing, TypeOK
  <2>6. Pair(snap'[t], invoices') /\ FoundIsNumbered(t, pc'[t], ctx'[t], invoices')
    BY <1>4, <2>3, <2>5
  <2>7. \A f \in Files :
           HasRow(f)' => (HasRow(f) /\ row'[f] = row[f]) \/ Pair(row'[f], invoices')
    BY <2>2, <2>4, <2>5
  <2>8. QED
    BY <1>1, <1>2, <2>5, <2>6, <2>7, PairsStep
<1>11. ASSUME NEW t \in Tasks, Return(t) PROVE PairsHold'
  <2>1. Leave(t) /\ UNCHANGED <<row, invoices>>
    BY <1>1, <1>11, ReturnFacts DEF Returned
  <2>2. QED
    BY <1>1, <1>2, <1>5, <2>1, PairsStep
<1>12. ASSUME NEW t \in Tasks, Answer(t) PROVE PairsHold'
  <2>1. /\ Unique(invoices')
        /\ \A r : Pair(r, invoices) => Pair(r, invoices')
        /\ \A i \in Invoices : invoices[i] # NoNumber => invoices'[i] = invoices[i]
    BY <1>12, AnswerPair
  <2>2. PICK new \in Row : CommitAndLeave(t, new) /\ Pair(new, invoices')
    BY <1>12, AnswerPair
  <2>3. HasRow(ctx[t].file) /\ ctx[t].file \in Files /\ Leave(t)
    BY <1>1, <1>12, <2>2, AnswerFacts, HandlerTypes
       DEF WellFormed, Registered, Answered, CommitAndLeave
  <2>4. /\ \A f \in Files : f # ctx[t].file => row'[f] = row[f]
        /\ row'[ctx[t].file] = Flushed(row[ctx[t].file], snap[t], new)
    BY <1>1, <2>2, <2>3, CommitFacts DEF CommitAndLeave
  <2>5. Pair(row[ctx[t].file], invoices') /\ Pair(snap[t], invoices')
    BY <1>1, <1>3, <2>1, <2>3 DEF PairsHold
  <2>6. Pair(row'[ctx[t].file], invoices')
    BY <2>1, <2>2, <2>4, <2>5, FlushedPair
  <2>7. \A f \in Files :
           HasRow(f)' => (HasRow(f) /\ row'[f] = row[f]) \/ Pair(row'[f], invoices')
    BY <2>4, <2>6
  <2>8. QED
    BY <1>1, <1>5, <2>1, <2>3, <2>7, PairsStep
<1>13. ASSUME NEW t \in Tasks, Rewrite(t) PROVE PairsHold'
  <2>1. /\ HasRow(ctx[t].file) /\ ctx[t].file \in Files /\ row[ctx[t].file] \in Row
        /\ Leave(t) /\ UNCHANGED invoices
        /\ ctx[t].found \in Invoices \cup {NoInvoice} /\ ctx[t].num \in Numbers
        /\ FoundIsNumbered(t, pc[t], ctx[t], invoices) /\ pc[t] = "rewrite"
        /\ Pair(row[ctx[t].file], invoices)
    BY <1>1, <1>13, HandlerTypes
       DEF WellFormed, Registered, PairsHold, NumberKnown, NumberedSteps, Rewrite
  <2>2. PICK new : row' = [row EXCEPT ![ctx[t].file] = new] /\ Pair(new, invoices)
    <3>1. CASE ctx[t].found = NoInvoice
      <4>1. Pair(Ended(row[ctx[t].file], "failed", "exception"), invoices)
        BY <2>1, BuiltPair
      <4>2. row' = [row EXCEPT ![ctx[t].file] = Ended(row[ctx[t].file], "failed", "exception")]
        BY <1>13, <3>1 DEF Rewrite
      <4>3. QED
        BY <4>1, <4>2
    <3>2. CASE ctx[t].found # NoInvoice
      <4>1. Pair(Completed(row[ctx[t].file], ctx[t].num, ctx[t].found), invoices)
        BY <2>1, <3>2, BuiltPair DEF FoundIsNumbered
      <4>2. row' = [row EXCEPT ![ctx[t].file] =
                       Completed(row[ctx[t].file], ctx[t].num, ctx[t].found)]
        BY <1>13, <3>2 DEF Rewrite
      <4>3. QED
        BY <4>1, <4>2
    <3>3. QED
      BY <3>1, <3>2
  <2>3. \A f \in Files :
           HasRow(f)' => (HasRow(f) /\ row'[f] = row[f]) \/ Pair(row'[f], invoices')
    BY <1>1, <2>1, <2>2 DEF TypeOK
  <2>4. QED
    BY <1>1, <1>2, <1>5, <2>1, <2>3, PairsStep
<1>14. ASSUME Crash PROVE PairsHold'
  <2>1. /\ UNCHANGED <<row, invoices>>
        /\ \A t \in Tasks : pc'[t] = "idle" /\ snap'[t] = NewRow
    BY <1>14 DEF Crash
  <2>2. Pair(NewRow, invoices)
    BY DEF Pair, NewRow
  <2>3. QED
    BY <1>1, <1>4, <2>1, <2>2 DEF PairsHold
<1>15. CASE UNCHANGED vars
  BY <1>1, <1>15 DEF vars, PairsHold
<1>16. QED
  BY <1>6, <1>7, <1>8, <1>9, <1>10, <1>11, <1>12, <1>13, <1>14, <1>15, StepKinds

-----------------------------------------------------------------------------
(* The content on disk *)

\* The content of f can be read back, now or when its upload has rewritten it.
Content(f) ==
    \/ store[f] = "full"
    \/ /\ store[f] = "partial"
       /\ crashes > 0 \/ \E t \in Tasks : pc[t] = "write" /\ ctx[t].file = f

\* A handler saves the content before it registers the file.
ContentHold ==
    /\ \A f \in Files : HasRow(f) => Content(f)
    /\ \A t \in Tasks : pc[t] = "insert" => Content(ctx[t].file)

\* The steps that neither touch the disk nor end a write.
LEMMA DiskStep ==
    ASSUME TypeOK, ContentHold, NEW t \in Tasks,
           UNCHANGED <<store, crashes>>, pc[t] # "write", pc'[t] # "insert",
           \A u \in Tasks \ {t} : pc'[u] = pc[u] /\ ctx'[u] = ctx[u],
           \A f \in Files :
               HasRow(f)' => HasRow(f) \/ (pc[t] = "insert" /\ f = ctx[t].file)
    PROVE  ContentHold'
<1>1. ASSUME NEW f \in Files, Content(f) PROVE Content(f)'
  BY <1>1 DEF Content
<1>2. \A f \in Files : HasRow(f)' => Content(f)'
  BY <1>1 DEF ContentHold
<1>3. ASSUME NEW u \in Tasks, pc'[u] = "insert" PROVE Content(ctx[u].file)'
  <2>1. u # t /\ pc[u] = "insert" /\ ctx'[u] = ctx[u] /\ ctx[u].file \in Files
    BY <1>3, HandlerTypes
  <2>2. Content(ctx[u].file)
    BY <2>1 DEF ContentHold
  <2>3. QED
    BY <1>1, <2>1, <2>2
<1>4. QED
  BY <1>2, <1>3 DEF ContentHold

\* Truncating a file leaves a handler that will write it again, and writing it
\* completes it, whoever else was writing it.
LEMMA WriteSteps ==
    ASSUME TypeOK, ContentHold, NEW t \in Tasks, OpenForWrite(t) \/ WriteContent(t)
    PROVE  ContentHold'
<1> DEFINE f == ctx[t].file
<1>1. /\ f \in Files /\ UNCHANGED <<row, ctx, crashes>>
      /\ \A u \in Tasks \ {t} : pc'[u] = pc[u]
      /\ \A g \in Files : g # f => store'[g] = store[g]
  BY HandlerTypes DEF TypeOK, OpenForWrite, WriteContent
<1>2. \/ /\ pc'[t] = "write" /\ store'[f] = "partial" /\ pc[t] = "open"
      \/ /\ pc'[t] = "insert" /\ store'[f] = "full" /\ pc[t] = "write"
  BY <1>1 DEF TypeOK, OpenForWrite, WriteContent
<1>3. \A g \in Files : g = f => Content(g)'
  BY <1>1, <1>2 DEF Content
<1>4. ASSUME NEW g \in Files, Content(g) PROVE Content(g)'
  <2>1. CASE g = f
    BY <1>3, <2>1
  <2>2. CASE g # f
    BY <1>1, <1>4, <2>2 DEF Content
  <2>3. QED
    BY <2>1, <2>2
<1>5. ASSUME NEW u \in Tasks, pc'[u] = "insert" PROVE Content(ctx[u].file)'
  <2>1. CASE u = t
    BY <1>1, <1>3, <2>1
  <2>2. CASE u # t
    BY <1>1, <1>4, <1>5, <2>2, HandlerTypes DEF ContentHold
  <2>3. QED
    BY <2>1, <2>2
<1>6. QED
  BY <1>1, <1>4, <1>5 DEF ContentHold

LEMMA ContentHoldStep ==
    ASSUME RInv, ContentHold, [Next]_vars
    PROVE  ContentHold'
<1>1. WellFormed /\ TypeOK
  BY DEF RInv, IInv, WellFormed
<1>2. ASSUME NEW t \in Tasks, Leave(t), pc[t] # "write", UNCHANGED <<store, crashes>>,
             \A f \in Files : HasRow(f)' => HasRow(f)
      PROVE  ContentHold'
  BY <1>1, <1>2, LeaveFacts, DiskStep
<1>3. ASSUME NEW t \in Tasks, NEW f \in Files, StartUpload(t, f) PROVE ContentHold'
  BY <1>1, <1>3, DiskStep DEF StartUpload, TypeOK
<1>4. ASSUME NEW t \in Tasks, NEW f \in Files, NEW force \in BOOLEAN,
             StartTrigger(t, f, force)
      PROVE  ContentHold'
  BY <1>1, <1>4, DiskStep DEF StartTrigger, TypeOK
<1>5. ASSUME NEW t \in Tasks, Advance(t) PROVE ContentHold'
  <2>1. CASE OpenForWrite(t) \/ WriteContent(t)
    BY <1>1, <2>1, WriteSteps
  <2>2. CASE ~(OpenForWrite(t) \/ WriteContent(t))
    <3>1. UNCHANGED store /\ pc[t] \notin {"open", "write"}
      BY <1>5, <2>2 DEF Advance, RefreshRow, ReadEinvoice, ReadNoEinvoice, GetLinked,
            SelectByNumber, LoadForBackground, AnswerValid, FindInvoice, InsertConflict, Refetch
    <3>2. Advanced(t)
      BY <1>1, <1>5, AdvanceFacts
    <3>3. PICK step \in Steps : pc' = [pc EXCEPT ![t] = step] /\ <<pc[t], step>> \in Moves
      BY <3>2 DEF Advanced
    <3>4. step # "insert"
      BY <3>1, <3>3 DEF Moves
    <3>5. /\ UNCHANGED <<row, crashes>> /\ pc'[t] = step
          /\ \A u \in Tasks \ {t} : pc'[u] = pc[u] /\ ctx'[u] = ctx[u]
      BY <1>1, <3>2, <3>3 DEF Advanced, TypeOK
    <3>6. QED
      BY <1>1, <3>1, <3>4, <3>5, DiskStep
  <2>3. QED
    BY <2>1, <2>2
<1>6. ASSUME NEW t \in Tasks, InsertRow(t) PROVE ContentHold'
  <2>1. /\ UNCHANGED <<store, crashes, ctx>> /\ pc[t] = "insert" /\ pc'[t] = "refresh"
        /\ \A u \in Tasks \ {t} : pc'[u] = pc[u]
        /\ \A f \in Files : f # ctx[t].file => row'[f] = row[f]
    BY <1>1, <1>6 DEF InsertRow, TypeOK
  <2>2. QED
    BY <1>1, <2>1, DiskStep
<1>7. ASSUME NEW t \in Tasks, MarkProcessing(t) PROVE ContentHold'
  <2>1. /\ UNCHANGED <<store, crashes, ctx>> /\ pc[t] = "mark" /\ pc'[t] = "llm"
        /\ \A u \in Tasks \ {t} : pc'[u] = pc[u]
        /\ \A f \in Files : f # ctx[t].file => row'[f] = row[f]
        /\ HasRow(ctx[t].file)
    BY <1>1, <1>7 DEF MarkProcessing, Commit, TypeOK, WellFormed, Registered
  <2>2. QED
    BY <1>1, <2>1, DiskStep
<1>8. ASSUME NEW t \in Tasks, Return(t) PROVE ContentHold'
  <2>1. /\ Leave(t) /\ UNCHANGED <<row, store, crashes>> /\ pc[t] # "write"
    BY <1>8 DEF Return, InsertDuplicate, ApplyFails, SkipCompleted, InsertRejected
  <2>2. QED
    BY <1>2, <2>1
<1>9. ASSUME NEW t \in Tasks, Answer(t) PROVE ContentHold'
  <2>1. /\ Leave(t) /\ UNCHANGED <<store, crashes>>
        /\ pc[t] \in {"read", "apply", "llm", "link"}
        /\ \A f \in Files : f # ctx[t].file => row'[f] = row[f]
    BY <1>1, <1>9 DEF Answer, RejectXml, ApplyEinvoice, ExtractionRaises, AnswerInvalid,
          LinkFound, InsertAndLink, CommitAndLeave, TypeOK
  <2>2. HasRow(ctx[t].file)
    BY <1>1, <2>1 DEF WellFormed, Registered
  <2>3. QED
    BY <1>2, <2>1, <2>2
<1>10. ASSUME NEW t \in Tasks, Rewrite(t) PROVE ContentHold'
  <2>1. /\ Leave(t) /\ UNCHANGED <<store, crashes>> /\ pc[t] = "rewrite"
        /\ \A f \in Files : f # ctx[t].file => row'[f] = row[f]
    BY <1>1, <1>10 DEF Rewrite, TypeOK
  <2>2. HasRow(ctx[t].file)
    BY <1>1, <2>1 DEF WellFormed, Registered
  <2>3. QED
    BY <1>2, <2>1, <2>2
<1>11. ASSUME Crash PROVE ContentHold'
  <2>1. /\ UNCHANGED <<row, store>> /\ crashes' > 0
        /\ \A t \in Tasks : pc'[t] = "idle"
    BY <1>1, <1>11 DEF Crash, TypeOK
  <2>2. ASSUME NEW f \in Files, Content(f) PROVE Content(f)'
    BY <2>1, <2>2 DEF Content
  <2>3. QED
    BY <2>1, <2>2 DEF ContentHold
<1>12. CASE UNCHANGED vars
  BY <1>12 DEF vars, ContentHold, Content
<1>13. QED
  BY <1>3, <1>4, <1>5, <1>6, <1>7, <1>8, <1>9, <1>10, <1>11, <1>12, StepKinds

-----------------------------------------------------------------------------
(* The link of a file with an e-invoice *)

Embedded(n) == \E f \in Files : Einvoice[f] = n

\* What a handler knows about invoice numbers still holds when it uses it: the
\* number is that of its e-invoice, and the invoice it found, or had linked
\* under that number, bears it.
NumbersFit(step, loaded, locals, table) ==
    /\ step \in {"get_linked", "by_number", "apply"} => locals.num = Einvoice[locals.file]
    /\ step \in {"apply", "link", "rewrite"} /\ locals.found # NoInvoice /\ Embedded(locals.num)
           => table[locals.found] = locals.num
    /\ step \in {"by_number", "apply"} /\ loaded.invoice # NoInvoice /\ locals.lnum = locals.num
           => table[loaded.invoice] = locals.num

NumbersHold == \A t \in Tasks : NumbersFit(pc[t], snap[t], ctx[t], invoices)

LInv == RInv /\ (OneNumber => NumbersHold)

\* An invoice that bears the e-invoice's number keeps it.
NumberKept(before, after) ==
    \A i \in Invoices, n \in Numbers : Embedded(n) /\ before[i] = n => after[i] = n

\* Only the e-invoice path renames, and it gives out one number only; a new
\* invoice takes the place of none.
LEMMA NumberKeptStep ==
    ASSUME RInv, OneNumber, NumbersHold, [Next]_vars
    PROVE  NumberKept(invoices, invoices')
<1>1. WellFormed /\ TypeOK /\ EinvoiceKnown
  BY DEF RInv, IInv, WellFormed
<1>2. CASE UNCHANGED invoices
  BY <1>2 DEF NumberKept
<1>3. ASSUME NEW t \in Tasks, NEW i \in Free, NEW n,
             invoices' = [invoices EXCEPT ![i] = n]
      PROVE  NumberKept(invoices, invoices')
  BY <1>1, <1>3, ConstantsOK DEF TypeOK, Free, NumberKept
<1>4. ASSUME NEW t \in Tasks, ApplyEinvoice(t) PROVE NumberKept(invoices, invoices')
  <2>1. PICK i \in Invoices : Applied(t, i)
    BY <1>4 DEF ApplyEinvoice
  <2>2. /\ ctx[t].num = Einvoice[ctx[t].file] /\ Einvoice[ctx[t].file] # NoNumber
        /\ ctx[t].file \in Files
    BY <1>1, <1>4, HandlerTypes DEF ApplyEinvoice, NumbersHold, NumbersFit, EinvoiceKnown
  <2>3. \A n \in Numbers : Embedded(n) => n = ctx[t].num
    BY <2>2, ConstantsOK DEF Embedded, OneNumber
  <2>4. invoices' = [invoices EXCEPT ![i] = ctx[t].num] => NumberKept(invoices, invoices')
    BY <1>1, <2>3 DEF TypeOK, NumberKept
  <2>5. QED
    BY <1>2, <2>1, <2>4 DEF Applied
<1>5. ASSUME NEW t \in Tasks, Answer(t) PROVE NumberKept(invoices, invoices')
  BY <1>2, <1>3, <1>4, <1>5
     DEF Answer, RejectXml, ExtractionRaises, AnswerInvalid, LinkFound, InsertAndLink
<1>6. ASSUME NEW t \in Tasks, Advance(t) \/ Return(t) PROVE NumberKept(invoices, invoices')
  BY <1>1, <1>2, <1>6, AdvanceFacts, ReturnFacts DEF Advanced, Returned
<1>7. QED
  BY <1>2, <1>5, <1>6, StepKinds
     DEF StartUpload, StartTrigger, InsertRow, MarkProcessing, Rewrite, Crash, vars

\* What fits goes on to fit while the handler stays where it is.
LEMMA FitStays ==
    ASSUME WellFormed, NumberKnown, NEW t \in Tasks, NEW table, NumberKept(invoices, table),
           NumbersFit(pc[t], snap[t], ctx[t], invoices)
    PROVE  NumbersFit(pc[t], snap[t], ctx[t], table)
<1>1. /\ ctx[t].file \in Files
      /\ ctx[t].found \in Invoices \cup {NoInvoice}
      /\ snap[t].invoice \in Invoices \cup {NoInvoice}
      /\ pc[t] \in NumberedSteps => ctx[t].num \in Numbers
  BY HandlerTypes DEF WellFormed, NumberKnown
<1>2. /\ pc[t] \in {"apply", "link", "rewrite"} /\ ctx[t].found # NoInvoice
             /\ Embedded(ctx[t].num)
             => table[ctx[t].found] = ctx[t].num
  BY <1>1 DEF NumbersFit, NumberKept, NumberedSteps
<1>3. pc[t] \in {"by_number", "apply"} /\ snap[t].invoice # NoInvoice
         /\ ctx[t].lnum = ctx[t].num
         => table[snap[t].invoice] = ctx[t].num
  BY <1>1 DEF NumbersFit, NumberKept, NumberedSteps, Embedded
<1>4. QED
  BY <1>2, <1>3 DEF NumbersFit

\* Elsewhere nothing is claimed.
LEMMA FitsElsewhere ==
    ASSUME NEW step, NEW loaded, NEW locals, NEW table,
           step \notin {"get_linked", "by_number", "apply", "link", "rewrite"}
    PROVE  NumbersFit(step, loaded, locals, table)
BY DEF NumbersFit

\* What a handler learns on its way fits.
LEMMA AdvancedFits ==
    ASSUME RInv, NumbersHold, NEW t \in Tasks, Advance(t)
    PROVE  NumbersFit(pc'[t], snap'[t], ctx'[t], invoices')
<1>1. /\ WellFormed /\ TypeOK /\ NumberKnown
      /\ ctx[t] \in Context /\ ctx[t].file \in Files
      /\ NumbersFit(pc[t], snap[t], ctx[t], invoices)
  BY HandlerTypes DEF RInv, IInv, WellFormed, LinksHold, NumbersHold
<1>2. CASE ReadEinvoice(t)
  <2>1. /\ ctx'[t] = Numbered(ctx[t], Einvoice[ctx[t].file])
        /\ snap'[t] = snap[t]
        /\ pc'[t] = IF snap[t].invoice = NoInvoice THEN "by_number" ELSE "get_linked"
    BY <1>1, <1>2 DEF ReadEinvoice, TypeOK
  <2>2. ctx'[t].num = Einvoice[ctx[t].file] /\ ctx'[t].file = ctx[t].file
    BY <1>1, <2>1 DEF Numbered, Context
  <2>3. QED
    BY <2>1, <2>2 DEF NumbersFit
<1>3. CASE GetLinked(t)
  <2>1. /\ ctx'[t] = LinkedAs(ctx[t], invoices[snap[t].invoice])
        /\ snap'[t] = snap[t] /\ pc'[t] = "by_number" /\ pc[t] = "get_linked"
        /\ UNCHANGED invoices
    BY <1>1, <1>3 DEF GetLinked, TypeOK
  <2>2. /\ ctx'[t].num = ctx[t].num /\ ctx'[t].file = ctx[t].file
        /\ ctx'[t].lnum = invoices[snap[t].invoice]
    BY <1>1, <2>1 DEF LinkedAs, Context
  <2>3. QED
    BY <1>1, <2>1, <2>2 DEF NumbersFit
<1>4. CASE SelectByNumber(t) \/ FindInvoice(t) \/ Refetch(t)
  <2>1. PICK i \in Lookup(ctx[t].num) : ctx' = [ctx EXCEPT ![t] = Found(@, i)]
    BY <1>4 DEF SelectByNumber, FindInvoice, Refetch
  <2>2. ctx'[t] = Found(ctx[t], i)
    BY <1>1, <2>1 DEF TypeOK
  <2>3. /\ ctx'[t].num = ctx[t].num /\ ctx'[t].file = ctx[t].file
        /\ ctx'[t].lnum = ctx[t].lnum /\ ctx'[t].found = i
    BY <1>1, <2>2 DEF Found, Context
  <2>4. i # NoInvoice => invoices[i] = ctx[t].num
    BY LookupType
  <2>5. /\ snap'[t] = snap[t] /\ UNCHANGED invoices
        /\ \/ pc[t] = "by_number" /\ pc'[t] = "apply"
           \/ pc'[t] \in {"link", "rewrite"}
    BY <1>1, <1>4 DEF SelectByNumber, FindInvoice, Refetch, TypeOK
  <2>6. QED
    BY <1>1, <2>3, <2>4, <2>5 DEF NumbersFit
<1>5. CASE OpenForWrite(t) \/ WriteContent(t) \/ RefreshRow(t) \/ ReadNoEinvoice(t)
           \/ LoadForBackground(t) \/ AnswerValid(t) \/ InsertConflict(t)
  <2>1. pc'[t] \notin {"get_linked", "by_number", "apply", "link", "rewrite"}
    BY <1>1, <1>5 DEF OpenForWrite, WriteContent, RefreshRow, ReadNoEinvoice,
          LoadForBackground, AnswerValid, InsertConflict, TypeOK
  <2>2. QED
    BY <2>1, FitsElsewhere
<1>6. QED
  BY <1>2, <1>3, <1>4, <1>5 DEF Advance

LEMMA NumbersHoldStep ==
    ASSUME RInv, OneNumber, NumbersHold, [Next]_vars
    PROVE  NumbersHold'
<1>1. WellFormed /\ TypeOK /\ NumberKnown
  BY DEF RInv, IInv, WellFormed, LinksHold
<1>2. \A u \in Tasks : NumbersFit(pc[u], snap[u], ctx[u], invoices')
  BY <1>1, NumberKeptStep, FitStays DEF NumbersHold
<1>3. ASSUME NEW t \in Tasks,
             \A u \in Tasks \ {t} : pc'[u] = pc[u] /\ snap'[u] = snap[u] /\ ctx'[u] = ctx[u],
             \/ pc'[t] \in {"idle", "open", "read", "refresh", "llm"}
             \/ NumbersFit(pc'[t], snap'[t], ctx'[t], invoices')
      PROVE  NumbersHold'
  <2>1. NumbersFit(pc'[t], snap'[t], ctx'[t], invoices')
    BY <1>3, FitsElsewhere
  <2>2. QED
    BY <1>2, <1>3, <2>1 DEF NumbersHold
<1>4. ASSUME NEW t \in Tasks, Leave(t) PROVE NumbersHold'
  BY <1>1, <1>3, <1>4, LeaveFacts
<1>5. ASSUME NEW t \in Tasks, NEW f \in Files, StartUpload(t, f) PROVE NumbersHold'
  BY <1>1, <1>3, <1>5 DEF StartUpload, TypeOK
<1>6. ASSUME NEW t \in Tasks, NEW f \in Files, NEW force \in BOOLEAN,
             StartTrigger(t, f, force)
      PROVE  NumbersHold'
  BY <1>1, <1>3, <1>6 DEF StartTrigger, TypeOK
<1>7. ASSUME NEW t \in Tasks, Advance(t) PROVE NumbersHold'
  <2>1. \A u \in Tasks \ {t} : pc'[u] = pc[u] /\ snap'[u] = snap[u] /\ ctx'[u] = ctx[u]
    BY <1>1, <1>7, AdvanceFacts DEF Advanced, TypeOK
  <2>2. QED
    BY <1>3, <1>7, <2>1, AdvancedFits
<1>8. ASSUME NEW t \in Tasks, InsertRow(t) PROVE NumbersHold'
  BY <1>1, <1>3, <1>8 DEF InsertRow, TypeOK
<1>9. ASSUME NEW t \in Tasks, MarkProcessing(t) PROVE NumbersHold'
  BY <1>1, <1>3, <1>9 DEF MarkProcessing, Commit, TypeOK
<1>10. ASSUME NEW t \in Tasks, Return(t) PROVE NumbersHold'
  BY <1>1, <1>4, <1>10, ReturnFacts DEF Returned
<1>11. ASSUME NEW t \in Tasks, Answer(t) PROVE NumbersHold'
  BY <1>1, <1>4, <1>11, AnswerFacts DEF Answered, CommitAndLeave
<1>12. ASSUME NEW t \in Tasks, Rewrite(t) PROVE NumbersHold'
  BY <1>4, <1>12 DEF Rewrite
<1>13. ASSUME Crash PROVE NumbersHold'
  BY <1>13, FitsElsewhere DEF Crash, NumbersHold
<1>14. CASE UNCHANGED vars
  BY <1>14 DEF vars, NumbersHold
<1>15. QED
  BY <1>5, <1>6, <1>7, <1>8, <1>9, <1>10, <1>11, <1>12, <1>13, <1>14, StepKinds

\* A row that links the invoice of a number which it shows as its result.
LinksIt(r, table, n) == r.result = n => r.invoice # NoInvoice /\ table[r.invoice] = n

\* The columns that decide it, as they are flushed.
LEMMA FlushedColumns ==
    ASSUME NEW cur, NEW old, NEW new
    PROVE  /\ Flushed(cur, old, new).invoice =
                 IF new.invoice # old.invoice THEN new.invoice ELSE cur.invoice
           /\ Flushed(cur, old, new).result =
                 IF new.result # old.result THEN new.result ELSE cur.result
BY DEF Flushed

\* The row in memory that a handler's last commit flushes either leaves both
\* columns as they were loaded or links the invoice of its number.
LEMMA AnswerLinks ==
    ASSUME RInv, OneNumber, NumbersHold, NEW t \in Tasks, Answer(t)
    PROVE  \E new \in Row :
              /\ CommitAndLeave(t, new)
              /\ \/ new.result = snap[t].result /\ new.invoice = snap[t].invoice
                 \/ /\ pc[t] \in {"read", "apply", "link"}
                    /\ \A n \in Numbers : Embedded(n) => LinksIt(new, invoices', n)
<1>1. /\ WellFormed /\ TypeOK /\ NumberKnown /\ EinvoiceKnown
      /\ snap[t] \in Row /\ ctx[t].file \in Files
      /\ ctx[t].found \in Invoices \cup {NoInvoice}
      /\ ctx[t].num \in Numbers \cup {NoNumber}
      /\ snap[t].invoice \in Invoices \cup {NoInvoice}
      /\ NumbersFit(pc[t], snap[t], ctx[t], invoices)
  BY HandlerTypes DEF RInv, IInv, WellFormed, LinksHold, NumbersHold
<1>2. ASSUME NEW i \in Invoices, pc[t] \in {"apply", "link"},
             Embedded(ctx[t].num) => invoices'[i] = ctx[t].num,
             NEW new \in Row, new.result = ctx[t].num, new.invoice = i,
             CommitAndLeave(t, new)
      PROVE  \E r \in Row :
                /\ CommitAndLeave(t, r)
                /\ pc[t] \in {"read", "apply", "link"}
                /\ \A n \in Numbers : Embedded(n) => LinksIt(r, invoices', n)
  BY <1>2, ConstantsOK DEF LinksIt
<1>3. \A i \in Invoices :
         /\ Completed(snap[t], ctx[t].num, i).result = ctx[t].num
         /\ Completed(snap[t], ctx[t].num, i).invoice = i
         /\ Counted(Completed(snap[t], ctx[t].num, i)).result = ctx[t].num
         /\ Counted(Completed(snap[t], ctx[t].num, i)).invoice = i
  BY <1>1 DEF Completed, Counted, Row
<1>4. CASE RejectXml(t)
  <2>1. /\ CommitAndLeave(t, Rejected(snap[t])) /\ pc[t] = "read"
        /\ Rejected(snap[t]) \in Row
    BY <1>1, <1>4, RowTypes DEF RejectXml
  <2>2. \A n \in Numbers : LinksIt(Rejected(snap[t]), invoices', n)
    BY ConstantsOK DEF LinksIt, Rejected
  <2>3. QED
    BY <2>1, <2>2
<1>5. CASE ApplyEinvoice(t)
  <2>1. PICK i \in Invoices :
           /\ Applied(t, i)
           /\ CommitAndLeave(t, Counted(Completed(snap[t], ctx[t].num, i)))
    BY <1>5 DEF ApplyEinvoice
  <2>2. pc[t] = "apply" /\ ctx[t].num = Einvoice[ctx[t].file] /\ Embedded(ctx[t].num)
    BY <1>1, <1>5 DEF ApplyEinvoice, NumbersFit, Embedded
  <2>3. invoices'[i] = ctx[t].num
    <3>1. CASE ctx[t].found # NoInvoice
      BY <1>1, <2>1, <2>2, <3>1 DEF Applied, NumbersFit
    <3>2. CASE ctx[t].found = NoInvoice /\ snap[t].invoice # NoInvoice
      BY <1>1, <2>1, <2>2, <3>2 DEF Applied, NumbersFit, TypeOK
    <3>3. CASE ctx[t].found = NoInvoice /\ snap[t].invoice = NoInvoice
      BY <1>1, <2>1, <3>3 DEF Applied, TypeOK
    <3>4. QED
      BY <3>1, <3>2, <3>3
  <2>4. Counted(Completed(snap[t], ctx[t].num, i)) \in Row
    BY <1>1, CompletedKeepsLink
  <2>5. QED
    BY <1>2, <1>3, <2>1, <2>2, <2>3, <2>4
<1>6. ASSUME NEW s \in {"failed", "not_an_invoice"}, NEW e \in Error,
             CommitAndLeave(t, Ended(snap[t], s, e))
      PROVE  \E new \in Row :
                /\ CommitAndLeave(t, new)
                /\ new.result = snap[t].result /\ new.invoice = snap[t].invoice
  <2>1. /\ Ended(snap[t], s, e) \in Row
        /\ Ended(snap[t], s, e).result = snap[t].result
        /\ Ended(snap[t], s, e).invoice = snap[t].invoice
    BY <1>1, EndedKeepsLink DEF Ended, Row
  <2>2. QED
    BY <1>6, <2>1
<1>7. CASE ExtractionRaises(t) \/ AnswerInvalid(t)
  <2>1. \E s \in {"failed", "not_an_invoice"}, e \in Error :
           CommitAndLeave(t, Ended(snap[t], s, e))
    BY <1>7 DEF ExtractionRaises, AnswerInvalid, Error
  <2>2. QED
    BY <1>6, <2>1
<1>8. CASE LinkFound(t)
  <2>1. /\ CommitAndLeave(t, Completed(snap[t], ctx[t].num, ctx[t].found))
        /\ pc[t] = "link" /\ ctx[t].found \in Invoices /\ UNCHANGED invoices
        /\ ctx[t].num \in Numbers
    BY <1>1, <1>8 DEF LinkFound, NumberKnown, NumberedSteps
  <2>2. Embedded(ctx[t].num) => invoices'[ctx[t].found] = ctx[t].num
    BY <1>1, <1>8, <2>1 DEF LinkFound, NumbersFit
  <2>3. Completed(snap[t], ctx[t].num, ctx[t].found) \in Row
    BY <1>1, <2>1, RowTypes
  <2>4. QED
    BY <1>2, <1>3, <2>1, <2>2, <2>3
<1>9. CASE InsertAndLink(t)
  <2>1. PICK i \in Free : /\ invoices' = [invoices EXCEPT ![i] = ctx[t].num]
                          /\ CommitAndLeave(t, Completed(snap[t], ctx[t].num, i))
    BY <1>9 DEF InsertAndLink
  <2>2. i \in Invoices /\ pc[t] = "link" /\ ctx[t].num \in Numbers
    BY <1>1, <1>9, <2>1 DEF InsertAndLink, Free, NumberKnown, NumberedSteps
  <2>3. invoices'[i] = ctx[t].num /\ Completed(snap[t], ctx[t].num, i) \in Row
    BY <1>1, <2>1, <2>2, RowTypes DEF TypeOK
  <2>4. QED
    BY <1>2, <1>3, <2>1, <2>2, <2>3
<1>10. QED
  BY <1>4, <1>5, <1>7, <1>8, <1>9 DEF Answer

\* Whoever takes a file from its e-invoice's invoice was overtaken.
LEMMA LinkStep ==
    ASSUME RInv, OneNumber, NumbersHold, [Next]_vars,
           NEW f \in Files, LinkAgrees(f), ~LinkAgrees(f)'
    PROVE  \E t \in Tasks : /\ ctx[t].file = f /\ Overtaken(t)
                            /\ pc[t] \in {"read", "apply", "link"} /\ pc'[t] = "idle"
<1> DEFINE n == Einvoice[f]
<1>1. WellFormed /\ TypeOK /\ NumberKnown
  BY DEF RInv, IInv, WellFormed, LinksHold
<1>2. NumberKept(invoices, invoices')
  BY NumberKeptStep
<1>3. HasRow(f)' /\ n \in Numbers /\ Embedded(n) /\ ~LinksIt(row'[f], invoices', n)
  BY ConstantsOK DEF LinkAgrees, LinksIt, Embedded
<1>4. HasRow(f) => LinksIt(row[f], invoices, n)
  BY <1>3, ConstantsOK DEF LinkAgrees, LinksIt
<1>5. ~(HasRow(f) /\ row'[f].result = row[f].result /\ row'[f].invoice = row[f].invoice)
  <2>1. HasRow(f) => row[f] \in Row
    BY <1>1 DEF TypeOK
  <2>2. HasRow(f) => row[f].invoice \in Invoices \cup {NoInvoice}
    BY <2>1 DEF Row
  <2>3. QED
    BY <1>2, <1>3, <1>4, <2>2 DEF LinksIt, NumberKept
<1>6. row'[f] # row[f]
  BY <1>3, <1>5
<1>7. ASSUME NEW t \in Tasks PROVE ~Advance(t) /\ ~Return(t)
  BY <1>1, <1>6, AdvanceFacts, ReturnFacts DEF Advanced, Returned
<1>8. ASSUME NEW t \in Tasks PROVE ~InsertRow(t)
  <2>1. ASSUME InsertRow(t) PROVE row'[f] = NewRow
    BY <1>1, <1>6, <2>1, HandlerTypes DEF InsertRow, TypeOK
  <2>2. LinksIt(NewRow, invoices', n)
    BY <1>3, ConstantsOK DEF LinksIt, NewRow
  <2>3. QED
    BY <1>3, <2>1, <2>2
<1>9. ASSUME NEW t \in Tasks PROVE ~MarkProcessing(t)
  <2> SUFFICES ASSUME MarkProcessing(t) PROVE FALSE
    OBVIOUS
  <2>1. HasRow(ctx[t].file) /\ snap[t] \in Row /\ Marked(snap[t]) \in Row
    BY <1>1, HandlerTypes, RowTypes DEF WellFormed, Registered, MarkProcessing
  <2>2. /\ \A g \in Files : g # ctx[t].file => row'[g] = row[g]
        /\ row'[ctx[t].file] = Flushed(row[ctx[t].file], snap[t], Marked(snap[t]))
    BY <1>1, <2>1, CommitFacts DEF Commit, MarkProcessing
  <2>3. Marked(snap[t]).invoice = snap[t].invoice /\ Marked(snap[t]).result = snap[t].result
    BY <2>1 DEF Marked, Counted, Row
  <2>4. QED
    BY <1>5, <1>6, <2>1, <2>2, <2>3, FlushedColumns
<1>10. ASSUME NEW t \in Tasks PROVE ~Rewrite(t)
  <2> SUFFICES ASSUME Rewrite(t) PROVE FALSE
    OBVIOUS
  <2>1. /\ HasRow(ctx[t].file) /\ ctx[t].file \in Files /\ row[ctx[t].file] \in Row
        /\ NumbersFit(pc[t], snap[t], ctx[t], invoices) /\ pc[t] = "rewrite"
        /\ UNCHANGED invoices
    BY <1>1, HandlerTypes DEF WellFormed, Registered, Rewrite, NumbersHold
  <2>2. /\ f = ctx[t].file
        /\ row'[f] = IF ctx[t].found = NoInvoice THEN Ended(row[f], "failed", "exception")
                     ELSE Completed(row[f], ctx[t].num, ctx[t].found)
    BY <1>1, <1>6, <2>1 DEF Rewrite, TypeOK
  <2>3. /\ \A s, e : /\ Ended(row[f], s, e).result = row[f].result
                     /\ Ended(row[f], s, e).invoice = row[f].invoice
        /\ \A m, i : /\ Completed(row[f], m, i).result = m
                     /\ Completed(row[f], m, i).invoice = i
    BY <2>1, <2>2 DEF Ended, Completed, Row
  <2>4. CASE ctx[t].found = NoInvoice
    BY <1>5, <2>1, <2>2, <2>3, <2>4
  <2>5. CASE ctx[t].found # NoInvoice
    BY <1>3, <2>1, <2>2, <2>3, <2>5 DEF LinksIt, NumbersFit
  <2>6. QED
    BY <2>4, <2>5
<1>11. ASSUME NEW t \in Tasks, Answer(t)
       PROVE  /\ ctx[t].file = f /\ Overtaken(t)
              /\ pc[t] \in {"read", "apply", "link"} /\ pc'[t] = "idle"
  <2>1. PICK new \in Row :
           /\ CommitAndLeave(t, new)
           /\ \/ new.result = snap[t].result /\ new.invoice = snap[t].invoice
              \/ /\ pc[t] \in {"read", "apply", "link"}
                 /\ \A m \in Numbers : Embedded(m) => LinksIt(new, invoices', m)
    BY <1>11, AnswerLinks
  <2>2. HasRow(ctx[t].file) /\ pc'[t] = "idle"
    BY <1>1, <1>11, <2>1, AnswerFacts, LeaveFacts
       DEF WellFormed, Registered, Answered, CommitAndLeave
  <2>3. /\ \A g \in Files : g # ctx[t].file => row'[g] = row[g]
        /\ row'[ctx[t].file] = Flushed(row[ctx[t].file], snap[t], new)
    BY <1>1, <2>1, <2>2, CommitFacts DEF CommitAndLeave
  <2>4. f = ctx[t].file
    BY <1>6, <2>3
  <2>5. ~(new.result = snap[t].result /\ new.invoice = snap[t].invoice)
    BY <1>5, <2>2, <2>3, <2>4, FlushedColumns
  <2>6. LinksIt(new, invoices', n) /\ pc[t] \in {"read", "apply", "link"}
    BY <1>3, <2>1, <2>5
  <2>7. Overtaken(t)
    <3> SUFFICES ASSUME ~Overtaken(t) PROVE FALSE
      OBVIOUS
    <3>1. snap[t].result = row[f].result /\ snap[t].invoice = row[f].invoice
      BY <2>4 DEF Overtaken
    <3>2. row'[f].result = new.result /\ row'[f].invoice = new.invoice
      BY <2>3, <2>4, <3>1, FlushedColumns
    <3>3. QED
      BY <1>3, <2>6, <3>2 DEF LinksIt
  <2>8. QED
    BY <2>2, <2>4, <2>6, <2>7
<1>12. \E t \in Tasks : Answer(t)
  BY <1>6, <1>7, <1>8, <1>9, <1>10, StepKinds DEF StartUpload, StartTrigger, Crash, vars
<1>13. QED
  BY <1>11, <1>12

-----------------------------------------------------------------------------
(* The theorems *)

LEMMA ColumnsInductive == /\ Init => CInv
                          /\ CInv /\ [Next]_vars => CInv'
<1>1. Init => CInv
  BY BooksInductive, AttemptsInit, PairsInit DEF CInv
<1>2. CInv /\ [Next]_vars => CInv'
  <2>1. Plain' = Plain
    BY DEF Plain
  <2>2. QED
    BY <2>1, BooksInductive, AttemptsHoldStep, PairsHoldStep DEF CInv
<1>3. QED
  BY <1>1, <1>2

\* A file never shows more attempts than were begun, however many handlers
\* count on copies of its row.
THEOREM AttemptsCorrect == Spec => []AttemptsEarned
<1>1. CInv => AttemptsEarned
  BY DEF CInv, AttemptsHold
<1>2. QED
  BY <1>1, ColumnsInductive, PTL DEF Spec

\* Without e-invoices the stored result always carries the number of the linked
\* invoice, although each handler writes only the columns it changed.
THEOREM ColumnsCorrect == Spec => []ColumnsAgree
<1>1. CInv => ColumnsAgree
  BY DEF CInv, Plain, PairsHold, Pair, ColumnsAgree
<1>2. QED
  BY <1>1, ColumnsInductive, PTL DEF Spec

LEMMA ContentInductive == /\ Init => RInv /\ ContentHold
                          /\ RInv /\ ContentHold /\ [Next]_vars => (RInv /\ ContentHold)'
<1>1. Init => ContentHold
  BY DEF Init, ContentHold
<1>2. QED
  BY <1>1, BooksInductive, ContentHoldStep

\* A registered file can be read back, except while a duplicate upload rewrites
\* it, or once the process has crashed.
THEOREM ContentCorrect == Spec => []ContentIntact
<1>1. RInv /\ ContentHold => ContentIntact
  BY DEF ContentHold, Content, ContentIntact
<1>2. QED
  BY <1>1, ContentInductive, PTL DEF Spec

LEMMA LinkInductive == /\ Init => LInv
                       /\ LInv /\ [Next]_vars => LInv'
<1>1. Init => NumbersHold
  BY FitsElsewhere DEF Init, NumbersHold
<1>2. OneNumber' = OneNumber
  BY DEF OneNumber
<1>3. QED
  BY <1>1, <1>2, BooksInductive, NumbersHoldStep DEF LInv

\* A file whose result is its e-invoice keeps the link to that invoice, unless a
\* handler commits columns of a row that another one has changed since it was
\* loaded.
THEOREM EinvoiceLinkCorrect == Spec => EinvoiceLinkKept
<1>1. LInv /\ [Next]_vars =>
         [OneNumber =>
            \A f \in Files :
                LinkAgrees(f) /\ ~LinkAgrees(f)'
                    => \E t \in Tasks :
                           /\ ctx[t].file = f /\ Overtaken(t)
                           /\ pc[t] \in {"read", "apply", "link"} /\ pc'[t] = "idle"]_vars
  BY LinkStep DEF LInv
<1>2. QED
  BY <1>1, LinkInductive, PTL DEF Spec, EinvoiceLinkKept

=============================================================================
