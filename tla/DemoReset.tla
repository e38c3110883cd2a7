------------------------------ MODULE DemoReset ------------------------------
(***************************************************************************)
(* The reset of the demo tenant: one transaction wipes its edits, files    *)
(* and invoices, makes sure of the demo user and seeds invoices with       *)
(* files, while other resets run and while the demo user uploads, edits    *)
(* and re-extracts an e-invoice.  The vendor mappings that edits record    *)
(* and the audit entries of LLM calls are rows of the tenant that no       *)
(* DELETE of the reset is about.                                           *)
(*                                                                         *)
(* The database is modelled by what READ COMMITTED gives a statement: it   *)
(* sees the rows committed when it starts, waits for the transactions that *)
(* hold a row it wants, and skips rows that are gone by then.  A row has a *)
(* table, an id (its table, its writer and a number; that of an edit names *)
(* the edited invoice), the key its unique constraint is about, and the    *)
(* invoice it refers to.                                                   *)
(***************************************************************************)
EXTENDS Naturals

CONSTANTS
    Resets,      \* requests POST /admin/reset-demo, each made once
    Extractions, \* requests to re-extract an uploaded e-invoice, each made once
    Uploads,     \* files of the demo user
    FileOf,      \* Extractions -> Uploads
    NumberIn,    \* the invoice numbers a file may carry
    Slots,       \* the invoices of one seeding, by number (50 in the code)
    Booked,      \* the numbers of the invoices whose edits give the vendor an account
    None         \* no row

Tx == Resets \cup Extractions

Tables  == {"users", "edits", "files", "invoices", "mappings", "audits"}
Writers == Tx \cup Uploads
Counts  == Slots \cup {0}
RowIds  == Tables \X Writers \X Counts
Keys    == (Writers \cup {"number", "seed", "demo"}) \X (Counts \cup NumberIn)

Rows == [table : Tables, id : RowIds, by : Writers, key : Keys, ref : RowIds \cup {None}]

ASSUME DemoAssumption ==
    /\ Resets \cap Extractions = {} /\ Tx \cap Uploads = {}
    /\ Writers \cap {"number", "seed", "demo"} = {}
    /\ FileOf \in [Extractions -> Uploads]
    /\ Slots # {}
    /\ None \notin Tables \cup RowIds

VARIABLES
    rows,  \* the committed rows of the demo tenant
    tx,    \* the transactions of the handlers
    fresh  \* bound: the uploads not yet made

vars == <<rows, tx, fresh>>

Id(table, by, n) == <<table, by, n>>

Row(table, by, n, key, ref) ==
    [table |-> table, id |-> Id(table, by, n), by |-> by, key |-> key, ref |-> ref]

Of(table) == {x \in rows : x.table = table}
Ids(s)    == {x.id : x \in s}

\* A transaction: where it stands, the table its statement is at, the snapshot of
\* its DELETE, the ids it has deleted, updated and locked against deletion for a
\* foreign key, the rows it has inserted and is inserting, the invoice it links its
\* file to, and (history) the tenant's ids when it began.
Steps == {"idle", "snapshot", "delete", "ensure user", "insert", "update invoice",
          "update file", "reference", "commit", "done", "failed"}

Transaction ==
    [pc : Steps, table : Tables, snap : SUBSET RowIds,
     deleted : SUBSET RowIds, updated : SUBSET RowIds, shared : SUBSET RowIds,
     inserted : SUBSET Rows, want : SUBSET Rows,
     ref : RowIds \cup {None}, began : SUBSET RowIds]

NoTx == [pc |-> "idle", table |-> "edits", snap |-> {}, deleted |-> {}, updated |-> {},
         shared |-> {}, inserted |-> {}, want |-> {}, ref |-> None, began |-> {}]

TypeOK == rows \subseteq Rows /\ tx \in [Tx -> Transaction] /\ fresh \subseteq Uploads

Init ==
    /\ rows = {} /\ fresh = Uploads
    /\ tx = [t \in Tx |-> NoTx]

Active(t) == tx[t].pc \notin {"idle", "done", "failed"}

-----------------------------------------------------------------------------
(* Locks                                                                   *)

\* The file that an extraction is about.
FileId(t) == Id("files", FileOf[t], 0)

\* The row its next UPDATE is about: the invoice, then the file.
Target(t) == IF tx[t].pc = "update invoice" THEN tx[t].ref ELSE FileId(t)

Holds(u, id) == Active(u) /\ id \in tx[u].deleted \cup tx[u].updated

Shares(u, id) == Active(u) /\ id \in tx[u].shared

\* A row with the same key is being inserted, or one is being deleted.
Contends(u, x) ==
    /\ Active(u)
    /\ \E y \in tx[u].inserted \cup {z \in rows : z.id \in tx[u].deleted} :
         y.table = x.table /\ y.key = x.key

\* The transactions that the next statement of t waits for.
WaitsFor(t) ==
    {u \in Tx \ {t} :
        CASE tx[t].pc = "delete"    -> \E id \in tx[t].snap : Holds(u, id) \/ Shares(u, id)
          [] tx[t].pc = "insert"    -> \E x \in tx[t].want : Contends(u, x)
          [] tx[t].pc \in {"update invoice", "update file"} -> Holds(u, Target(t))
          [] tx[t].pc = "reference" -> Active(u) /\ tx[t].ref \in tx[u].deleted
          [] OTHER                  -> FALSE}

Become(t, r) == tx' = [tx EXCEPT ![t] = r] /\ UNCHANGED fresh

\* The statement raises, the session is rolled back.
Fail(t) == Become(t, [NoTx EXCEPT !.pc = "failed"]) /\ UNCHANGED rows

\* PostgreSQL ends a cycle of waiting transactions by failing one of them.
OnCycle(t) ==
    \/ \E u \in WaitsFor(t) : t \in WaitsFor(u)
    \/ \E u \in WaitsFor(t) : \E v \in WaitsFor(u) : t \in WaitsFor(v)

DeadlockVictim(t) == OnCycle(t) /\ Fail(t)

-----------------------------------------------------------------------------
(* seed_demo_tenant                                                        *)

Begin(t) ==
    /\ tx[t].pc = "idle"
    /\ Become(t, [NoTx EXCEPT !.pc = "snapshot", !.began = Ids(rows \ Of("users"))])
    /\ UNCHANGED rows

\* What if the files were left to their foreign key?
AfterWithoutFiles(table) == [edits |-> "invoices", files |-> None, invoices |-> None][table]

\* What if the invoices went first?
AfterInvoicesFirst(table) == [edits |-> "invoices", invoices |-> "files", files |-> None][table]

\* The DELETEs of _wipe_demo_tenant, in the order of the foreign keys.
After(table) == [edits |-> "files", files |-> "invoices", invoices |-> None][table]

Snapshot(t) ==
    /\ tx[t].pc = "snapshot"
    /\ Become(t, [tx[t] EXCEPT !.pc = "delete", !.snap = Ids(Of(tx[t].table))])
    /\ UNCHANGED rows

Delete(t) ==
    LET next  == After(tx[t].table)
        found == [tx[t] EXCEPT !.deleted = @ \cup (tx[t].snap \cap Ids(rows)), !.snap = {}]
    IN  /\ tx[t].pc = "delete" /\ WaitsFor(t) = {}
        /\ Become(t, IF next = None THEN [found EXCEPT !.pc = "ensure user"]
                     ELSE [found EXCEPT !.pc = "snapshot", !.table = next])
        /\ UNCHANGED rows

Number(n) == <<"number", n>>

NumberOf(t, s) == Number(s)

SeedInvoices(t) == {Row("invoices", t, s, NumberOf(t, s), None) : s \in Slots}

\* The bytes of a generated PDF may differ each time or be the same for the same
\* invoice; those of the fallback are the same for every invoice.
SeedFiles(t, pdf) ==
    {Row("files", t, s,
         CASE pdf = "fresh" -> <<t, s>> [] pdf = "same" -> <<"seed", s>>
           [] pdf = "fallback" -> <<"seed", 0>>,
         Id("invoices", t, s)) : s \in Slots}

Inserting(r, table, want) == [r EXCEPT !.pc = "insert", !.table = table, !.want = want]

\* _ensure_demo_user selects the user and inserts it when there is none.
EnsureDemoUser(t) ==
    /\ tx[t].pc = "ensure user"
    /\ Become(t, IF Of("users") # {} THEN Inserting(tx[t], "invoices", SeedInvoices(t))
                 ELSE Inserting(tx[t], "users", {Row("users", t, 0, <<"demo", 0>>, None)}))
    /\ UNCHANGED rows

Inserted(r) == [r EXCEPT !.inserted = r.inserted \cup r.want, !.want = {}]

\* What a transaction does once its rows are inserted.
AfterInsert(t) ==
    \/ /\ tx[t].table = "users"
       /\ Become(t, Inserting(Inserted(tx[t]), "invoices", SeedInvoices(t)))
    \/ /\ tx[t].table = "invoices" /\ t \in Resets
       /\ \E pdf \in {"fresh", "same", "fallback"} :
             Become(t, Inserting(Inserted(tx[t]), "files", SeedFiles(t, pdf)))
    \/ /\ tx[t].table = "files"
       /\ Become(t, [Inserted(tx[t]) EXCEPT !.pc = "commit"])
    \/ /\ tx[t].table = "invoices" /\ t \in Extractions
       /\ Become(t, [Inserted(tx[t]) EXCEPT !.pc = "update file"])

\* What if invoice numbers were not unique?
UniqueFiles(t) ==
    \A x \in tx[t].want, y \in rows :
        x.table = "files" /\ y.table = "files" /\ x.key = y.key => y.id \in tx[t].deleted

\* The constraints: (tenant, email), (tenant, invoice_number), (tenant, sha256).
Unique(t) ==
    /\ \A x, y \in tx[t].want : x.key = y.key => x = y
    /\ \A x \in tx[t].want, y \in rows :
         x.table = y.table /\ x.key = y.key => y.id \in tx[t].deleted

\* What if a violated constraint were retried?
InsertRetrying(t) ==
    /\ tx[t].pc = "insert" /\ WaitsFor(t) = {}
    /\ Unique(t) /\ AfterInsert(t) /\ UNCHANGED rows

Insert(t) ==
    /\ tx[t].pc = "insert" /\ WaitsFor(t) = {}
    /\ IF Unique(t) THEN AfterInsert(t) /\ UNCHANGED rows ELSE Fail(t)

\* Deleted invoices take their edits along (CASCADE) and leave their files
\* without invoice (SET NULL); an updated file gets its new invoice.
Applied(t) ==
    LET gone == tx[t].deleted
        kept == {x \in rows : x.id \notin gone /\ ~(x.table = "edits" /\ x.ref \in gone)}
    IN  {[x EXCEPT !.ref = IF x.table = "files" /\ x.id \in tx[t].updated THEN tx[t].ref
                           ELSE IF x.ref \in gone THEN None ELSE x.ref] : x \in kept}
        \cup tx[t].inserted

Commit(t) ==
    /\ tx[t].pc = "commit"
    /\ rows' = Applied(t)
    /\ Become(t, [NoTx EXCEPT !.pc = "done", !.began = tx[t].began])

-----------------------------------------------------------------------------
(* The handlers of the demo user                                           *)

Upload(f) ==
    /\ f \in fresh /\ fresh' = fresh \ {f}
    /\ rows' = rows \cup {Row("files", f, 0, <<f, 0>>, None)}
    /\ UNCHANGED tx

\* upsert: a vendor that gets an account has a mapping afterwards.  (An invoice
\* number stands for its vendor: the seeding draws the same vendors each time.)
NewMapping(x) ==
    IF x.key \in {Number(n) : n \in Booked} /\ \A y \in Of("mappings") : y.key # x.key
    THEN {Row("mappings", x.by, x.id[3], x.key, None)} ELSE {}

\* A PATCH, as one step: it needs an invoice that no transaction holds.
Edit(x) ==
    /\ x \in Of("invoices") /\ \A t \in Tx : ~Holds(t, x.id)
    /\ Id("edits", x.by, x.id[3]) \notin Ids(rows)
    /\ rows' = rows \cup {Row("edits", x.by, x.id[3], <<x.by, x.id[3]>>, x.id)}
                     \cup NewMapping(x)
    /\ UNCHANGED <<tx, fresh>>

\* The LLM has read an uploaded image; the audit entry has a session of its own and
\* does not refer to the file, which may be gone.
Audit(f) ==
    /\ f \notin fresh /\ Id("audits", f, 0) \notin Ids(rows)
    /\ rows' = rows \cup {Row("audits", f, 0, <<f, 0>>, None)}
    /\ UNCHANGED <<tx, fresh>>

\* try_extract reads the file and the invoice it will write: the one with the
\* number of the file, or a new one.  (No PATCH renames an invoice here, so the
\* invoice the file is linked to is the one with its number.)
BeginExtraction(t) ==
    LET same(n) == {x \in Of("invoices") : x.key = Number(n)}
    IN  /\ tx[t].pc = "idle" /\ FileId(t) \in Ids(rows)
        /\ \E n \in NumberIn :
             \/ \E x \in same(n), step \in {"update invoice", "update file"} :
                  Become(t, [NoTx EXCEPT !.pc = step, !.ref = x.id])
             \/ /\ same(n) = {}
                /\ Become(t, Inserting([NoTx EXCEPT !.ref = Id("invoices", t, 0)], "invoices",
                                       {Row("invoices", t, 0, Number(n), None)}))
        /\ UNCHANGED rows

\* The flush writes invoices before files; an UPDATE that finds no row raises.
Update(t) ==
    /\ tx[t].pc \in {"update invoice", "update file"} /\ WaitsFor(t) = {}
    /\ IF Target(t) \notin Ids(rows) THEN Fail(t)
       ELSE /\ Become(t, [tx[t] EXCEPT
                            !.updated = @ \cup {Target(t)},
                            !.pc = IF @ = "update invoice" THEN "update file" ELSE "reference"])
            /\ UNCHANGED rows

\* The foreign key of the file.
Reference(t) ==
    /\ tx[t].pc = "reference" /\ WaitsFor(t) = {}
    /\ IF tx[t].ref \in Ids(rows \cup tx[t].inserted)
       THEN /\ Become(t, [tx[t] EXCEPT !.pc = "commit", !.shared = {tx[t].ref}])
            /\ UNCHANGED rows
       ELSE Fail(t)

-----------------------------------------------------------------------------

Run(t) == Snapshot(t) \/ Delete(t) \/ EnsureDemoUser(t) \/ Insert(t) \/ Update(t)
          \/ Reference(t) \/ Commit(t) \/ DeadlockVictim(t)

Next ==
    \/ \E t \in Resets : Begin(t)
    \/ \E t \in Extractions : BeginExtraction(t)
    \/ \E t \in Tx : Run(t)
    \/ \E f \in Uploads : Upload(f) \/ Audit(f)
    \/ \E x \in rows : Edit(x)

Spec     == Init /\ [][Next]_vars
FairSpec == Spec /\ \A t \in Tx : WF_vars(Run(t))

-----------------------------------------------------------------------------
(* Properties                                                              *)

\* A file or an edit refers to an invoice that is there, and the unique keys hold.
RowsAreSound ==
    /\ \A x \in rows : x.ref \in Ids(Of("invoices")) \cup {None}
    /\ \A x, y \in rows : x.table = y.table /\ x.key = y.key => x = y

\* However resets overlap, the seeded invoices are those of one of them, and all of
\* them (seed_demo_tenant, one transaction; the unique key on the number).
WholeBatch ==
    LET seeded == {x \in Of("invoices") : x.by \in Resets}
    IN  seeded # {} => \E b \in Resets : Ids(seeded) = {Id("invoices", b, s) : s \in Slots}

\* Of the edits, files and invoices that the tenant had when a reset began nothing is
\* left once it has committed (_wipe_demo_tenant), whatever was locked meanwhile: all
\* that can be left, beside the user, are mappings and audit entries.
OldIsWiped ==
    \A b \in Resets : tx[b].pc = "done" =>
        \A i \in tx[b].began \cap Ids(rows) : i[1] \in {"mappings", "audits"}

\* An invoice that an extraction created has its file: no reset takes the file and
\* leaves the invoice, though the extraction may commit between its DELETEs.
ExtractedHasFile ==
    \A x \in Of("invoices") : x.by \in Extractions => FileId(x.by) \in Ids(rows)

\* A file is linked to an invoice of its own seeding, never to one of another.
LinkedWithinBatch ==
    \A x \in Of("files") : x.by \in Resets /\ x.ref # None => x.ref[2] = x.by

\* The tenant's data are sound: types, references and keys, one whole batch, its links.
DataAreSound == TypeOK /\ RowsAreSound /\ WholeBatch /\ LinkedWithinBatch

\* Every transaction commits or fails, though resets and extractions lock files and
\* invoices in opposite orders.
EveryTransactionEnds == \A t \in Tx : Active(t) ~> ~Active(t)

=============================================================================
