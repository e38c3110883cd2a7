# Kontura in TLA+

Kontura is a service for bookkeepers: a user uploads invoices (PDF, image or
XML), the service extracts their data (from an embedded e-invoice, or with a
vision model), links each file to a row of the invoices table, lets the user
edit the invoice under an audit trail, learns which account a vendor is booked
on, and exports a DATEV booking batch. This directory holds TLA+ models of that
code, TLC runs over small instances, and TLAPS proofs for all instances.

Source paths below are relative to `src/src/kontura/` unless they start with
`src/`.

## 1. Inventory

The backend is one asyncio process (FastAPI) over PostgreSQL at READ COMMITTED.
Every request has a database session of its own (`infra/db.py`: no expiry on
commit, no autoflush); a background task opens another. Handlers share little
in memory: the limiter's counters, and a context variable that every task has
its own copy of. They interact through rows, through files on disk, and through
the order in which the event loop resumes them. Four properties of the ORM
decide most of what can go wrong, and the models keep them:

- an object is a copy of the row as it was first loaded; a second SELECT of the
  same row in the same session returns the same object, unrefreshed;
- a flush writes only the columns whose value differs from the loaded one, over
  whatever the row holds by then (there is no version column in the mapping);
- a failed flush rolls back and expires every object; reading one then raises,
  and until someone calls rollback every later statement raises too;
- a unique key makes the second INSERT wait for the first transaction, then fail.

| Component | State | Operations | Hard behaviour | What makes it correct |
|---|---|---|---|---|
| Invoice files and extraction (`api/invoice_files`, `ai/extraction`, `ai/einvoice/service.py`) | `invoice_files` row (status, attempts, error, result, link), `invoices` rows, content on disk | upload, e-invoice path, background extraction, trigger, status, download | concurrent attempts on one row, failed flushes, lost background tasks, races for an invoice number | every file gets an outcome or is knowingly abandoned; the columns fit together; a completed file is linked |
| Storage (`infra/storage.py`) | file per content hash | save (truncating), load | readers during a rewrite | a registered file is readable |
| Invoice editing (`api/invoices`) | `invoices` row with `version`, `invoice_edits` | create, list, PATCH with expected version | version checked, then written much later; e-invoice re-extraction writes the same row without version or audit; pages of a list that changes | an edit that nobody overtakes is exact; the trail explains the row; the columns of a review fit together |
| Vendor mappings (`api/vendor_mappings`) | `vendor_account_mappings` (account, usage count) | suggest, record, upsert, delete | read-modify-write of the counter, first insert by two requests; spellings of a name | counts and accounts were earned by recordings; another vendor's account is suggested at most |
| DATEV export (`api/exports`) | none | export a period | mapping read per invoice while it changes; fiscal years around 29 February | an account that is applied was learned; the batch can be read back |
| Accounts (`api/auth`, `infra/email`) | tenants, users with token hash, expiry, sent-at | register, verify, resend (cooldown), login, demo login | resend against verify, two resends, mails that fail or come late | only the owner of a mailbox verifies; no handler takes a verification back |
| Embeddings (`api/v1/embeddings.py`, `ai/embeddings`) | `invoice_embeddings` | create (idempotent by check), find similar | check, slow provider call, insert; no unique key | vectors are of the text stored with them; searches stay in the tenant |
| Audited provider (`ai/audit`) | audit log in its own session | chat, embed, extract | entry lost, result used; tenant read after the call | every call is in the audit of its tenant, or its entry is known to be lost |
| Tenancy, tokens, rate limit (`core`, `api/rate_limit.py`) | context variable, counters | authorize, limit | token that expires between two reads, tenants behind one address | a tenant is refused only for what it used itself |
| Demo tenant (`admin/demo_seed.py`, `api/admin`) | all rows of the demo tenant | wipe and seed | resets under running handlers and each other, locks in opposite orders | one whole batch afterwards, no old edit, file or invoice, no invoice without its file |
| Schema (`src/migrations`) | tables, types, keys, `alembic_version` | upgrade, downgrade | revisions that break off, a COMMIT within a command, rows inserted meanwhile | the schema is that of the revision, the last one is what the models declare |
| Dashboard (`api/dashboard`) | none | key figures, cash flow, vendors, activity, alerts | quarter and month boundaries, limits before a filter | periods partition the year; alerts are right, at most too few; whoever is shown first has most |
| E-invoice parsing, uploads, PII masking (`ai/einvoice`, `ai/pii`, `api/invoice_files`) | none | detect, parse, validate, mask, unmask | the kind of a file is decided several times; placeholders numbered backwards | read completely or left to the provider; unmasking undoes masking |
| Frontend (`src/frontend`) | query cache | polling, trigger with retry, optimistic PATCH | retry of what was done, stale version | polling ends |
| Configuration and start-up, prompts and PDF rendering, tests, deployment | - | - | - | not modelled, see section 5 |

## 2. Modules

| Module | Contents |
|---|---|
| `FileExtraction` | upload, e-invoice path and AI extraction of one tenant's files |
| `FileLifecycle` | what a client sees of a file: the abstract specification of `FileExtraction` |
| `VendorMappings` | learning, changing, deleting and exporting the accounts of one tenant's vendors |
| `InvoiceEditing` | PATCH with optimistic locking and audit trail, and the e-invoice extraction of a linked file; its recordings are steps of `VendorMappings` (`Mappings`) |
| `Accounts` | registration, verification, resend, login and demo login |
| `TenantRequests` | tokens, context variable, limiter, audited provider calls and embeddings of several tenants in one worker |
| `DemoReset` | resets of the demo tenant beside uploads, edits and extractions, on a model of READ COMMITTED |
| `Migrations` | the fourteen revisions of the schema, and what the models declare |
| `DatevExport`, `Dashboard`, `NameMatching`, `EInvoiceParsing`, `Uploads`, `Masking`, `InvoiceQueries` | pure algorithms as operators, without state |
| `MCFileExtraction`, `MCVendorMappings`, `MCInvoiceEditing`, `MCAccounts`, `MCTenantRequests`, `MCDemoReset`, `MCMigrations` | instances for TLC |
| `Algorithms` | a state machine that chooses an input of one of them, and the properties of the algorithms against reference definitions |
| `MCAlgorithms` | the inputs for TLC |
| `FileExtraction_proofs`, `VendorMappings_proofs`, `InvoiceEditing_proofs`, `Accounts_proofs`, `TenantRequests_proofs`, `DemoReset_proofs`, `Migrations_proofs`, `Algorithms_proofs` | TLAPS proofs |

Some modules define operators under a comment that begins with "What if": the
same step with a bug that would be plausible in that code. No specification uses
them; they are there to see that a property fails once the bug is in.

### FileExtraction and FileLifecycle

A *task* is a request handler or the background task it schedules. `pc[t]` says
at which await it is; an action is the code up to the next await that another
handler can notice. A flush and the commit that follows are one action: nobody
sees the flushed rows before the commit, and a second INSERT of the same unique
key waits for it.

| Model | Code |
|---|---|
| `row[f]`, `NoRow` | the `invoice_files` row of content `f`; the content hash is the key |
| `invoices[i]` | the number of invoice row `i`, or `NoNumber` when there is none |
| `store[f]` | content on disk: absent, partial (opened for writing), full |
| `snap[t]` | the `InvoiceFile` object in the task's session, as last loaded or committed |
| `ctx[t]` | file, role (upload or trigger), `force`, extracted number, number of the linked invoice as loaded, invoice found by number |
| `Flushed` | the ORM's UPDATE: changed columns only |
| `StartUpload` ... `RefreshRow` | `upload_invoice_file` up to the refresh |
| `StartTrigger` | `trigger_extraction` up to the e-invoice path |
| `ReadEinvoice` ... `ApplyFails`, `RejectXml` | `EinvoiceExtractionService.try_extract` and what both endpoints do with its result |
| `LoadForBackground` ... `Rewrite` | `ExtractionService.extract` and `_find_or_create_invoice` |
| `Crash` | the process dies with its handlers and scheduled tasks |

`Unstorable` stands for extracted data that the invoices table rejects (the
schema of the model's answer bounds neither the currency nor the number, the
columns do). `abandoned` and `begun` are history variables: files whose worker
died or gave up without an outcome, and attempts that were committed.

`FileLifecycle` has no handlers and no sessions, only the status and the link
that the API shows and the set of invoices that exist: a file is registered
once, claimed, completed, failed or (XML without an e-invoice) rejected, and an
invoice comes into being in the same step as the link to it.
`FileExtraction!LifecycleSpec` instantiates it with the columns of the row. It
allows what the code does and a reader might not expect: a late outcome may
replace another one (`ai/extraction/service.py:4` lists the statuses as if they
ended), and a late e-invoice answer may leave status or link in place.

Left out: error texts (told apart by cause), `extracted_at`, `extraction_method`,
the other columns of an invoice, upload validation (`Uploads`; it rejects before
any state changes), database outages.

Bounds. Three tasks (`extraction_plain`) are a background extraction and two
triggers, or two uploads of the same content and a trigger: every pair of
attempts plus one that comes late. Two numbers and two invoice rows let attempts
disagree about the number and let a number be taken or free. The run with
e-invoices has two tasks, two files (a PDF with an e-invoice, an XML file without)
and two triggers: an upload and a trigger, or two triggers, of the same file, and
an AI extraction that comes before, between or after them. `MaxTriggers` and
`MaxCrashes` bound the requests; uploads are bounded by the deduplication check.
Deadlock is not checked, here and in the other runs, since the system stops when
its requests are used up. Tasks and invoice rows are interchangeable and used as
symmetry sets, except where a run checks liveness.

Fairness. `FairSpec` asks weak fairness of each task's next step: the event loop
resumes a coroutine whose await is done, the provider's client has a timeout, and
PostgreSQL ends a statement. No fairness is asked of requests or crashes.
`EventuallySettled` excepts abandoned files: nothing in the code sweeps them.

### VendorMappings

| Model | Code |
|---|---|
| `mapping[k]`, `NoMapping` | the row of normalised name `k` in `vendor_account_mappings` |
| `ids[k]` | primary keys used: a row that was deleted and inserted again is another row |
| `session[t].found` | the row `get_exact` returned, as the ORM object holds it |
| `StartRecord`, `Lookup`, `StoreNew`, `StoreUse`, `StoreFails` | `upsert_mapping`, `record_mapping` and `upsert`, up to the commit |
| `StartDelete`, `Delete` | `delete_mapping` |
| `StartExport`, `ResolveNext`, `EndExport` | `export_buchungsstapel`: one resolution per invoice, each a query of its own |
| `Resolved` | `resolve_for_export` with `suggest_for_vendor` |
| `booked[k]` | history: the accounts recorded for the vendor, in commit order |

A suggestion by edit distance has at most half the confidence and is never
applied, so `Resolved` needs the exact row only (`NameMatching` has the whole
choice, and `OnlyExactIsBooked` is this claim). Left out: `last_used_at`, a name
that normalises to nothing (it is recorded and never resolved).

Bounds. Six requests of three tasks are four recordings, the least that lets an
export apply an account, and two more that change, delete or export in between.
One vendor is enough: no action relates two.

### InvoiceEditing

| Model | Code |
|---|---|
| `invoice[i]` | the audited columns (`amount` stands for date, amounts, currency and line items), the review columns (`reviewer`, `reviewed_at`), `version` |
| `trail[i]` | its `invoice_edits`: field, old and new value, `created_at` |
| `edit[t].old`, `edit[t].new` | the ORM object as loaded and as changed in memory |
| `Load` | `update_invoice` up to the flush: SELECT, comparison of versions, `update_with_audit` in memory |
| `EditAndCommit`, `EditRefused` | flush and commit without an account to record |
| `EditAndRecord`, `RecordAndCommit`, `RecordRefused` | the flush, then `record_mapping` in the same transaction, then the commit |
| `LoadLinked`, `SelectByNumber`, `ApplyEinvoice`, `ApplyFails` | `try_extract` of a file linked to the invoice |
| `Waits` | PostgreSQL: a flush waits for the transaction that holds the row, or that decides whether the number is free |
| `OtherRequest`, `OtherStep` | requests on mappings that are no edits |

The handlers of `InvoiceEditing` are the tasks of `VendorMappings`: an edit that
records an account runs `Mappings!StartRecord`, `Lookup` and `StoreNew` or
`StoreUse`, the last together with its own commit. `overtaken[t]` remembers
whether another handler wrote the row since `t` loaded it, `writer[i][f]` what wrote
the field last (an edit, one that was overtaken, an extraction), and `torn` the
invoices whose review columns an overtaken edit wrote last.

`created_at` of an entry is `now()`, the start of the transaction, and the only order
that the trail has (`infra/models/invoice_edit.py:54`). A PATCH is authorized without
a statement, so its transaction starts with the SELECT of the invoice: BEGIN and SELECT
are one step, and the number of that step is the time (`edit[t].at`, also in
`reviewed_at`).

Left out: POST /invoices (`InvoiceQueries!Create` has its effect on the table;
it touches no existing row), the answers 404, 409 and 422 (nothing changes), the
refresh after the commit, and a handler that is held up between BEGIN and its SELECT
(that it is dated before an edit whose result it has read takes an overtaken edit
that sets the version back). Two flushes that swap two numbers can deadlock in
PostgreSQL, which then aborts one; here one of them comes first and both are
refused by the key, so the rows end the same.

Bounds. Two handlers, two invoices, three numbers and three edits or
extractions: every order of the loads and commits of two edits, and a third that
comes late; the second invoice lets a number be taken, or be freed by a
transaction that is still open. The four kinds of payload change an amount and withdraw
a review, rename the number, review and record an account, rename the vendor and record
one: two vendors with a key each let an edit rename the vendor it records. `MaxEdits`
bounds edits and extractions, `MaxRequests` recordings, deletions and exports.

Fairness. Weak fairness of each task's next step, for the reasons given above,
and because PostgreSQL grants a lock when its holder has ended.

### Accounts

| Model | Code |
|---|---|
| `tenants`, `users[k]` | the tables; `k` is slug and address, the unique key of users |
| `users[k].hash`, `.expires`, `.sent`, `.verified` | the hash of the link's token (named by the time at which the token was drawn), `verification_token_expires_at`, `verification_sent_at`, `email_verified_at` |
| `Register`, `InsertAccount`, `AccountConflict` | `register` and `register_tenant_user`: the checks, then the INSERTs of tenant and user with their commit |
| `SendMail`, `MailFails` | the mail after the commit, and its caught error |
| `OpenLink`, `Verify` | `verify_email`: the SELECT by hash, then the commit |
| `Resend`, `CommitResend` | `resend_verification` with `_is_resend_cooldown_active` |
| `Login`, `DemoLogin`, `InsertDemo` | `login`, `demo_login` |
| `Flushed` | the ORM's UPDATE: changed columns only |

Reading the clock advances it, so that no two handlers read the same time.
`mailbox`, `lost`, `opened` and `resends` are histories: links that were sent,
mails that failed, links that were accepted, and committed resends. A mail is
opened at any later time, several times, or never. Left out: passwords, wording,
the content of the block list (`Disposable` is the set of blocked addresses; the
list is a data file).

Bounds. One address in two tenants and a blocked one; two tasks; five moments of
the clock with a lifetime and a cooldown of two, so that both run out. Fairness
is of handlers only: an accepted verification commits.

### TenantRequests

| Model | Code |
|---|---|
| `ctx[r]` | `current_tenant_var` as the task `r` sees it; `SetContext` is `set` |
| `req[r]` | the request a task serves: operation, token, tenant of the token, address, the text it read and the text it sent |
| `Arrive` | middleware and `get_current_tenant`: decode the token, 401 or authorize |
| `Extract` | the limiter around upload and trigger (`TenantKey`, `Current`, `Hit`), which runs after the dependencies |
| `CallProvider`, `ProviderReturns`, `Record`, `Save` | `AuditedAIProvider`: the call, its error, then the entry in a session of its own |
| `LoadInvoice`, `CheckExisting`, `EmbedInvoice`, `InsertEmbedding`, `RefreshEmbedding` | `create_embedding` and `embed_invoice` |
| `LoadSource`, `FindSimilar`, `ListAudit` | the reading endpoints |
| `StatusOf`, `Raise` | the exception handlers and the catch-all of the middleware |
| `ChangeInvoice` | another handler edits the invoice, or removes it with its embeddings |
| `Crash` | the process dies with tasks and counters |

`calls`, `lost` and `use` are histories. A text is the invoice, the version of
its fields and whether it is masked; the vector of a text stands for itself.
Bounds: two tasks, two tenants behind one address, one invoice with one change,
two calls of the provider, a limit of one per window; the clock moves once, which
is enough for a token to expire between authorization and limiter and for a
window to end.

### DemoReset

A transaction is a sequence of statements, each with the snapshot that READ
COMMITTED gives it: `Snapshot`, then `Delete` once no other transaction holds a
row it wants (`Contends`, `WaitsFor`), skipping rows that are gone. `deleted`,
`updated` and `shared` are its locks, `inserted` its rows; `Commit` applies
them, together with the cascade to the edits. `DeadlockVictim` is PostgreSQL
ending a cycle. `_wipe_demo_tenant` is the order `After`, `seed_demo_tenant` is
`EnsureDemoUser` and `Insert` (of `SeedInvoices`, then `SeedFiles`). Beside it
`Upload`, `Edit` and the extraction of an e-invoice run as in the modules above,
reduced to the rows and locks they touch: `BeginExtraction` reads, `Update` writes
the invoice and then the file (`Target`), or inserts a new invoice first, and
`Reference` checks the file's new link. An edit leaves an entry and, if it gives the
vendor an account, a mapping (`NewMapping`); `Audit` is the entry of an LLM call. Both
are rows of the tenant that no DELETE of the reset is about, and without a foreign key.

Left out: an edit that renames the number of an invoice (the unique key would meet it
as it meets an extraction's new number); embeddings, which the foreign key deletes with
their invoice as it does an edit that is committed after the DELETE of the edits.

Bounds. Two resets, one upload and one extraction, two seeded invoices, each with
a file whose bytes differ, repeat those of the other reset, or are the fallback's
(one for all, and the reset fails on the unique hash): every pair of transactions
meets in both orders, and three can wait in a cycle. Edits of one number record a
mapping (`Booked`), whichever invoice bears it: a second one finds it there. Fairness:
statements end, and a deadlock is found.

### Migrations

A schema is a set of objects (tables, columns, NOT NULLs, keys, references, enum
types and their labels, indexes where a revision or a model names them), a row is
the set of its columns that are not NULL. Each of the fourteen revisions is a
sequence of statements in each direction, `Possible` says when PostgreSQL accepts
one and `Effect` what it does; `Upgrade` and `Downgrade` run one revision in the
command's transaction, `CommitWithin` is the explicit COMMIT of the last
revision, `Abort` a failure. `InvoiceModel` ... `Metadata` are what the ORM
models declare. One row is inserted at any moment, into one of the three tables
that later revisions rewrite, with all columns or only the needed ones. One
command runs at a time: alembic takes no lock against a second one, and the
deployment starts one.

### The algorithms

`Algorithms` extends the seven modules and chooses a topic and an input of it (`Inputs`, a constant operator) in
its only step; its invariants compare the operators with reference definitions.
`MCAlgorithms` lists the inputs of the run.

| Module | Code | Property |
|---|---|---|
| `DatevExport` | `api/exports`: `_fiscal_year_end`, selection, order, booking text, rows and header | `BatchesAreRight`: a fiscal year has each day of the year once, so that rows (which have no year) can be read back; the batch is the reviewed invoices of the period, each once |
| `Dashboard` | `api/dashboard`: quarters, months, key figures, cash flow, vendors, activity, alerts | `DashboardIsRight`: quarters tile the year, cash flow has every invoice of its months once, open and settled invoices make up all, alerts are true, the vendors shown are, for every limit, those with most turnover and the activity shown the latest |
| `NameMatching` | `api/vendor_mappings`: normal form, Levenshtein distance over two rows, confidence, suggestion | `NamesAreMatched`: spellings share a key; the distance counts insertions, deletions and substitutions, as far as two; the closest of the mappings that are compared (the last used ones) is suggested; only an exact match is booked |
| `EInvoiceParsing` | `ai/einvoice`: detection, choice of the attachment, UBL and CII parsers | `EInvoicesAreRead`: parsed exactly if complete and free of NaN, a NaN escapes exactly where it is met before what cannot be read, and what is parsed is what the list shows |
| `Uploads` | `api/invoice_files`: type, signature, file name; list, status, download | `UploadsAreServed`: no content is accepted as two kinds; the stored name is the given one without its path; what is listed can be opened; each file is on one page, if that page has room for all files of its time |
| `Masking` | `ai/pii`: mask and unmask | `MaskingIsUndone`: one placeholder per value, and the round trip |
| `InvoiceQueries` | `api/invoices`: create, filters, sorting, pages, warnings | `ListsAreRight`: for each column and direction, the pages read while invoices arrive are in order and have every invoice that was there throughout, if one page has room for all that are equal to it; each vendor the filter offers has invoices; rounding raises no warning |

Texts are sequences of two or three letters, blanks and tokens, dates are days of
2023 to 2025 (with 29 February), amounts are small integers, of either sign on the
dashboard; limits such as the
lengths of fields and the number of alerts are constants and set to 1 to 4, so
that inputs reach and pass them: three mappings for a cutoff of two, two vendors for
limits of one and two, three rows for pages of one and two, with equal and different
values in the column of the order. The text search is the set of rows whose text matches.

## 3. What the runs check

| Run | Instance | What it shows |
|---|---|---|
| `extraction_plain` | 1 file, 3 tasks, 2 numbers of which 1 unstorable, 2 triggers, 1 crash | types, `InFlightHasWorker`, `ColumnsAgree`, `AttemptsEarned`, `LinkIsKept`, and that `FileLifecycle` is implemented |
| `extraction_einvoice` | a PDF with an e-invoice and an XML file without, 2 fair tasks, 2 numbers, 2 triggers | `CompletedIsLinked`, `EinvoiceLinkKept`, `ContentIntact`, `EventuallySettled` |
| `failure_is_recorded` | 1 file, 1 task, unstorable data | a database error leaves the file in processing (`ai/extraction/service.py:8`) |
| `mappings` | 1 vendor, 2 accounts, 3 tasks, 6 requests, exports of two invoices | `CountIsEarned`, `ExportIsEarned` |
| `edits` | 2 invoices, 2 vendors, 3 numbers, 2 fair tasks, 3 edits or extractions, 4 requests on mappings | `TrailAgrees`, `ReviewAgrees`, `EditIsExact`, `EveryEditEnds` |
| `parallel_edit_refused` | 1 invoice, 2 tasks | the version check lets parallel edits through (`src/README.md:61`) |
| `accounts` | 2 tenants, 2 addresses, 2 fair tasks, 5 moments | `RowsAreSound`, `VerifiedByOwner`, `NoLinkIsSecret`, `CooldownIsKept`, `SessionsAreVerified`, `AcceptedLinkVerifies` |
| `requests` | 2 tenants behind one address, 2 fair tasks, 2 provider calls, 1 edited invoice | `EmbeddingsAreSound`, `AuditAccountsForCalls`, `QuotaPerTenant`, `EveryRequestEnds` |
| `one_embedding` | the same | two requests insert two embeddings of one invoice (`api/v1/embeddings.py:54`) |
| `demo` | 2 resets, 1 upload, 1 extraction, 2 seeded invoices, edits, 1 booked number, fair statements | `DataAreSound`, `OldIsWiped`, `ExtractedHasFile`, `EveryTransactionEnds` |
| `schema` | all 14 revisions, 1 inserted row | `SchemaIsSound`, `RevisionsApply`, `UpgradesKeepData` |
| `algorithms` | 17 topics, about 73000 inputs | one property for each part of the program, see above |

`failure_is_recorded`, `parallel_edit_refused` and `one_embedding` end in a
counterexample: the property is what a comment or the documentation says, and the
code does not guarantee it. What holds instead is in the run before each.

What some of them mean:

- `InFlightHasWorker`: a file that is pending or processing has a handler or a
  background task that works on it, or lost it to a crash or to a failed flush.
- `ColumnsAgree`: a file without an e-invoice has a result exactly if it has a link,
  and the linked invoice has the number of the result, however the column-wise updates
  of concurrent attempts interleave. The error is not part of it, see below.
- `EinvoiceLinkKept`: a file whose result is its e-invoice links the invoice of
  that number, and stops doing so only when a handler commits that another one
  overtook: it writes one of the two columns and keeps the other handler's value of
  the other. If files carry different numbers, they may rename one another's
  invoices, which the property excepts (`OneNumber`).
- `TrailAgrees`: if the edit that wrote a field last was not overtaken, its entry is
  the last one of the field in the order of `created_at`; if it was, there is at least
  an entry with the value; a field without an entry is as created or was written by an
  extraction. That the last entry is always that of the row does not hold, see below.
- `ReviewAgrees`: reviewed, by whom and when go together unless an overtaken edit wrote
  one of the three columns last.
- `OldIsWiped`: of what the tenant had when a reset began only vendor mappings and LLM
  audit entries are left, besides the user.
- `NoLinkIsSecret`: the link that works for an unverified user is mailed, about to
  be mailed, or its mail failed. A user whose mail failed has to ask again.
- `CooldownIsKept` speaks of resends that began after another had committed. Two
  that overlap both pass, and both mails are sent.
- `AuditAccountsForCalls`: for each tenant, audit entries, lost entries and calls
  under way add up to the calls made with that tenant's tokens.
- `QuotaPerTenant`: while its token is valid a tenant is refused only when it
  used up the window itself. With an expired token the address is the key.
- `RevisionsApply` names the two exceptions: the fifth revision adds a NOT NULL
  column without default and fails if there are invoices, and the first one fails
  after a full downgrade, because that leaves the type `invoice_status`.

Every property has been seen to fail with a bug in a definition of the code it is
about: the "What if" operators, and the definitions they stand for, are listed
in `PROJECT.json`.

### Further divergences

Met while modelling and visible in the models' actions, without a run of their
own.

Files and extraction:
- a late outcome overwrites another, also *completed* with *failed*
  (`ai/extraction/service.py:4`); `force` replaces `extraction_result`, which
  `infra/models/invoice.py:94` calls immutable;
- the e-invoice path can violate the unique key on the number, although
  `ai/einvoice/service.py:118` looks it up before;
- error and status do not fit together: a completed file may keep the error of a
  concurrent attempt (`ai/extraction/service.py:206` writes NULL only over a loaded
  error), and a failed one may have none, when two attempts loaded the same error and one
  of them has set it to NULL in between (an equal error is not written); a trigger
  may extract a file again without `force` because its idempotence check reads the
  object it loaded earlier (`ai/extraction/service.py:119`);
- attempts and usage counts lose increments (what holds is `AttemptsEarned` and
  `CountIsEarned`);
- the result and the link of a file with an e-invoice can come from two attempts
  (`ai/einvoice/service.py:126`), and re-extracting a file with another number
  renames the invoice it is linked to, also when other files link it;
- when the flush of the e-invoice path fails, the branches that handle it read the
  expired object and raise: the upload answers 500, and the background extraction that
  should take over is never scheduled (`api/invoice_files/router.py:307`); a second
  upload of the content is only deduplicated, so the file stays *pending* until somebody
  triggers it;
- a decimal "NaN" passes the e-invoice parsers' `_to_decimal`, and the validation
  error of the schema then escapes `try_extract`, for a line also when a required date
  or amount cannot be read, since lines are built first (`ai/einvoice/extractor.py:98`);
  only the first attachment with a
  known name is tried; XML that begins with a comment or a DOCTYPE is refused with
  415.

Invoices, mappings, export, dashboard:
- an e-invoice extraction changes an invoice without raising its version and without an
  audit entry (`ai/einvoice/service.py:126`); after parallel edits an audit entry's old
  value is the one that was loaded, not the one that was overwritten;
- the trail is read by `created_at` (`src/tests/test_invoice_update_api.py:333` does),
  which is the start of the transaction: of two edits of one field the one that started
  first may commit last, and then the last entry is not the value of the row;
- a review and the withdrawal of one leave an unreviewed invoice that names a
  reviewer (`infra/models/invoice.py:83`): each of the three columns is written
  only when it differs from what was loaded;
- a mapping whose account changes between two recordings keeps a count that the
  new account did not earn (`src/tests/test_vendor_mapping_repository.py:56`);
- a booking text whose blank is its last possible character loses the whole last
  word; legal forms with umlauts are never recognised, since the accents are
  removed first;
- `api/dashboard/router.py:343` says "most recent invoice first", but alerts are sorted
  by `str(invoice_id)`, which is a random UUID: which of more than ten are shown is
  arbitrary; the limit on high values is taken before there is one
  per vendor, so alerts may be missing;
- the form demands positive amounts (`api/invoices/schemas.py:31`), the extraction
  does not (`ai/extraction/schemas.py:55`), so a credit note can make the average of
  `api/dashboard/router.py:234` negative: every invoice above ten times that is then
  "unusually high";
- the order of a list has no second column to decide between equal rows
  (`api/invoices/repository.py:203`, `api/invoice_files/repository.py:82`), so
  PostgreSQL may return these in another order for each page, and of equal rows that a
  page's end parts one may be missed and another shown twice. The fifty files of the
  demo tenant are such rows: one transaction gives all of them its `created_at`;
- pages by offset skip rows when an edit moves one between two requests, and the
  total is a query of its own; GET /invoices/{id} never has warnings, and the
  warning `future_invoice_date` is never produced.

Accounts and requests:
- two demo logins that both find no demo user end in an error 500 for one, and a
  demo login does not ask whether an existing user is verified;
- overlapping resends may set `verification_sent_at` back, and the token hash stays
  in the row after its use (it then opens nothing, `Valid`);
- the limiter runs after the dependencies, although `api/rate_limit.py` describes
  it as coming first; the settings for the LLM and audit endpoints are unused, and
  the endpoints of embeddings, similarity and audit have no limit;
- the docstring of the audited provider says that the provider always gets the
  masked text, but `extract_structured` passes it as it is, and `unmask` has no
  caller; a text that contains a literal placeholder would not come back the same;
- `ai/pii/regex_masker.py:63` reverses the entities "damit "_1" wirklich vor "_2" kommt",
  but they are numbered from the last match to the first, so the reversed list begins
  with the highest number and `_1` is the last match of the text;
- an embedding's invoice is looked up by id alone, although the 404 says "(im
  Tenant)" (the search itself stays in the tenant, `FoundAreOwn`).

Demo tenant and schema:
- `admin/demo_seed.py:211` says "Loescht alle Daten des Demo-Tenants" and
  `api/admin/router.py:41` "Loescht alle Demo-Daten", but the rows of
  `vendor_account_mappings` and `llm_audit_entries` stay: an account that a visitor
  recorded is suggested to the next one and, once used four times, applied;
- after two overlapping resets files without an invoice may stay
  (`admin/demo_seed.py:213`): the foreign key sets the link to NULL, and the second
  DELETE does not see the rows of the first transaction; their status stays
  *completed*. Seeded files in processing never finish, the seed writes no content
  to the storage, and resets before and after New Year use different numbers;
- the downgrade of the first revision leaves its enum type
  (`src/migrations/versions/e7ea957a3d93_*.py:65`), so that a later upgrade fails; a
  downgrade past the verification columns and back marks every user as verified;
- `g45_*.py:20` explains its COMMIT with a restriction that PostgreSQL no longer
  has, and the COMMIT makes the command's transaction two.

## 4. What is proved

### FileExtraction

For every number of files, handlers, invoices, triggers and crashes, from the
assumptions `ConstantsOK` and `NoRowIsNoRow`:

- `TypeCorrect`: `Spec => []TypeOK`
- `InFlightCorrect`: `Spec => []InFlightHasWorker`
- `CompletedCorrect`: `Spec => []CompletedIsLinked`
- `LinkKept`: `Spec => LinkIsKept`
- `LifecycleImplemented`: `Spec => LifecycleSpec`
- `AttemptsCorrect`: `Spec => []AttemptsEarned`
- `ColumnsCorrect`: `Spec => []ColumnsAgree`
- `ContentCorrect`: `Spec => []ContentIntact`
- `EinvoiceLinkCorrect`: `Spec => EinvoiceLinkKept`

The inductive invariant `IInv` of the first four has three parts.

- `WellFormed`: types, a handler past the INSERT has a row, the linked invoice is
  only fetched when there is one.
- `Owned`: `InFlightHasWorker` is not inductive by itself, because a commit only
  writes the status when it differs from the loaded one. `ClaimLoaded` (an
  extraction under way has *processing* in memory, so an outcome always differs)
  and `PendingLoaded` (if the row is still pending, it was pending when it was
  loaded) close the gap: an outcome, or *processing*, is always written over
  *pending*, and whoever writes nothing leaves a file that somebody else claims.
- `LinksHold`: a handler that knows a number knows a real one; the row has at
  least the link and the result the handler loaded (`LoadedIsCovered`), so
  leaving an equal column out of the UPDATE cannot leave it empty; and a
  completed row is linked. The same step lemma gives the action property.

The actions are treated by kind: those that only move a handler on (`Advance`),
end it without a commit (`Return`) or with one (`Answer`), and the three that
write a row and differ (`InsertRow`, `MarkProcessing`, `Rewrite`); one lemma per
kind says what its actions have in common. The later parts use the same kinds.

For the refinement `IInv` is extended to `RInv`: whatever a row, a session or a
handler knows of invoices exists (`BooksHold`), and only a file with an e-invoice
gets to the steps that apply one (`EinvoiceKnown`). `Outcome` says what a
handler's last commit writes, and `ShownWrite` that writing it column by column
over any row is a step of `FileLifecycle`: in particular, when the link is equal
to the loaded one and not written, the invoice existed before, so no invoice comes
into being without a link to it.

For the columns of a row `RInv` is extended to `CInv`. `AttemptsHold`: the counter in a
row or a session is at most the number of attempts begun on that file.
`PairsHold`: result and link are either both what the AI extraction sets or both
empty, in rows and in sessions alike, and the numbers of invoices are unique, so
that a handler which found an invoice by number completes the file with the one
its result names. It is assumed of files without an e-invoice only (`Plain`),
as `ColumnsAgree` is: e-invoices set the link without a result.

`ContentHold` carries `ContentIntact`: content is saved before the row is inserted,
so a handler about to insert has content that is complete, or that another upload
of the same bytes is rewriting, or that a crash cut short. `NumbersHold` carries
`EinvoiceLinkKept`: between load and commit a handler of the e-invoice path has the
number of its own e-invoice, and the invoice it found or had linked under that
number still bears it. No step renames an invoice that bears an e-invoice's number,
unless to the number of another e-invoice, hence `OneNumber`. A handler that nobody
overtook then writes a pair that agrees, over a pair equal to the one it loaded.

### VendorMappings

From `MappingConstantsOK` and `NoMappingIsNoRow`:

- `TypeCorrect`: `Spec => []TypeOK`
- `CountEarned`: `Spec => []CountIsEarned`
- `ExportEarned`: `Spec => []ExportIsEarned`

`CountIsEarned` is not inductive: a recording writes a count computed from the
row it loaded, over whatever the row holds by then. `FoundIsEarned` adds that the
loaded row was earned as well. Since the history only grows, what was earned
stays earned (`BackedStays`), and a commit adds the one recording that the new
count needs. Each action is reduced to what it does to history, rows, loaded rows
and exports (`StepEffects`), and one lemma shows that such steps keep the
invariant.

### InvoiceEditing

From `EditingConstantsOK` and (the last two) `MappingsAssumption`:

- `TypeCorrect`: `Spec => []TypeOK`. The inductive part is `Established`: the
  commit after a recording does not look at the row again, so the flush before it
  must have been accepted.
- `TrailCorrect`: `Spec => []TrailAgrees`. Entries and columns come from the same
  comparison with the loaded object, so a commit changes a field and its entry
  together or not at all, however old the object is. That the entry is the last one by
  `created_at` needs the invariant `Dated`: entries have the times of edits that have
  begun, and an edit that nobody has overtaken began after every entry of its invoice.
- `ReviewCorrect`: `Spec => []ReviewAgrees`, with the invariant `Considered`: an edit
  leaves the review columns of its copy as they were loaded, or sets them so that they
  fit together; in the latter case, if nobody has overtaken it, the columns it does not
  write are equal in the row.
- `EditsAreExact`: `Spec => EditIsExact`, with the invariant `AllInformed`: as
  long as nobody overtook a handler the row is what it loaded, the version it
  wants follows the one its client named, and the recording is for the vendor it
  writes.
- `MappingsEarned`, `ExportsEarned`: `Spec => []Mappings!CountIsEarned` and
  `Spec => []Mappings!ExportIsEarned`, from the theorems of `VendorMappings_proofs`. By
  the way the actions are written each is a step of `VendorMappings` or leaves its
  variables alone, which is what carries the theorems over and says nothing of the code.

### Accounts

From `ConstantsOK` and `NoUserIsNoUser`, for any number of tenants, addresses,
handlers, mails and moments:

- `RowsSound`: `Spec => []RowsAreSound`
- `VerifiedByOwnerCorrect`: `Spec => []VerifiedByOwner`
- `LinksKnown`: `Spec => []NoLinkIsSecret`
- `SessionsCorrect`: `Spec => []SessionsAreVerified`
- `CooldownCorrect`: `Spec => []CooldownIsKept`

The inductive invariant `IInv` adds to the properties what handlers know.
`TokensAreOwn`: a token belongs to one user, wherever it is (in a row, in the
mailbox, with the handler that drew it), and was drawn in the past.
`HandlersAgree`: what a handler loaded of a user is a state that user was in; in
particular a handler about to commit a resend has loaded an older hash than its
new token. So the flush, which leaves equal columns out, writes all three columns
of the link; otherwise the row could mix two links. A handler about to verify has
accepted, in time, a link mailed to its own user. `UsersAgree` says the
same of the rows. A step is of one of three kinds (`StepKinds`): a handler starts,
continues, or the clock ticks; one lemma per kind says what it writes.

The cooldown has an invariant of its own, `CoolInv`. `SentIsLast`: the row remembers
when the last resend was drawn, also once the user is verified, since nothing but a
resend moves `verification_sent_at`. `HandlersCooled`: a handler
between load and commit has compared its time with every resend that had committed
by then. Commits that come in between change the row but not what had committed
before, which is why the property holds in spite of resends that overlap.

### TenantRequests

From `RequestsAssumption`, for any tenants, addresses, invoices and limits and any
finite number of tasks:

- `EmbeddingsTheorem`: `Spec => []EmbeddingsAreSound`
- `AuditTheorem`: `Spec => []AuditAccountsForCalls`
- `QuotaTheorem`: `Spec => QuotaPerTenant`

The inductive invariant has four parts. `TaskInv`: a task sees its own tenant in the
context variable for as long as it serves the request (`ContextIsOwn`), so the entry
that `_record` writes after the call has the tenant of the call; what it sent is the
masked text it stores (`RequestsAgree`). `RowsInv` says that of the stored rows,
also when their invoice was edited or deleted during the call. `LedgerInv`: audit
entries, lost entries and calls under way add up; a crash moves all the calls under
way to the lost ones, which is where the number of tasks has to be finite
(`CallingChanges`, from the library's theorems on cardinality). `LimiterInv`: the
counter under a tenant's key is what the tenant used (`WindowIsOwn`), since an
expired token counts for the address, and no address is a tenant.

### DemoReset

From `DemoAssumption`, for any number of resets, extractions, uploads and seeded
invoices:

- `DataCorrect`: `Spec => []DataAreSound`
- `WipeCorrect`: `Spec => []OldIsWiped`
- `ExtractedCorrect`: `Spec => []ExtractedHasFile`

The properties speak of committed rows; the inductive invariant has to say what
the transactions that are under way may still do to them.

- `Apart`: two transactions hold different rows and insert different keys. A
  statement waits until nobody holds the row or the key it wants (`NobodyHolds`), and
  locks are kept to the end, so this is where READ COMMITTED enters.
- `InsertedFits`: a committed row with the key of an inserted one is one that the
  transaction has deleted. The unique key decided that at the INSERT, and `Apart`
  keeps it true until the commit. Hence one whole batch: of two resets the second
  either has deleted the first one's invoices or fails on a number.
- `WipeFits`: every file and invoice that was there when a reset began, and is there
  still, is deleted or in the snapshot of the DELETE at work, once the DELETE of its table is
  reached; and a reset that has deleted an extraction's file sees the invoice
  which that extraction created. The latter needs the order of the DELETEs, files
  before invoices, and the lock of the extraction on its file, which it holds until
  the invoice is committed.
- `LinkFits`: what an extraction has updated is there still, and so is the invoice
  it refers to, which the lock for the foreign key protects.
- `Spent`: an id that was written is never written again, so a row that was there
  when a reset began does not come back.
- `RowFits`: the columns of a committed row belong together.

Steps that change one transaction and no row (`LocalStep`), that add a row without
a transaction (`AddStep`), and `Commit` (one lemma per part) are treated apart.
`OldIsWiped` looks at resets that have committed, `WipeFits` at those that
are about to: no file or invoice that `began` names has an id that is free, and an edit
goes with its invoice.

### Migrations

From `MigrationsAssumption`, whichever tables the application fills, for any number
of rows and commands:

- `SchemaIsAlwaysSound`: `Spec => []SchemaIsSound`
- `RevisionsAlwaysApply`: `Spec => []RevisionsApply`
- `UpgradesAlwaysKeepData`: `Spec => UpgradesKeepData`

The data of this module are the fourteen revisions, so the first half of the proof
is about them.

- Every object has one place in the history: `Born` and `Turn` give the revision
  and the statement that create it, from its table or type, kind and columns.
  One lemma per revision (`CreateInvoicesPlanned` ... `AddNotAnInvoicePlanned`) places
  what its statements create, so no two create the same object (`History`).
- `Built(r)` is what the revisions up to `r` have created, and `Fits(B, r)` says
  that a schema `B` is that, up to `Leftovers`: the enum type, label and extension
  that downgrades leave. `SchemaAt[r]`, which the property speaks of and which runs
  the upgrades on an empty database, is `Built(r)` (`SchemaBuilt`).
- Going up: what a statement refers to is built by revisions before or by statements
  before (`Grounds`), what it creates is new unless it is a leftover, and no
  statement drops anything but an index. So each revision leads from a schema that
  fits `r - 1` to one that fits `r`, with the two exceptions that `RevisionsApply`
  names, and a NOT NULL is demanded only of columns that have been filled (`Backfills`).
- Going down (`Undone`): what a revision drops are objects of that revision, with
  everything that depends on them, and whatever would hold an object of
  them back has been dropped before; what remains fits `r - 1`.
- `MetadataBuilt`: the objects that the eight ORM models declare are `Built(14)`
  but for the index and the two extensions.

The inductive invariant `IInv` says of the committed database and of the one that
the command is working on that they are `Sound`: the schema fits the revision, rows
fit the schema, and constraints are on columns that exist. `Running` relates
the two: a command moves in one direction, and as long as the revision is the same
the database is; when it moves up, the rows keep their values, and once it has
passed the tenth revision all users are verified. The action property needs this, since
what a COMMIT publishes are all steps of the command since it began.

### The algorithms

From `InputsAssumption`: the inputs have the types that the code's parsers and columns
give them, tables are finite and their ids are keys, a page has room for a row, and no
word of a text looks like a placeholder; dates are days of the calendar and limits are
natural numbers. There is no bound on texts, documents, tables, pages or years.

- `MaskingIsAlwaysUndone`: `Spec => []MaskingIsUndone`, for texts of every length.
- `EInvoicesAreAlwaysRead`: `Spec => []EInvoicesAreRead`, for any number of
  attachments and lines.
- `UploadsAreAlwaysServed`: `Spec => []UploadsAreServed`, for tables and pages of every
  size; that a file is on one page is claimed if a page has room for all of its time.
- `ListsAreAlwaysRight`: `Spec => []ListsAreRight`, for tables and pages of every size,
  every filter, and each of the six columns in both directions, with equal values.
- `DashboardIsAlwaysRight`: `Spec => []DashboardIsRight`, for every day, number of
  months, table, and limit on vendors and activity.
- `NamesAreAlwaysMatched`: `Spec => []NamesAreMatched`, for names and keys of every
  length and any number of mappings.

The folds of the community modules are recursive functions over sets, chosen by
CHOOSE. The library's induction theorems take an operator as parameter and cannot
be used with these provers, but well-founded orders are sets: that a set of numbers
has a least element (`Least`, from `NatLessThanWellFounded` and `WFMin`) gives
induction as a fact about sets (`SetInduction`), with it that the function of the
fold exists (`FoldExists`), and what it passes through (`FoldPasses`).

Masking. Without the assumption on words the property does not hold, see above.
`Masked` gives a value the number of values from its last place on (`Numbered`), so
the numbers of a kind are those from one to the number of its values, each of one
value (`NumbersDiffer`). Hence placeholders are equal where pieces are, and the
entities hold each placeholder once, with its piece. Unmasking is a fold, and its
steps replace placeholders only: after `k` of them each place has its piece, or a
placeholder whose entity is still to come.

E-invoices. The lines of a document are read by a fold that keeps what it has and
stops at a line with a NaN (`LinesTaken`), before dates and decimals are converted, so
each field is read if its element is (`FieldsRead`). A file is
parsed by the parser of its format or of its first known attachment
(`ParsedByFields`), and taken exactly if the required fields are there and nothing is
a NaN (`TakenIfReadable`). The first attempt at this proof failed: `TryExtract` had a CASE
with overlapping guards, which leaves the choice open where the code has an order of
its branches. It now states that order.

Lists. A list sorted by a column is any sequence of the rows of a finite table, each
once, in which no row stands before one that the order puts first (`OrderedExists`). A
page is the slice of one such sequence, and each page may be of another one: the
database is free to order equal rows anew. A row stands behind those before it and in
front of those after it (`PlacesAre`), wherever its equals are, so a page that reaches
from the first place to the last place its equals can take has it (`PageHolds`), no
other page has it (`PagesApart`), and pages are in order (`PagesInOrder`). When rows are
inserted between two requests these places move to the back only, so a row that was not
on the first page is on a later one (`NoneIsMissed`).

Dashboard. `FoldSet` takes the elements of a set in an order that CHOOSE picks, so that
`Total` is a sum has to be proved. `Summing` is what a sum over the parts of a finite
set does, one element at a time: there is one for every weight (`SumsExist`, by
induction over parts, `PartInduction`), it does not depend on the element that is
taken (`SumOfRest`), it adds up over disjoint parts (`SumOfBoth`), and `Total`, `Taxes` and
the reference's sum over months are such sums (`TotalIsSum`, `TaxesIsSum`,
`TaxesOfThree`).

- Months are numbered (`MonthBack`, `MonthsOf`): the label `k` months back is the month with
  that number, so the points of the cash flow hold disjoint parts of the table and
  add up to all invoices of the interval (`FlowAddsUp`). A quarter is three months
  with numbers in a row, up to the last day of each (`QuarterTiles`, `VatAddsUp`).
- Alerts: each one shown has its reason, and by their ranks the first `MaxAlerts` are
  kept, all of them if there are no more (`CappedAlerts`). The reference has no groups: an
  invoice counts as doubled if another one is like it and none of these has a smaller
  number. `DuplicatesAreDoubled` shows that this is what the join on each group's sample
  gives, and `GroupsAreCounted` that there are as many groups as such invoices.
- Whatever order the database gives among equals, for every limit a vendor is left out
  only if as many others as fit have at least its turnover, and shown only if fewer have
  more (`LeadingIsRight`, `TopsAreMost`), and likewise the last changes.

Names. Two kinds of induction.

- The distance is a fold over the letters of one name whose steps are folds over the
  other's: `CellsPass` and `RowsPass` say what the rows of the table pass through.
  Neighbouring cells differ by at most one (`RowsAreSmooth`). From there: a cell that
  holds `d` is reached by `d` edits (`CellsAreReached`), and an edit changes a distance
  by one at most (`EditIsClose`, `EditAddsOne`), so distances of none, one and two are
  exactly those edits (`DistancesAreEdits`). The suggestion is the best that a fold has
  met (`ChosenIsBest`), among the mappings that are compared (`ComparedAreSome`).
- Spellings: collapsing white space keeps the letters that are not blank, or a single
  blank between two that are not; which place of a text the `k`-th letter kept is
  (`KthIs`) does not depend on what is put before it or behind it (`ShiftedKth`), so
  marks, blanks and legal forms at either end leave the key alone (`SpellingsAreAlike`).

Three attempts at the dashboard failed, each for a reason in the properties. The VAT of invoices without
tax was a sum of "no tax"; the reference now leaves them out, as the code does. That an
unusual invoice needs a history is false when amounts are negative, which the run did
not have; now it has them, and the property says so. And all alerts are shown only if
the groups are no more than their limit either.

### Only model-checked

- Liveness: `EventuallySettled`, `EveryEditEnds`, `AcceptedLinkVerifies`,
  `EveryRequestEnds`, `EveryTransactionEnds`. Liveness under fairness and ENABLED
  are not treated by the prover.
- `BatchesAreRight`. The days of a fiscal year are counted one by one, and a batch is
  sorted, cut and read back again; a proof needs the calendar of every year.

## 5. Not modelled

- Configuration and start-up (`core/config.py`, `main.py`): read the environment
  once and wire routers. Settings appear as constants of the modules.
- Prompts and the rendering of PDF pages: text, and I/O of a library. The
  provider's answer is an input of `FileExtraction`.
- The frontend: another program. What it can do to the server (repeat a trigger,
  poll, save an edit of an old version) are inputs of `FileExtraction` and
  `InvoiceEditing`; its own views and cache are not modelled.
- Tests and deployment files.
- Within modelled components: line items of invoices; how the text search of the list matches (it is
  the set of rows it finds); prompts' cost, tokens and latency in the audit log; headers and formats of
  logs; the mails' wording; XML paths of the e-invoice formats and the patterns of
  the PII masker (which text a pattern matches is an input); the cosine metric of
  the similarity search; quoting and encoding of the CSV; secondary indexes and
  lengths of columns in the schema. The block list of disposable domains is a
  list of 5495 lines, of which `Accounts` keeps the question whether a domain is in
  it.

Hazards that no property covers, in `PROJECT.json` with the reason:

- `api/invoice_files/router.py:307`: the e-invoice path that ends in an error 500 does
  leave a file in *pending*. The model has it, counts the file as abandoned, and
  `InFlightHasWorker` and `EventuallySettled` leave abandoned files out: they show that
  nothing else leaves a file behind.
- `ai/einvoice/service.py:126`: an extraction writes an invoice without version and
  audit entry. `TrailAgrees` only confines this to the fields that it wrote last.
- `api/invoices/router.py:304` (edit and recording) and `api/auth/service.py:42` (tenant
  and user): each pair is written in one transaction with one commit, which the models
  take as one step, so nothing they check could tell the two writes apart.

## 6. Plan

Done: the eight modules with state, the algorithms, the refinement of `FileLifecycle`,
and the proofs of every module with state: each safety and action property of their runs
is a theorem, and so are those of the algorithms but for the export. Next:

1. The export: the days of a fiscal year, with the lemmas about folds and parts that
   `Algorithms_proofs` has.
2. The frontend's polling and optimistic update as a client of `FileLifecycle` and
   of `InvoiceEditing`'s versions.
