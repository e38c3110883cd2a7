----------------------------- MODULE Migrations -----------------------------
(***************************************************************************)
(* The history of the database schema: the fourteen Alembic revisions     *)
(* under migrations/versions, run by `alembic upgrade` and `alembic       *)
(* downgrade` while the application inserts rows, and the tables that the  *)
(* ORM models declare.                                                     *)
(*                                                                         *)
(* The schema is a set of objects, a row is the set of its columns that    *)
(* are not NULL.  Column types other than the enumerations and the vector  *)
(* type, lengths of strings and the rows' values are left out.             *)
(***************************************************************************)
EXTENDS Integers, Sequences

CONSTANTS
    Used,        \* the tables the application fills during a history
    MaxInserts   \* bound on the rows it inserts

VARIABLES
    db,          \* the committed database, with its alembic_version
    work,        \* the database as the transaction of the running command sees it
    target,      \* the revision the running command goes to
    inserts

vars == <<db, work, target, inserts>>

Tables == {"invoices", "llm_audit_entries", "invoice_embeddings", "tenants", "users",
           "invoice_files", "invoice_edits", "vendor_account_mappings"}

ASSUME MigrationsAssumption == Used \subseteq Tables /\ MaxInserts \in Nat

-----------------------------------------------------------------------------
(* Objects of a schema: on names the table or type, cols the columns.      *)

Object(kind, on, cols, to) == [kind |-> kind, on |-> on, cols |-> cols, to |-> to]
Table(t) == Object("table", t, {}, <<>>)
Column(t, c) == Object("column", t, {c}, <<>>)
NotNull(t, c) == Object("not_null", t, {c}, <<>>)
Key(t, cols) == Object("key", t, cols, <<>>)
Index(t, cols) == Object("index", t, cols, <<>>)
Reference(t, c, other, rule) == Object("reference", t, {c}, <<other, rule>>)
Typed(t, c, name) == Object("typed", t, {c}, <<name>>)
Type(name) == Object("type", name, {}, <<>>)
Label(name, label) == Object("label", name, {label}, <<>>)
Extension(name) == Object("extension", name, {}, <<>>)

Optional(t, names) == {Column(t, c) : c \in names}
Needed(t, names) == Optional(t, names) \cup {NotNull(t, c) : c \in names}
Standard(t) == Needed(t, {"id", "created_at", "updated_at"})
Enum(name, labels) == {Type(name)} \cup {Label(name, l) : l \in labels}

-----------------------------------------------------------------------------
(* Statements: the objects that are new, that are created IF NOT EXISTS,   *)
(* gone, or dropped IF EXISTS, the columns that get a value in every row,  *)
(* and the NOT NULL columns that come without one.                         *)

Statement == [new |-> {}, ensured |-> {}, gone |-> {}, removed |-> {},
              filled |-> {}, bare |-> {}]
Create(objects) == [Statement EXCEPT !.new = objects]
Ensure(objects) == [Statement EXCEPT !.ensured = objects]
Drop(object) == [Statement EXCEPT !.gone = {object}]
DropIfExists(object) == [Statement EXCEPT !.removed = {object}]
CreateTable(t, objects) == Create({Table(t)} \cup objects)
AddColumn(t, c) == Create(Optional(t, {c}))
AddWithDefault(t, c) == [Create(Needed(t, {c})) EXCEPT !.filled = {<<t, c>>}]
AddBare(t, c) == [Create(Needed(t, {c})) EXCEPT !.bare = {<<t, c>>}]
Update(t, c) == [Statement EXCEPT !.filled = {<<t, c>>}]
SetNotNull(t, c) == [Create({NotNull(t, c)}) EXCEPT !.bare = {<<t, c>>}]

\* What disappears together with an object.
FallsWith(o, g) ==
    \/ o = g
    \/ g.kind = "table" /\ o.on = g.on
    \/ g.kind = "column" /\ o.on = g.on /\ g.cols \cap o.cols # {}
    \/ g.kind = "type" /\ o.kind = "label" /\ o.on = g.on

\* What keeps an object from being dropped.
Holds(o, g) ==
    \/ g.kind = "table" /\ o.kind = "reference" /\ o.to[1] = g.on /\ o.on # g.on
    \/ g.kind \in {"type", "extension"} /\ o.kind = "typed" /\ o.to[1] = g.on

Gone(schema, s) == {o \in schema : \E g \in s.gone \cup s.removed : FallsWith(o, g)}

\* Kinds of objects that belong to a table, and name columns of it.
Attached == {"column", "not_null", "key", "index", "reference", "typed"}

Possible(d, s) ==
    LET after == (d.schema \ Gone(d.schema, s)) \cup s.new
    IN  /\ s.new \cap d.schema = {}
        /\ s.gone \subseteq d.schema
        /\ \A o \in s.new :
             /\ o.kind \in Attached
                  => Table(o.on) \in after /\ \A c \in o.cols : Column(o.on, c) \in after
             /\ o.kind = "reference" => Table(o.to[1]) \in after
             /\ o.kind = "typed" => {Type(o.to[1]), Extension(o.to[1])} \cap after # {}
        /\ \A o \in d.schema, g \in s.gone \cup s.removed : g \in d.schema => ~Holds(o, g)
        /\ \A f \in s.filled : Column(f[1], f[2]) \in after
        /\ \A b \in s.bare : \A r \in d.rows[b[1]] : b[2] \in r

Lost(gone, t, r) == IF Table(t) \in gone THEN {} ELSE {r \ UNION {g.cols : g \in
                        {o \in gone : o.kind = "column" /\ o.on = t}}}

Effect(d, s) ==
    LET gone == Gone(d.schema, s)
    IN  [d EXCEPT
           !.schema = ((@ \ gone) \cup s.new) \cup s.ensured,
           !.rows = [t \in Tables |->
                       UNION {Lost(gone, t, r \cup {f[2] : f \in {x \in s.filled : x[1] = t}}) :
                                r \in d.rows[t]}]]

Execute(d, s) == IF d.ok /\ Possible(d, s) THEN Effect(d, s) ELSE [d EXCEPT !.ok = FALSE]

\* The statements of a revision, one after the other.
Executed(d, statements) ==
    LET after[k \in 0..Len(statements)] ==
            IF k = 0 THEN d ELSE Execute(after[k - 1], statements[k])
    IN  after[Len(statements)]

-----------------------------------------------------------------------------
(* The revisions, oldest first.  create_table creates the type of an Enum  *)
(* column, without looking whether it exists; drop_table leaves it.        *)

CreateInvoices == <<
    CreateTable("invoices",
        Standard("invoices")
        \cup Needed("invoices", {"invoice_number", "vendor_name", "invoice_date",
                                 "total_amount", "currency", "status"})
        \cup Enum("invoice_status", {"RECEIVED", "PROCESSING", "BOOKED", "ERROR"})
        \cup {Typed("invoices", "status", "invoice_status")}),
    Create({Index("invoices", {"invoice_number"})}),
    Create({Index("invoices", {"status"})}),
    Create({Index("invoices", {"vendor_name"})}) >>
DropInvoices == <<
    Drop(Index("invoices", {"vendor_name"})), Drop(Index("invoices", {"status"})),
    Drop(Index("invoices", {"invoice_number"})), Drop(Table("invoices")) >>

EnableVector == << Ensure({Extension("vector")}) >>
DisableVector == << DropIfExists(Extension("vector")) >>

CreateAudit == <<
    CreateTable("llm_audit_entries",
        Standard("llm_audit_entries")
        \cup Needed("llm_audit_entries", {"provider_name", "operation", "model", "prompt_text",
                       "prompt_chars", "response_chars", "duration_ms", "success"})
        \cup Optional("llm_audit_entries", {"error_message"})),
    Create({Index("llm_audit_entries", {c}) : c \in {"model", "operation", "provider_name",
                                                    "success"}}) >>
DropAudit == <<
    Drop(Index("llm_audit_entries", {"success"})), Drop(Index("llm_audit_entries", {"provider_name"})),
    Drop(Index("llm_audit_entries", {"operation"})), Drop(Index("llm_audit_entries", {"model"})),
    Drop(Table("llm_audit_entries")) >>

CosineIndex == Object("index", "invoice_embeddings", {"embedding"}, <<"ivfflat">>)
CreateEmbeddings == <<
    CreateTable("invoice_embeddings",
        Standard("invoice_embeddings")
        \cup Needed("invoice_embeddings", {"tenant_id", "invoice_id", "embedding", "model",
                                           "source_text"})
        \cup {Typed("invoice_embeddings", "embedding", "vector"),
              Reference("invoice_embeddings", "invoice_id", "invoices", "CASCADE")}),
    Create({Index("invoice_embeddings", cols) :
              cols \in {{"invoice_id"}, {"tenant_id"}, {"tenant_id", "invoice_id"}}}),
    Create({CosineIndex}) >>
DropEmbeddings == <<
    DropIfExists(CosineIndex), Drop(Index("invoice_embeddings", {"tenant_id", "invoice_id"})),
    Drop(Index("invoice_embeddings", {"tenant_id"})),
    Drop(Index("invoice_embeddings", {"invoice_id"})), Drop(Table("invoice_embeddings")) >>

AddTenantToInvoices == <<
    AddBare("invoices", "tenant_id"),
    Drop(Index("invoices", {"invoice_number"})),
    Create({Key("invoices", {"tenant_id", "invoice_number"})}) >>
DropTenantOfInvoices == <<
    Drop(Key("invoices", {"tenant_id", "invoice_number"})),
    Create({Index("invoices", {"invoice_number"})}),
    Drop(Column("invoices", "tenant_id")) >>

\* Mutant: the column is required without the backfill.
AddTenantToAuditAtOnce == <<
    AddColumn("llm_audit_entries", "tenant_id"),
    SetNotNull("llm_audit_entries", "tenant_id"),
    Create({Index("llm_audit_entries", {"tenant_id"})}) >>

AddTenantToAudit == <<
    AddColumn("llm_audit_entries", "tenant_id"),
    Update("llm_audit_entries", "tenant_id"),
    SetNotNull("llm_audit_entries", "tenant_id"),
    Create({Index("llm_audit_entries", {"tenant_id"})}) >>
DropTenantOfAudit == <<
    Drop(Index("llm_audit_entries", {"tenant_id"})),
    Drop(Column("llm_audit_entries", "tenant_id")) >>

CreateUsers == <<
    CreateTable("tenants",
        Standard("tenants") \cup Needed("tenants", {"slug", "display_name"})
        \cup {Key("tenants", {"slug"})}),
    CreateTable("users",
        Standard("users") \cup Needed("users", {"tenant_id", "email", "password_hash"})
        \cup Optional("users", {"full_name"}) \cup {Key("users", {"tenant_id", "email"})}) >>
DropUsers == << Drop(Table("users")), Drop(Table("tenants")) >>

CreateFiles == <<
    CreateTable("invoice_files",
        Standard("invoice_files")
        \cup Needed("invoice_files", {"tenant_id", "filename", "mime_type", "size_bytes",
                                      "sha256", "storage_path"})
        \cup Optional("invoice_files", {"uploaded_by_user_id", "invoice_id"})
        \cup {Reference("invoice_files", "uploaded_by_user_id", "users", "SET_NULL"),
              Reference("invoice_files", "invoice_id", "invoices", "SET_NULL"),
              Key("invoice_files", {"tenant_id", "sha256"})}),
    Create({Index("invoice_files", {"sha256"})}),
    Create({Index("invoice_files", {"tenant_id", "created_at"})}) >>
DropFiles == <<
    Drop(Index("invoice_files", {"tenant_id", "created_at"})),
    Drop(Index("invoice_files", {"sha256"})), Drop(Table("invoice_files")) >>

AddExtraction == <<
    Ensure(Enum("extraction_status", {"pending", "processing", "completed", "failed"})),
    AddWithDefault("invoice_files", "extraction_status"),
    Create({Typed("invoice_files", "extraction_status", "extraction_status")}),
    AddColumn("invoice_files", "extraction_result"),
    AddColumn("invoice_files", "extraction_error"),
    AddColumn("invoice_files", "extracted_at"),
    AddWithDefault("invoice_files", "extraction_attempts"),
    Create({Index("invoice_files", {"tenant_id", "extraction_status"})}),
    AddColumn("invoices", "net_amount"), AddColumn("invoices", "tax_amount") >>
DropExtraction == <<
    Drop(Column("invoices", "tax_amount")), Drop(Column("invoices", "net_amount")),
    Drop(Index("invoice_files", {"tenant_id", "extraction_status"})),
    Drop(Column("invoice_files", "extraction_attempts")),
    Drop(Column("invoice_files", "extracted_at")),
    Drop(Column("invoice_files", "extraction_error")),
    Drop(Column("invoice_files", "extraction_result")),
    Drop(Column("invoice_files", "extraction_status")),
    DropIfExists(Type("extraction_status")) >>

\* Mutant: the users that exist are not marked as verified.
AddVerificationWithoutBackfill == <<
    AddColumn("users", "email_verified_at"),
    AddColumn("users", "email_verification_token_hash"),
    AddColumn("users", "email_verification_expires_at"),
    AddColumn("users", "email_verification_sent_at"),
    Create({Index("users", {"email_verification_token_hash"})}) >>

AddVerification == <<
    AddColumn("users", "email_verified_at"),
    AddColumn("users", "email_verification_token_hash"),
    AddColumn("users", "email_verification_expires_at"),
    AddColumn("users", "email_verification_sent_at"),
    Create({Index("users", {"email_verification_token_hash"})}),
    Update("users", "email_verified_at") >>
DropVerification == <<
    Drop(Index("users", {"email_verification_token_hash"})),
    Drop(Column("users", "email_verification_sent_at")),
    Drop(Column("users", "email_verification_expires_at")),
    Drop(Column("users", "email_verification_token_hash")),
    Drop(Column("users", "email_verified_at")) >>

AddEdits == <<
    AddWithDefault("invoices", "version"), AddWithDefault("invoices", "is_reviewed"),
    AddColumn("invoices", "reviewed_at"), AddColumn("invoices", "reviewed_by_user_id"),
    Create({Reference("invoices", "reviewed_by_user_id", "users", "SET_NULL")}),
    AddColumn("invoices", "line_items"),
    Update("invoices", "version"), Update("invoices", "is_reviewed"),
    CreateTable("invoice_edits",
        Needed("invoice_edits", {"id", "tenant_id", "invoice_id", "field", "created_at"})
        \cup Optional("invoice_edits", {"user_id", "old_value", "new_value"})
        \cup {Reference("invoice_edits", "invoice_id", "invoices", "CASCADE"),
              Reference("invoice_edits", "user_id", "users", "SET_NULL")}),
    Create({Index("invoice_edits", {"tenant_id", "invoice_id"})}) >>
\* Mutant: a column is forgotten.
DropEditsButItems == <<
    Drop(Index("invoice_edits", {"tenant_id", "invoice_id"})), Drop(Table("invoice_edits")),
    Drop(Column("invoices", "reviewed_by_user_id")), Drop(Column("invoices", "reviewed_at")),
    Drop(Column("invoices", "is_reviewed")), Drop(Column("invoices", "version")) >>

DropEdits == <<
    Drop(Index("invoice_edits", {"tenant_id", "invoice_id"})), Drop(Table("invoice_edits")),
    Drop(Column("invoices", "line_items")), Drop(Column("invoices", "reviewed_by_user_id")),
    Drop(Column("invoices", "reviewed_at")), Drop(Column("invoices", "is_reviewed")),
    Drop(Column("invoices", "version")) >>

CreateMappings == <<
    Ensure({Extension("pgcrypto")}),
    CreateTable("vendor_account_mappings",
        Standard("vendor_account_mappings")
        \cup Needed("vendor_account_mappings", {"tenant_id", "vendor_name_normalized",
               "vendor_name_raw", "creditor_account_number", "usage_count", "last_used_at"})
        \cup {Key("vendor_account_mappings", {"tenant_id", "vendor_name_normalized"})}),
    Create({Index("vendor_account_mappings", {"tenant_id", "last_used_at"})}) >>
DropMappings == <<
    Drop(Index("vendor_account_mappings", {"tenant_id", "last_used_at"})),
    Drop(Table("vendor_account_mappings")) >>

Methods == {"xrechnung_ubl", "xrechnung_cii", "zugferd_v2", "ai_vision"}
AddMethod == <<
    Ensure(Enum("extraction_method", Methods)),
    AddColumn("invoice_files", "extraction_method"),
    Create({Typed("invoice_files", "extraction_method", "extraction_method")}) >>
DropMethod == <<
    Drop(Column("invoice_files", "extraction_method")), DropIfExists(Type("extraction_method")) >>

AddNotAnInvoice == << Ensure({Label("extraction_status", "not_an_invoice")}) >>
KeepNotAnInvoice == << >>

Upgrades == << CreateInvoices, EnableVector, CreateAudit, CreateEmbeddings,
               AddTenantToInvoices, AddTenantToAudit, CreateUsers, CreateFiles, AddExtraction,
               AddVerification, AddEdits, CreateMappings, AddMethod, AddNotAnInvoice >>
Downgrades == << DropInvoices, DisableVector, DropAudit, DropEmbeddings,
                 DropTenantOfInvoices, DropTenantOfAudit, DropUsers, DropFiles, DropExtraction,
                 DropVerification, DropEdits, DropMappings, DropMethod, KeepNotAnInvoice >>
Latest == 14
Verification == 10

Upgraded(d) == [Executed(d, Upgrades[d.rev + 1]) EXCEPT !.rev = @ + 1]
Downgraded(d) == [Executed(d, Downgrades[d.rev]) EXCEPT !.rev = @ - 1]
-----------------------------------------------------------------------------
(* The tables as the ORM models declare them.                              *)

TenantColumn(t) == Needed(t, {"tenant_id"})
Indexed(t, names) == {Index(t, {c}) : c \in names}

InvoiceModel == Standard("invoices") \cup TenantColumn("invoices")
    \cup Needed("invoices", {"invoice_number", "vendor_name", "invoice_date", "total_amount",
                             "currency", "status", "version", "is_reviewed"})
    \cup Optional("invoices", {"net_amount", "tax_amount", "reviewed_at",
                               "reviewed_by_user_id", "line_items"})
    \cup Enum("invoice_status", {"RECEIVED", "PROCESSING", "BOOKED", "ERROR"})
    \cup {Typed("invoices", "status", "invoice_status"),
          Reference("invoices", "reviewed_by_user_id", "users", "SET_NULL"),
          Key("invoices", {"tenant_id", "invoice_number"})}
    \cup Indexed("invoices", {"vendor_name", "status"})

InvoiceEditModel == TenantColumn("invoice_edits")
    \cup Needed("invoice_edits", {"id", "invoice_id", "field", "created_at"})
    \cup Optional("invoice_edits", {"user_id", "old_value", "new_value"})
    \cup {Reference("invoice_edits", "invoice_id", "invoices", "CASCADE"),
          Reference("invoice_edits", "user_id", "users", "SET_NULL"),
          Index("invoice_edits", {"tenant_id", "invoice_id"})}

InvoiceEmbeddingModel == Standard("invoice_embeddings") \cup TenantColumn("invoice_embeddings")
    \cup Needed("invoice_embeddings", {"invoice_id", "embedding", "model", "source_text"})
    \cup {Typed("invoice_embeddings", "embedding", "vector"),
          Reference("invoice_embeddings", "invoice_id", "invoices", "CASCADE"),
          Index("invoice_embeddings", {"tenant_id", "invoice_id"})}
    \cup Indexed("invoice_embeddings", {"tenant_id", "invoice_id"})

InvoiceFileModel == Standard("invoice_files") \cup TenantColumn("invoice_files")
    \cup Needed("invoice_files", {"filename", "mime_type", "size_bytes", "sha256",
                                  "storage_path", "extraction_status", "extraction_attempts"})
    \cup Optional("invoice_files", {"uploaded_by_user_id", "invoice_id", "extraction_result",
                                    "extraction_error", "extraction_method", "extracted_at"})
    \cup Enum("extraction_status", {"pending", "processing", "completed", "failed",
                                    "not_an_invoice"})
    \cup Enum("extraction_method", Methods)
    \cup {Typed("invoice_files", "extraction_status", "extraction_status"),
          Typed("invoice_files", "extraction_method", "extraction_method"),
          Reference("invoice_files", "uploaded_by_user_id", "users", "SET_NULL"),
          Reference("invoice_files", "invoice_id", "invoices", "SET_NULL"),
          Key("invoice_files", {"tenant_id", "sha256"}),
          Index("invoice_files", {"tenant_id", "created_at"}),
          Index("invoice_files", {"tenant_id", "extraction_status"})}
    \cup Indexed("invoice_files", {"sha256"})

LLMAuditEntryModel == Standard("llm_audit_entries") \cup TenantColumn("llm_audit_entries")
    \cup Needed("llm_audit_entries", {"provider_name", "operation", "model", "prompt_text",
                   "prompt_chars", "response_chars", "duration_ms", "success"})
    \cup Optional("llm_audit_entries", {"error_message"})
    \cup Indexed("llm_audit_entries", {"tenant_id", "provider_name", "operation", "model",
                                       "success"})

TenantModel == Standard("tenants") \cup Needed("tenants", {"slug", "display_name"})
    \cup {Key("tenants", {"slug"})}

UserModel == Standard("users") \cup TenantColumn("users")
    \cup Needed("users", {"email", "password_hash"})
    \cup Optional("users", {"full_name", "email_verified_at", "email_verification_token_hash",
                            "email_verification_expires_at", "email_verification_sent_at"})
    \cup {Key("users", {"tenant_id", "email"})}
    \cup Indexed("users", {"email_verification_token_hash"})

VendorAccountMappingModel ==
    Standard("vendor_account_mappings") \cup TenantColumn("vendor_account_mappings")
    \cup Needed("vendor_account_mappings", {"vendor_name_normalized", "vendor_name_raw",
                   "creditor_account_number", "usage_count", "last_used_at"})
    \cup {Key("vendor_account_mappings", {"tenant_id", "vendor_name_normalized"}),
          Index("vendor_account_mappings", {"tenant_id", "last_used_at"})}

Metadata == {Table(t) : t \in Tables} \cup InvoiceModel \cup InvoiceEditModel
    \cup InvoiceEmbeddingModel \cup InvoiceFileModel \cup LLMAuditEntryModel
    \cup TenantModel \cup UserModel \cup VendorAccountMappingModel

-----------------------------------------------------------------------------
(* Running alembic: one command, one transaction over all its revisions.   *)

NoRun == -1
Empty == [schema |-> {}, rows |-> [t \in Tables |-> {}], rev |-> 0, ok |-> TRUE]

Init ==
    /\ db = Empty
    /\ work = Empty
    /\ target = NoRun
    /\ inserts = 0

Begin(to) ==
    /\ target = NoRun
    /\ to # db.rev
    /\ target' = to
    /\ work' = db
    /\ UNCHANGED <<db, inserts>>

\* One revision of `alembic upgrade`, and the new alembic_version.
Upgrade ==
    /\ work.rev < target
    /\ work.rev = Latest - 1 => db.rev = Latest - 1
    /\ Upgraded(work).ok
    /\ work' = Upgraded(work)
    /\ UNCHANGED <<db, target, inserts>>

\* One revision of `alembic downgrade`.
Downgrade ==
    /\ target # NoRun /\ target < work.rev
    /\ Downgraded(work).ok
    /\ work' = Downgraded(work)
    /\ UNCHANGED <<db, target, inserts>>

\* The last revision begins with a COMMIT of everything before it.
CommitWithin ==
    /\ work.rev = Latest - 1 /\ target = Latest
    /\ db.rev # work.rev
    /\ db' = work
    /\ UNCHANGED <<work, target, inserts>>

Finish ==
    /\ target # NoRun /\ work.rev = target
    /\ db' = work
    /\ target' = NoRun
    /\ UNCHANGED <<work, inserts>>

\* A statement fails or the process ends: the transaction is rolled back.
Abort ==
    /\ target # NoRun
    /\ work' = db
    /\ target' = NoRun
    /\ UNCHANGED <<db, inserts>>

\* The application inserts a row: with every column, or the needed ones only.
\* DDL locks its tables until the transaction ends; a row in another table is
\* seen by the statements that follow.
Locked == {o.on : o \in (work.schema \ db.schema) \cup (db.schema \ work.schema)}
          \cup {o.to[1] : o \in {x \in work.schema \ db.schema : x.kind = "reference"}}
Names(schema, kind, t) == UNION {o.cols : o \in {x \in schema : x.kind = kind /\ x.on = t}}
Insert(t, kind) ==
    /\ inserts < MaxInserts
    /\ Table(t) \in db.schema
    /\ target # NoRun => t \notin Locked
    /\ LET row == Names(db.schema, kind, t)
       IN  /\ db' = [db EXCEPT !.rows[t] = @ \cup {row}]
           /\ work' = [work EXCEPT !.rows[t] = @ \cup {row}]
    /\ inserts' = inserts + 1
    /\ UNCHANGED target

Next ==
    \/ \E to \in 0..Latest : Begin(to)
    \/ Upgrade \/ Downgrade \/ CommitWithin \/ Finish \/ Abort
    \/ \E t \in Used, kind \in {"column", "not_null"} : Insert(t, kind)

Spec == Init /\ [][Next]_vars

-----------------------------------------------------------------------------
(* Properties.                                                             *)

Kinds == Attached \cup {"table", "type", "label", "extension"}
TypeNames == {"invoice_status", "extraction_status", "extraction_method", "vector", "pgcrypto"}

IsObject(o) ==
    /\ o = Object(o.kind, o.on, o.cols, o.to)
    /\ o.kind \in Kinds
    /\ o.on \in IF o.kind \in Attached \cup {"table"} THEN Tables ELSE TypeNames

Databases(d) ==
    /\ d.rev \in 0..Latest
    /\ d.ok = TRUE
    /\ \A o \in d.schema : IsObject(o)
    /\ \A t \in Tables : d.rows[t] \subseteq SUBSET Names(d.schema, "column", t)

\* The databases are well formed: rows exist in tables and columns that exist.
TypeOK ==
    /\ Databases(db) /\ Databases(work)
    /\ target \in {NoRun} \cup 0..Latest
    /\ inserts \in 0..MaxInserts

\* What downgrades leave behind: the types that no downgrade drops, and the
\* label that the last one keeps.
Leftovers == {Extension("pgcrypto"),
              Label("extraction_status", "not_an_invoice")}
             \cup Enum("invoice_status", {"RECEIVED", "PROCESSING", "BOOKED", "ERROR"})

\* The schema of every revision, as upgrades alone build it from nothing.
SchemaAt[r \in 0..Latest] ==
    IF r = 0 THEN {}
    ELSE Executed([Empty EXCEPT !.schema = SchemaAt[r - 1]], Upgrades[r]).schema

\* The schema depends on alembic_version alone, whichever upgrades, downgrades
\* and broken runs led there, but for the known leftovers (migrations/versions).
SchemaOfRevision ==
    /\ SchemaAt[db.rev] \subseteq db.schema
    /\ db.schema \subseteq SchemaAt[db.rev] \cup Leftovers

\* At the head revision the database has the tables, columns, NOT NULLs, keys,
\* references, enumerations and indexes that the ORM declares: of what the
\* models do not know only the vector index and extensions are left.
LatestServesModels ==
    db.rev = Latest =>
        /\ Metadata \subseteq db.schema
        /\ db.schema \ Metadata \subseteq {CosineIndex, Extension("vector"), Extension("pgcrypto")}

\* A revision applies wherever a history of commands can lead, with two
\* exceptions: invoices that exist have no tenant (a4e2c9f17b3d:23), and the
\* type that the first downgrade leaves stops the first upgrade.
RevisionsApply ==
    /\ work.rev < Latest =>
         \/ Upgraded(work).ok
         \/ work.rev = 4 /\ work.rows["invoices"] # {}
         \/ work.rev = 0 /\ Type("invoice_status") \in work.schema
    /\ work.rev > 0 => Downgraded(work).ok

\* The database is sound: rows fit the schema, the schema is the revision's, and
\* the last one is what the models declare.
SchemaIsSound == TypeOK /\ SchemaOfRevision /\ LatestServesModels

\* An upgrade takes no value from any row, committed in one piece or in two, and
\* who could log in before e-mails were verified still can when it is through
\* (b7f9c2a4d1e0:42).
UpgradesKeepData ==
    [][/\ db.rev <= db'.rev
         => \A t \in Tables : \A r \in db.rows[t] : \E s \in db'.rows[t] : r \subseteq s
       /\ db.rev < Verification /\ db'.rev >= Verification
         => \A r \in db'.rows["users"] : "email_verified_at" \in r]_vars

=============================================================================
