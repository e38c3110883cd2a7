-------------------------- MODULE DemoReset_proofs --------------------------
(***************************************************************************)
(* Proofs about DemoReset, for any number of resets, extractions, uploads  *)
(* and seeded invoices.  Row locks and statement snapshots carry the       *)
(* argument for what a reset leaves behind, the unique key on the invoice  *)
(* number the one for which of two resets prevails.                        *)
(***************************************************************************)
EXTENDS DemoReset, TLAPS

-----------------------------------------------------------------------------
(* The inductive invariant *)

\* The rows that a transaction inserts.
UserOf(t) == Row("users", t, 0, <<"demo", 0>>, None)

InvoiceId(e) == Id("invoices", e, 0)

EInvoice(e, n) == Row("invoices", e, 0, Number(n), None)

NewRows(t) ==
    IF t \in Resets THEN {UserOf(t)} \cup SeedInvoices(t)
                         \cup UNION {SeedFiles(t, pdf) : pdf \in {"fresh", "same", "fallback"}}
    ELSE {EInvoice(t, n) : n \in NumberIn}

SameKey(x, y) == x.table = y.table /\ x.key = y.key

Ended == {"idle", "done", "failed"}

\* A transaction that has not begun, or has ended, holds nothing.
HoldsNothing(r) ==
    r.pc \in Ended => /\ r.deleted = {} /\ r.updated = {} /\ r.shared = {}
                      /\ r.inserted = {}

\* What it is inserting.
WantFits(t, r) ==
    IF r.pc # "insert" THEN r.want = {}
    ELSE \/ r.table = "users" /\ t \in Resets /\ r.want = {UserOf(t)}
         \/ r.table = "invoices" /\ t \in Resets /\ r.want = SeedInvoices(t)
         \/ /\ r.table = "files" /\ t \in Resets
            /\ \E pdf \in {"fresh", "same", "fallback"} : r.want = SeedFiles(t, pdf)
         \/ /\ r.table = "invoices" /\ t \in Extractions
            /\ \E n \in NumberIn : r.want = {EInvoice(t, n)}

\* What it has inserted is its own, and nobody's key: the rows with one of these
\* keys are those that it has deleted.
InsertedFits(t, r, db) ==
    /\ r.inserted \subseteq NewRows(t)
    /\ r.pc \in {"snapshot", "delete", "ensure user"} => r.inserted = {}
    /\ r.pc = "insert" => \A x \in r.inserted :
          <<x.table, r.table>> \in {<<"users", "invoices">>, <<"users", "files">>,
                                   <<"invoices", "files">>}
    /\ \A x \in r.inserted, y \in db : SameKey(x, y) => y.id \in r.deleted
    /\ \A x, y \in r.inserted : SameKey(x, y) => x = y
    /\ t \in Resets /\ (r.pc = "commit" \/ (r.pc = "insert" /\ r.table = "files"))
           => SeedInvoices(t) \subseteq r.inserted

\* A reset has deleted from the tables that its DELETEs have passed ...
Passed(r, table) ==
    ~ /\ r.pc \in {"snapshot", "delete"}
      /\ \/ r.table = table
         \/ r.table = "edits"
         \/ r.table = "files" /\ table = "invoices"

\* ... all that was there when it began, and it has seen the invoices of the
\* files it deleted, or will see them.
WipeFits(r, db) ==
    /\ r.pc \in {"snapshot", "delete"} => r.table \in {"edits", "files", "invoices"}
    /\ \A i \in r.deleted : Passed(r, i[1])
    /\ r.pc = "delete" => \A i \in r.snap : i[1] = r.table
    /\ \A i \in r.began : /\ i[1] # "users"
                          /\ i[1] = "edits" => Id("invoices", i[2], i[3]) \in r.began
    /\ \A i \in r.began \cap Ids(db) : i[1] \in {"files", "invoices"} =>
          /\ Passed(r, i[1]) => i \in r.deleted
          /\ r.pc = "delete" /\ i[1] = r.table => i \in r.snap
    /\ \A e \in Extractions :
          FileId(e) \in r.deleted /\ InvoiceId(e) \in Ids(db) =>
              /\ r.pc = "delete" => InvoiceId(e) \in r.snap
              /\ Passed(r, "invoices") => InvoiceId(e) \in r.deleted

\* An extraction holds what it has updated, and refers to an invoice that stays.
LinkFits(t, r, db) ==
    /\ r.pc \notin Ended => r.ref # None /\ r.ref[1] = "invoices"
    /\ r.updated \subseteq Ids(db) \cap {FileId(t), r.ref}
    /\ r.pc \in {"reference", "commit"} => FileId(t) \in r.updated
    /\ r.shared \subseteq Ids(db \cup r.inserted) \cap {r.ref}
    /\ r.pc = "commit" => r.ref \in r.shared

TxFits(t, r, db) ==
    /\ HoldsNothing(r) /\ WantFits(t, r) /\ InsertedFits(t, r, db)
    /\ t \in Resets => WipeFits(r, db) /\ r.updated = {} /\ r.shared = {}
                       /\ r.pc \notin {"update invoice", "update file", "reference"}
    /\ t \in Extractions => LinkFits(t, r, db) /\ r.deleted = {} /\ r.began = {}
                            /\ r.pc \notin {"snapshot", "delete", "ensure user"}

\* Two transactions lock different rows and insert different keys.
Apart(r, q) ==
    /\ (r.deleted \cup r.updated) \cap (q.deleted \cup q.updated) = {}
    /\ r.shared \cap q.deleted = {} /\ q.shared \cap r.deleted = {}
    /\ \A x \in r.inserted, y \in q.inserted : ~SameKey(x, y)

\* Whoever wrote a row with this id will not write it again.
Spent(i) ==
    /\ i[2] \in Tx => tx[i[2]].pc = "done"
    /\ i[2] \in Uploads => i[2] \notin fresh

\* A committed row.
RowFits(x) ==
    /\ x.id = Id(x.table, x.by, x.id[3])
    /\ x.table \in {"edits", "audits"} => x.key = <<x.by, x.id[3]>>
    /\ x.table = "edits" => x.ref = Id("invoices", x.by, x.id[3])
    /\ x.table = "files" /\ x.key[1] \in Uploads => x.by = x.key[1]
    /\ x.table = "files" /\ x.by \in Resets /\ x.ref # None => x.ref[2] = x.by
    /\ x.table = "invoices" =>
          /\ x.by \in Tx
          /\ x.by \in Resets => x.id[3] \in Slots /\ x.key = Number(x.id[3])
          /\ x.by \in Extractions => x.id[3] = 0

IInv ==
    /\ TypeOK
    /\ \A t \in Tx : TxFits(t, tx[t], rows) /\ \A i \in tx[t].began : Spent(i)
    /\ \A t, u \in Tx : t # u => Apart(tx[t], tx[u])
    /\ \A x \in rows : RowFits(x) /\ Spent(x.id)
    /\ RowsAreSound /\ WholeBatch /\ ExtractedHasFile

-----------------------------------------------------------------------------
(* Lemmas about rows *)

LEMMA IdFacts ==
    /\ \A a, b, c : Id(a, b, c)[1] = a /\ Id(a, b, c)[2] = b /\ Id(a, b, c)[3] = c
    /\ \A i \in RowIds : /\ i[1] \in Tables /\ i[2] \in Writers /\ i[3] \in Counts
                         /\ Id(i[1], i[2], i[3]) = i
    /\ \A a \in Tables, b \in Writers, c \in Counts : Id(a, b, c) \in RowIds
BY DEF Id, RowIds

LEMMA RowFacts ==
    ASSUME NEW table, NEW by, NEW n, NEW key, NEW ref
    PROVE  LET x == Row(table, by, n, key, ref) IN
           /\ x.table = table /\ x.id = Id(table, by, n) /\ x.by = by
           /\ x.key = key /\ x.ref = ref
           /\ table \in Tables /\ by \in Writers /\ n \in Counts /\ key \in Keys
                 /\ ref \in RowIds \cup {None}
              => x \in Rows
BY IdFacts DEF Row, Rows

LEMMA RowTypes ==
    ASSUME NEW x \in Rows
    PROVE  /\ x.table \in Tables /\ x.id \in RowIds /\ x.by \in Writers
           /\ x.key \in Keys /\ x.ref \in RowIds \cup {None}
BY DEF Rows

\* A file that a reset seeds.
LEMMA SeedFileFacts ==
    ASSUME NEW t \in Resets, NEW pdf \in {"fresh", "same", "fallback"},
           NEW x \in SeedFiles(t, pdf)
    PROVE  /\ x \in Rows /\ x.by = t /\ x.table = "files"
           /\ x.id = Id("files", t, x.id[3]) /\ x.id[3] \in Slots
           /\ x.ref = Id("invoices", t, x.id[3]) /\ x.key[1] \notin Uploads
<1>0. PICK s \in Slots :
         \E key \in {<<t, s>>, <<"seed", s>>, <<"seed", 0>>} :
             x = Row("files", t, s, key, Id("invoices", t, s))
  BY DEF SeedFiles
<1>1. PICK key \in {<<t, s>>, <<"seed", s>>, <<"seed", 0>>} :
         x = Row("files", t, s, key, Id("invoices", t, s))
  BY <1>0
<1>2. key \in Keys /\ key[1] \notin Uploads
  <2>1. t \notin Uploads /\ "seed" \notin Uploads
    BY DemoAssumption DEF Tx, Writers
  <2>2. key[1] \in {t, "seed"} /\ key[2] \in {s, 0} /\ key = <<key[1], key[2]>>
    OBVIOUS
  <2>3. QED
    BY <2>1, <2>2 DEF Keys, Writers, Tx, Counts
<1>3. t \in Writers /\ s \in Counts /\ Id("invoices", t, s) \in RowIds
  BY IdFacts DEF Writers, Tx, Counts, Tables
<1>4. x.id = Id("files", t, s) /\ x.id[3] = s
  BY <1>1, RowFacts, IdFacts
<1>5. QED
  BY <1>1, <1>2, <1>3, <1>4, RowFacts DEF Tables

LEMMA SeedInvoiceFacts ==
    ASSUME NEW t \in Tx
    PROVE  /\ \A x \in SeedInvoices(t) :
                 /\ x \in Rows /\ x.by = t /\ x.table = "invoices"
                 /\ x.id = Id("invoices", t, x.id[3]) /\ x.id[3] \in Slots
                 /\ x.key = Number(x.id[3]) /\ x.ref = None
           /\ \A s \in Slots : \E x \in SeedInvoices(t) :
                 /\ x.id = Id("invoices", t, s) /\ x.key = Number(s)
                 /\ x.table = "invoices"
<1>1. ASSUME NEW s \in Slots
      PROVE  LET x == Row("invoices", t, s, NumberOf(t, s), None) IN
             /\ x \in Rows /\ x.by = t /\ x.table = "invoices"
             /\ x.id = Id("invoices", t, s) /\ x.id[3] = s
             /\ x.key = Number(s) /\ x.ref = None
  <2>1. Number(s) \in Keys /\ t \in Writers /\ s \in Counts
    BY DEF Number, Keys, Writers, Counts
  <2>2. QED
    BY <2>1, RowFacts, IdFacts DEF NumberOf, Tables
<1>2. QED
  BY <1>1 DEF SeedInvoices

LEMMA EInvoiceFacts ==
    ASSUME NEW t \in Tx, NEW n \in NumberIn
    PROVE  LET x == EInvoice(t, n) IN
           /\ x \in Rows /\ x.by = t /\ x.table = "invoices"
           /\ x.id = Id("invoices", t, 0) /\ x.id[3] = 0 /\ x.ref = None
<1>1. Number(n) \in Keys /\ t \in Writers /\ 0 \in Counts
  BY DEF Number, Keys, Writers, Counts
<1>2. QED
  BY <1>1, RowFacts, IdFacts DEF EInvoice, Tables

LEMMA UserFacts ==
    ASSUME NEW t \in Tx
    PROVE  LET x == UserOf(t) IN
           /\ x \in Rows /\ x.by = t /\ x.table = "users"
           /\ x.id = Id("users", t, 0) /\ x.id[3] = 0 /\ x.ref = None
<1>1. <<"demo", 0>> \in Keys /\ t \in Writers /\ 0 \in Counts
  BY DEF Keys, Writers, Counts
<1>2. QED
  BY <1>1, RowFacts, IdFacts DEF UserOf, Tables

\* The rows that a transaction may insert.
LEMMA NewRowsFacts ==
    ASSUME NEW t \in Tx, NEW x \in NewRows(t)
    PROVE  /\ x \in Rows /\ x.by = t /\ x.id = Id(x.table, t, x.id[3])
           /\ x.table \in {"users", "invoices", "files"}
           /\ x.table = "files" => /\ t \in Resets /\ x.id[3] \in Slots
                                   /\ x.ref = Id("invoices", t, x.id[3])
                                   /\ x.key[1] \notin Uploads
           /\ x.table # "files" => x.ref = None
           /\ x.table = "invoices" /\ t \in Resets
                 => x.id[3] \in Slots /\ x.key = Number(x.id[3]) /\ x \in SeedInvoices(t)
           /\ t \in Extractions => x.table = "invoices" /\ x.id[3] = 0
<1>1. CASE t \in Resets
  <2>1. t \notin Extractions
    BY <1>1, DemoAssumption
  <2>2. CASE x = UserOf(t)
    BY <2>1, <2>2, UserFacts
  <2>3. CASE x \in SeedInvoices(t)
    BY <2>1, <2>3, SeedInvoiceFacts
  <2>4. CASE \E pdf \in {"fresh", "same", "fallback"} : x \in SeedFiles(t, pdf)
    BY <1>1, <2>1, <2>4, SeedFileFacts
  <2>5. QED
    BY <1>1, <2>2, <2>3, <2>4 DEF NewRows
<1>2. CASE t \notin Resets
  BY <1>2, EInvoiceFacts DEF NewRows
<1>3. QED
  BY <1>1, <1>2

-----------------------------------------------------------------------------
(* Transactions that end, and steps of one transaction *)

LEMMA SetTypes ==
    /\ \A r \in Transaction :
          /\ r.pc \in Steps /\ r.table \in Tables
          /\ r.snap \in SUBSET RowIds /\ r.deleted \in SUBSET RowIds
          /\ r.updated \in SUBSET RowIds /\ r.shared \in SUBSET RowIds
          /\ r.inserted \in SUBSET Rows /\ r.want \in SUBSET Rows
          /\ r.ref \in RowIds \cup {None} /\ r.began \in SUBSET RowIds
    /\ \A s : s \subseteq Rows => Ids(s) \subseteq RowIds
<1>1. \A s : s \subseteq Rows => Ids(s) \subseteq RowIds
  BY RowTypes DEF Ids
<1>2. QED
  BY <1>1 DEF Transaction

\* A transaction that has ended, or not begun, fits whatever the rows are, if none
\* of them is one that it remembers.
LEMMA EndedFits ==
    ASSUME NEW t \in Tx, NEW db, NEW r, r.pc \in Ended,
           r.deleted = {}, r.updated = {}, r.shared = {}, r.inserted = {}, r.want = {},
           r.began # {} => t \in Resets,
           \A i \in r.began : /\ i[1] # "users"
                              /\ i[1] = "edits" => Id("invoices", i[2], i[3]) \in r.began
                              /\ i[1] \in {"files", "invoices"} => i \notin Ids(db)
    PROVE  TxFits(t, r, db) /\ \A q : Apart(r, q) /\ Apart(q, r)
<1>1. r.pc \notin {"snapshot", "delete", "ensure user", "insert", "commit", "reference",
                   "update invoice", "update file"}
  BY DEF Ended
<1>2. HoldsNothing(r) /\ WantFits(t, r) /\ InsertedFits(t, r, db)
  BY <1>1 DEF HoldsNothing, WantFits, InsertedFits
<1>3. WipeFits(r, db) /\ (t \in Extractions => LinkFits(t, r, db) /\ r.began = {})
  BY <1>1, DemoAssumption DEF WipeFits, LinkFits, Passed
<1>4. \A q : Apart(r, q) /\ Apart(q, r)
  BY DEF Apart
<1>5. QED
  BY <1>1, <1>2, <1>3, <1>4 DEF TxFits

LEMMA ApartSymmetric == \A r, q : Apart(r, q) => Apart(q, r)
BY DEF Apart, SameKey

\* The state of one transaction changes, the rows stay as they are.
LEMMA LocalStep ==
    ASSUME IInv, NEW t \in Tx, tx[t].pc # "done",
           NEW r \in Transaction, Become(t, r), UNCHANGED rows,
           TxFits(t, r, rows), \A i \in r.began : Spent(i),
           \A u \in Tx \ {t} : Apart(r, tx[u])
    PROVE  IInv'
<1>1. /\ tx \in [Tx -> Transaction] /\ rows \subseteq Rows /\ fresh \subseteq Uploads
      /\ tx'[t] = r /\ fresh' = fresh /\ rows' = rows
      /\ \A u \in Tx \ {t} : tx'[u] = tx[u]
      /\ tx' \in [Tx -> Transaction]
  BY DEF IInv, TypeOK, Become
<1>2. \A i : Spent(i) => Spent(i)'
  BY <1>1 DEF Spent
<1>3. \A u \in Tx : TxFits(u, tx'[u], rows') /\ \A i \in tx'[u].began : Spent(i)'
  BY <1>1, <1>2 DEF IInv
<1>4. \A u, v \in Tx : u # v => Apart(tx'[u], tx'[v])
  BY <1>1, ApartSymmetric DEF IInv
<1>5. \A x \in rows' : RowFits(x) /\ Spent(x.id)'
  BY <1>1, <1>2 DEF IInv
<1>6. RowsAreSound' /\ WholeBatch' /\ ExtractedHasFile'
  BY <1>1 DEF IInv, RowsAreSound, WholeBatch, ExtractedHasFile, Of, FileId
<1>7. QED
  BY <1>1, <1>3, <1>4, <1>5, <1>6 DEF IInv, TypeOK, RowFits

\* What a transaction holds outlives what others do to the rows.
LEMMA RowsStep ==
    ASSUME NEW t \in Tx, NEW r \in Transaction, NEW before, NEW after,
           TxFits(t, r, before),
           \A y \in after : \/ \E x \in before : x.id = y.id /\ SameKey(x, y)
                            \/ \A x \in r.inserted : ~SameKey(x, y),
           \A i \in r.updated \cup r.shared : i \in Ids(before) => i \in Ids(after),
           \A i \in r.began :
              i[1] \in {"files", "invoices"} /\ i \in Ids(after) => i \in Ids(before),
           \A e \in Extractions : InvoiceId(e) \in Ids(after) /\ FileId(e) \in r.deleted
                                    => InvoiceId(e) \in Ids(before)
    PROVE  TxFits(t, r, after)
<1>1. InsertedFits(t, r, after)
  <2>1. ASSUME NEW x \in r.inserted, NEW y \in after, SameKey(x, y) PROVE y.id \in r.deleted
    <3>1. PICK z \in before : z.id = y.id /\ SameKey(z, y)
      BY <2>1
    <3>2. SameKey(x, z)
      BY <2>1, <3>1 DEF SameKey
    <3>3. QED
      BY <3>1, <3>2 DEF TxFits, InsertedFits
  <2>2. QED
    BY <2>1 DEF TxFits, InsertedFits
<1>2. t \in Resets => WipeFits(r, after)
  BY DEF TxFits, WipeFits
<1>3. t \in Extractions => LinkFits(t, r, after)
  <2>1. \A s, u : Ids(s \cup u) = Ids(s) \cup Ids(u)
    BY DEF Ids
  <2>2. QED
    BY <2>1 DEF TxFits, LinkFits
<1>4. QED
  BY <1>1, <1>2, <1>3 DEF TxFits

-----------------------------------------------------------------------------
(* The steps of a reset *)

\* What is known of a transaction that waits for nobody.
LEMMA NobodyHolds ==
    ASSUME IInv, NEW t \in Tx, WaitsFor(t) = {}, NEW u \in Tx \ {t}
    PROVE  /\ tx[t].pc = "delete" =>
                 tx[t].snap \cap (tx[u].deleted \cup tx[u].updated \cup tx[u].shared) = {}
           /\ tx[t].pc = "insert" => \A x \in tx[t].want, y \in tx[u].inserted : ~SameKey(x, y)
           /\ tx[t].pc \in {"update invoice", "update file"} =>
                 Target(t) \notin tx[u].deleted \cup tx[u].updated
           /\ tx[t].pc = "reference" => tx[t].ref \notin tx[u].deleted
<1>1. HoldsNothing(tx[u])
  BY DEF IInv, TxFits
<1>2. \A i : /\ i \in tx[u].deleted \cup tx[u].updated => Active(u)
             /\ i \in tx[u].shared => Active(u)
             /\ i \in tx[u].inserted => Active(u)
  BY <1>1 DEF HoldsNothing, Active, Ended
<1>3. u \notin WaitsFor(t)
  OBVIOUS
<1>4. CASE tx[t].pc = "delete"
  BY <1>2, <1>3, <1>4 DEF WaitsFor, Holds, Shares
<1>5. CASE tx[t].pc = "insert"
  BY <1>2, <1>3, <1>5 DEF WaitsFor, Contends, SameKey
<1>6. CASE tx[t].pc \in {"update invoice", "update file"}
  BY <1>2, <1>3, <1>6 DEF WaitsFor, Holds
<1>7. CASE tx[t].pc = "reference"
  BY <1>2, <1>3, <1>7 DEF WaitsFor
<1>8. QED
  BY <1>4, <1>5, <1>6, <1>7

LEMMA FailStep ==
    ASSUME IInv, NEW t \in Tx, Active(t), Fail(t)
    PROVE  IInv'
<1> DEFINE r == [NoTx EXCEPT !.pc = "failed"]
<1>1. /\ r.pc = "failed" /\ r.deleted = {} /\ r.updated = {} /\ r.shared = {}
      /\ r.inserted = {} /\ r.want = {} /\ r.began = {} /\ r \in Transaction
  BY DEF NoTx, Transaction, Steps, Tables
<1>2. Become(t, r) /\ UNCHANGED rows /\ tx[t].pc # "done"
  BY DEF Fail, Active
<1> HIDE DEF r
<1>3. TxFits(t, r, rows) /\ \A q : Apart(r, q)
  BY <1>1, EndedFits DEF Ended
<1>4. QED
  BY <1>1, <1>2, <1>3, LocalStep

LEMMA BeginStep ==
    ASSUME IInv, NEW t \in Resets, Begin(t)
    PROVE  IInv'
<1> DEFINE old == Ids(rows \ Of("users"))
           r == [NoTx EXCEPT !.pc = "snapshot", !.began = old]
<1>1. /\ t \in Tx /\ t \notin Extractions /\ rows \subseteq Rows
  BY DemoAssumption DEF Tx, IInv, TypeOK
<1>2. old \in SUBSET RowIds
  BY <1>1, SetTypes DEF Ids
<1>3. /\ r.pc = "snapshot" /\ r.table = "edits" /\ r.deleted = {} /\ r.updated = {}
      /\ r.shared = {} /\ r.inserted = {} /\ r.want = {} /\ r.began = old
      /\ r \in Transaction
  BY <1>2 DEF NoTx, Transaction, Steps, Tables
<1>4. Become(t, r) /\ UNCHANGED rows /\ tx[t].pc # "done"
  BY DEF Begin
<1>5. ASSUME NEW i \in old
      PROVE  /\ Spent(i) /\ i[1] # "users"
             /\ i[1] = "edits" => Id("invoices", i[2], i[3]) \in old
  <2>1. PICK x \in rows : x.id = i /\ x.table # "users"
    BY DEF Ids, Of
  <2>2. /\ Spent(i) /\ x.id = Id(x.table, x.by, x.id[3]) /\ x.table \in Tables
        /\ x.table = "edits" => x.ref = Id("invoices", x.by, x.id[3])
        /\ x.ref \in Ids(Of("invoices")) \cup {None}
    BY <1>1, <2>1, RowTypes DEF IInv, RowFits, RowsAreSound
  <2>3. i[1] = x.table /\ i[2] = x.by
    BY <2>1, <2>2, IdFacts
  <2>4. Id("invoices", x.by, x.id[3]) # None
    <3>1. x.by \in Writers /\ x.id[3] \in Counts
      BY <1>1, <2>1, RowTypes, IdFacts
    <3>2. QED
      BY <3>1, IdFacts, DemoAssumption DEF Tables
  <2>5. Ids(Of("invoices")) \subseteq old
    BY DEF Ids, Of
  <2>6. QED
    BY <2>1, <2>2, <2>3, <2>4, <2>5 DEF Tables
<1> HIDE DEF r, old
<1>6. \A T : ~Passed(r, T)
  BY <1>3 DEF Passed
<1>7. HoldsNothing(r) /\ WantFits(t, r) /\ InsertedFits(t, r, rows)
  BY <1>3 DEF HoldsNothing, WantFits, InsertedFits
<1>8. WipeFits(r, rows)
  BY <1>3, <1>5, <1>6 DEF WipeFits
<1>9. TxFits(t, r, rows)
  BY <1>1, <1>3, <1>7, <1>8 DEF TxFits
<1>10. \A q : Apart(r, q)
  BY <1>3 DEF Apart
<1>11. QED
  BY <1>1, <1>3, <1>4, <1>5, <1>9, <1>10, LocalStep

\* Only resets take snapshots, delete and look for the user.
LEMMA ResetAt ==
    ASSUME IInv, NEW t \in Tx, tx[t].pc \in {"snapshot", "delete", "ensure user"}
    PROVE  /\ t \in Resets /\ t \notin Extractions
           /\ tx[t] \in Transaction /\ TxFits(t, tx[t], rows) /\ WipeFits(tx[t], rows)
           /\ tx[t].inserted = {} /\ tx[t].want = {}
           /\ \A i \in tx[t].began : Spent(i)
           /\ \A u \in Tx \ {t} : Apart(tx[t], tx[u])
<1>1. TxFits(t, tx[t], rows) /\ tx[t] \in Transaction
  BY DEF IInv, TypeOK
<1>2. t \notin Extractions
  BY <1>1 DEF TxFits
<1>3. t \in Resets
  BY <1>2 DEF Tx
<1>4. tx[t].inserted = {} /\ tx[t].want = {}
  BY <1>1 DEF TxFits, InsertedFits, WantFits
<1>5. QED
  BY <1>1, <1>2, <1>3, <1>4 DEF IInv, TxFits

LEMMA SnapshotStep ==
    ASSUME IInv, NEW t \in Tx, Snapshot(t)
    PROVE  IInv'
<1> DEFINE old == tx[t]
           seen == Ids(Of(old.table))
           r == [old EXCEPT !.pc = "delete", !.snap = seen]
<1>1. /\ old.pc = "snapshot" /\ Become(t, r) /\ UNCHANGED rows
  BY DEF Snapshot
<1>2. /\ t \in Resets /\ t \notin Extractions /\ old \in Transaction
      /\ TxFits(t, old, rows) /\ WipeFits(old, rows)
      /\ old.inserted = {} /\ old.want = {} /\ \A i \in old.began : Spent(i)
      /\ \A u \in Tx \ {t} : Apart(old, tx[u])
  BY <1>1, ResetAt
<1>3. rows \subseteq Rows /\ seen \in SUBSET RowIds
  BY SetTypes DEF IInv, TypeOK, Of, Ids
<1>4. \A i : i \in seen <=> i \in Ids(rows) /\ i[1] = old.table
  <2>1. \A x \in rows : x.id[1] = x.table
    BY IdFacts DEF IInv, RowFits
  <2>2. QED
    BY <2>1 DEF Ids, Of
<1>5. /\ r.pc = "delete" /\ r.table = old.table /\ r.snap = seen
      /\ r.deleted = old.deleted /\ r.updated = old.updated /\ r.shared = old.shared
      /\ r.inserted = old.inserted /\ r.want = old.want /\ r.ref = old.ref
      /\ r.began = old.began /\ r \in Transaction
  BY <1>2, <1>3 DEF Transaction, Steps
<1> HIDE DEF r, old, seen
<1>6. \A T : Passed(r, T) <=> Passed(old, T)
  BY <1>1, <1>5 DEF Passed
<1>7. HoldsNothing(r) /\ WantFits(t, r) /\ InsertedFits(t, r, rows)
  BY <1>2, <1>5 DEF HoldsNothing, WantFits, InsertedFits, Ended
<1>8. WipeFits(r, rows)
  <2>1. old.table \in {"edits", "files", "invoices"}
    BY <1>1, <1>2 DEF WipeFits
  <2>2. ASSUME NEW e \in Extractions, FileId(e) \in r.deleted, InvoiceId(e) \in Ids(rows)
        PROVE  InvoiceId(e) \in r.snap
    <3>1. Passed(old, "files")
      BY <1>2, <1>5, <2>2, IdFacts DEF WipeFits, FileId
    <3>2. old.table = "invoices"
      BY <1>1, <2>1, <3>1 DEF Passed
    <3>3. QED
      BY <1>4, <1>5, <2>2, <3>2, IdFacts DEF InvoiceId
  <2>3. QED
    BY <1>2, <1>4, <1>5, <1>6, <2>1, <2>2 DEF WipeFits
<1>9. TxFits(t, r, rows)
  BY <1>2, <1>5, <1>7, <1>8 DEF TxFits
<1>10. \A q : Apart(old, q) => Apart(r, q)
  BY <1>5 DEF Apart
<1>11. QED
  BY <1>1, <1>2, <1>5, <1>9, <1>10, LocalStep DEF old

LEMMA DeleteStep ==
    ASSUME IInv, NEW t \in Tx, Delete(t)
    PROVE  IInv'
<1> DEFINE old == tx[t]
           found == [old EXCEPT !.deleted = @ \cup (old.snap \cap Ids(rows)), !.snap = {}]
           next == After(old.table)
           r == IF next = None THEN [found EXCEPT !.pc = "ensure user"]
                ELSE [found EXCEPT !.pc = "snapshot", !.table = next]
<1>1. /\ old.pc = "delete" /\ WaitsFor(t) = {} /\ Become(t, r) /\ UNCHANGED rows
  BY DEF Delete
<1>2. /\ t \in Resets /\ t \notin Extractions /\ old \in Transaction
      /\ TxFits(t, old, rows) /\ WipeFits(old, rows)
      /\ old.inserted = {} /\ old.want = {} /\ \A i \in old.began : Spent(i)
      /\ \A u \in Tx \ {t} : Apart(old, tx[u])
  BY <1>1, ResetAt
<1>3. old.table \in {"edits", "files", "invoices"}
  BY <1>1, <1>2 DEF WipeFits
<1>4. /\ found.deleted = old.deleted \cup (old.snap \cap Ids(rows)) /\ found.table = old.table
      /\ found.updated = old.updated /\ found.shared = old.shared
      /\ found.inserted = {} /\ found.want = {} /\ found.began = old.began
      /\ found \in Transaction
  BY <1>2 DEF Transaction
<1> HIDE DEF found
<1>5. \/ /\ old.table = "edits" /\ r = [found EXCEPT !.pc = "snapshot", !.table = "files"]
      \/ /\ old.table = "files" /\ r = [found EXCEPT !.pc = "snapshot", !.table = "invoices"]
      \/ /\ old.table = "invoices" /\ r = [found EXCEPT !.pc = "ensure user"]
  <2>1. After("edits") = "files" /\ After("files") = "invoices" /\ After("invoices") = None
    BY DEF After
  <2>2. "files" # None /\ "invoices" # None
    BY DemoAssumption DEF Tables
  <2>3. QED
    BY <1>3, <2>1, <2>2
<1>6. /\ r.deleted = old.deleted \cup (old.snap \cap Ids(rows))
      /\ r.updated = old.updated /\ r.shared = old.shared
      /\ r.inserted = {} /\ r.want = {} /\ r.began = old.began /\ r \in Transaction
      /\ \/ /\ old.table = "edits" /\ r.pc = "snapshot" /\ r.table = "files"
         \/ /\ old.table = "files" /\ r.pc = "snapshot" /\ r.table = "invoices"
         \/ /\ old.table = "invoices" /\ r.pc = "ensure user"
  BY <1>4, <1>5 DEF Transaction, Steps, Tables
<1> HIDE DEF r, old, next
<1>7. \A T \in {"edits", "files", "invoices"} :
         Passed(r, T) <=> Passed(old, T) \/ T = old.table
  BY <1>1, <1>3, <1>6 DEF Passed
<1>8. HoldsNothing(r) /\ WantFits(t, r) /\ InsertedFits(t, r, rows)
  BY <1>2, <1>6 DEF HoldsNothing, WantFits, InsertedFits, Ended
<1>9. WipeFits(r, rows)
  <2>1. \A T : Passed(old, T) => Passed(r, T)
    BY <1>1, <1>3, <1>6 DEF Passed
  <2>2. \A i \in r.deleted : Passed(r, i[1])
    BY <1>1, <1>2, <1>3, <1>6, <1>7, <2>1 DEF WipeFits
  <2>3. ASSUME NEW i \in r.began \cap Ids(rows), i[1] \in {"files", "invoices"},
               Passed(r, i[1])
        PROVE  i \in r.deleted
    BY <1>1, <1>2, <1>6, <1>7, <2>3 DEF WipeFits
  <2>4. ASSUME NEW e \in Extractions, FileId(e) \in r.deleted, InvoiceId(e) \in Ids(rows),
               Passed(r, "invoices")
        PROVE  InvoiceId(e) \in r.deleted
    <3>1. FileId(e) \in old.deleted
      <4>1. CASE FileId(e) \in old.snap
        <5>1. old.table = "files"
          BY <1>1, <1>2, <4>1, IdFacts DEF WipeFits, FileId
        <5>2. QED
          BY <1>6, <2>4, <5>1 DEF Passed
      <4>2. QED
        BY <1>6, <2>4, <4>1
    <3>2. InvoiceId(e) \in old.snap
      BY <1>1, <1>2, <2>4, <3>1 DEF WipeFits
    <3>3. QED
      BY <1>6, <2>4, <3>2
  <2>5. r.pc # "delete" /\ (r.pc = "snapshot" => r.table \in {"edits", "files", "invoices"})
    BY <1>6
  <2>6. QED
    BY <1>2, <1>6, <2>2, <2>3, <2>4, <2>5 DEF WipeFits
<1>10. TxFits(t, r, rows)
  BY <1>2, <1>6, <1>8, <1>9 DEF TxFits
<1>11. ASSUME NEW u \in Tx \ {t} PROVE Apart(r, tx[u])
  <2>1. old.snap \cap (tx[u].deleted \cup tx[u].updated \cup tx[u].shared) = {}
    BY <1>1, NobodyHolds DEF old
  <2>2. Apart(old, tx[u])
    BY <1>2
  <2>3. QED
    BY <1>6, <2>1, <2>2 DEF Apart
<1>12. QED
  BY <1>1, <1>2, <1>6, <1>10, <1>11, LocalStep DEF old

LEMMA EnsureDemoUserStep ==
    ASSUME IInv, NEW t \in Tx, EnsureDemoUser(t)
    PROVE  IInv'
<1>1. /\ t \in Resets /\ t \notin Extractions /\ tx[t] \in Transaction
      /\ TxFits(t, tx[t], rows) /\ WipeFits(tx[t], rows) /\ tx[t].pc = "ensure user"
      /\ tx[t].inserted = {} /\ \A i \in tx[t].began : Spent(i)
      /\ \A u \in Tx \ {t} : Apart(tx[t], tx[u])
  BY ResetAt DEF EnsureDemoUser
<1>2. PICK table \in {"users", "invoices"}, want \in SUBSET Rows :
         /\ Become(t, Inserting(tx[t], table, want)) /\ UNCHANGED rows
         /\ \/ table = "invoices" /\ want = SeedInvoices(t)
            \/ table = "users" /\ want = {UserOf(t)}
  <2>1. SeedInvoices(t) \in SUBSET Rows /\ {UserOf(t)} \in SUBSET Rows
    BY SeedInvoiceFacts, UserFacts
  <2>2. QED
    BY <2>1 DEF EnsureDemoUser, UserOf
<1> DEFINE r == Inserting(tx[t], table, want)
<1>3. /\ r.pc = "insert" /\ r.table = table /\ r.want = want /\ r.deleted = tx[t].deleted
      /\ r.updated = tx[t].updated /\ r.shared = tx[t].shared /\ r.inserted = {}
      /\ r.began = tx[t].began /\ r \in Transaction
  BY <1>1 DEF Inserting, Transaction, Steps, Tables
<1> HIDE DEF r
<1>4. HoldsNothing(r) /\ WantFits(t, r) /\ InsertedFits(t, r, rows)
  BY <1>1, <1>2, <1>3 DEF HoldsNothing, WantFits, InsertedFits, Ended
<1>5. WipeFits(r, rows)
  <2>1. \A T : Passed(r, T) /\ Passed(tx[t], T)
    BY <1>1, <1>3 DEF Passed
  <2>2. QED
    BY <1>1, <1>3, <2>1 DEF WipeFits
<1>6. TxFits(t, r, rows)
  BY <1>1, <1>3, <1>4, <1>5 DEF TxFits
<1>7. \A q : Apart(tx[t], q) => Apart(r, q)
  BY <1>1, <1>3 DEF Apart
<1>8. QED
  BY <1>1, <1>2, <1>3, <1>6, <1>7, LocalStep DEF r

-----------------------------------------------------------------------------
(* Inserting *)

\* What the insertion of the wanted rows makes of a transaction.
Advanced(t, old, r) ==
    \/ /\ old.table = "users" /\ t \in Resets
       /\ r.pc = "insert" /\ r.table = "invoices" /\ r.want = SeedInvoices(t)
    \/ /\ old.table = "invoices" /\ t \in Resets /\ r.pc = "insert" /\ r.table = "files"
       /\ \E pdf \in {"fresh", "same", "fallback"} : r.want = SeedFiles(t, pdf)
    \/ old.table = "files" /\ t \in Resets /\ r.pc = "commit" /\ r.want = {}
    \/ old.table = "invoices" /\ t \in Extractions /\ r.pc = "update file" /\ r.want = {}

LEMMA AdvancedBy ==
    ASSUME NEW t \in Tx, tx[t] \in Transaction, tx[t].pc = "insert", WantFits(t, tx[t]),
           AfterInsert(t)
    PROVE  \E r \in Transaction :
              /\ Become(t, r) /\ Advanced(t, tx[t], r)
              /\ r.inserted = tx[t].inserted \cup tx[t].want
              /\ r.deleted = tx[t].deleted /\ r.updated = tx[t].updated
              /\ r.shared = tx[t].shared /\ r.ref = tx[t].ref /\ r.began = tx[t].began
<1> DEFINE old == tx[t]
           done == Inserted(old)
<1>1. /\ done.inserted = old.inserted \cup old.want /\ done.want = {}
      /\ done.deleted = old.deleted /\ done.updated = old.updated /\ done.shared = old.shared
      /\ done.ref = old.ref /\ done.began = old.began /\ done.table = old.table
      /\ done \in Transaction
  BY DEF Inserted, Transaction
<1>2. old.table \in {"users", "files"} => t \in Resets
  BY DEF WantFits
<1> HIDE DEF done, old
<1>3. ASSUME NEW table \in Tables, NEW want \in SUBSET Rows
      PROVE  LET r == Inserting(done, table, want) IN
             /\ r.pc = "insert" /\ r.table = table /\ r.want = want
             /\ r.inserted = done.inserted /\ r.deleted = done.deleted
             /\ r.updated = done.updated /\ r.shared = done.shared /\ r.ref = done.ref
             /\ r.began = done.began /\ r \in Transaction
  BY <1>1 DEF Inserting, Transaction, Steps, Tables
<1>4. ASSUME NEW step \in Steps
      PROVE  LET r == [done EXCEPT !.pc = step] IN
             /\ r.pc = step /\ r.table = done.table /\ r.want = {}
             /\ r.inserted = done.inserted /\ r.deleted = done.deleted
             /\ r.updated = done.updated /\ r.shared = done.shared /\ r.ref = done.ref
             /\ r.began = done.began /\ r \in Transaction
  BY <1>1 DEF Transaction
<1>5. CASE old.table = "users" /\ Become(t, Inserting(done, "invoices", SeedInvoices(t)))
  <2>1. SeedInvoices(t) \in SUBSET Rows /\ "invoices" \in Tables
    BY SeedInvoiceFacts DEF Tables
  <2>2. QED
    BY <1>1, <1>2, <1>3, <1>5, <2>1 DEF Advanced, old
<1>6. ASSUME old.table = "invoices", t \in Resets,
             NEW pdf \in {"fresh", "same", "fallback"},
             Become(t, Inserting(done, "files", SeedFiles(t, pdf)))
      PROVE  \E r \in Transaction :
                /\ Become(t, r) /\ Advanced(t, old, r)
                /\ r.inserted = old.inserted \cup old.want
                /\ r.deleted = old.deleted /\ r.updated = old.updated
                /\ r.shared = old.shared /\ r.ref = old.ref /\ r.began = old.began
  <2> DEFINE r == Inserting(done, "files", SeedFiles(t, pdf))
  <2>1. SeedFiles(t, pdf) \in SUBSET Rows /\ "files" \in Tables
    BY <1>6, SeedFileFacts DEF Tables
  <2>2. /\ r.pc = "insert" /\ r.table = "files" /\ r.want = SeedFiles(t, pdf)
        /\ r.inserted = done.inserted /\ r.deleted = done.deleted
        /\ r.updated = done.updated /\ r.shared = done.shared /\ r.ref = done.ref
        /\ r.began = done.began /\ r \in Transaction
    BY <1>3, <2>1
  <2>3. Become(t, r)
    BY <1>6
  <2> HIDE DEF r
  <2>4. Advanced(t, old, r)
    BY <1>6, <2>2 DEF Advanced
  <2>5. QED
    BY <1>1, <2>2, <2>3, <2>4
<1>7. ASSUME NEW step \in {"commit", "update file"},
             Become(t, [done EXCEPT !.pc = step]),
             IF step = "commit" THEN old.table = "files" /\ t \in Resets
             ELSE old.table = "invoices" /\ t \in Extractions
      PROVE  \E r \in Transaction :
                /\ Become(t, r) /\ Advanced(t, old, r)
                /\ r.inserted = old.inserted \cup old.want
                /\ r.deleted = old.deleted /\ r.updated = old.updated
                /\ r.shared = old.shared /\ r.ref = old.ref /\ r.began = old.began
  <2> DEFINE r == [done EXCEPT !.pc = step]
  <2>1. step \in Steps
    BY DEF Steps
  <2>2. /\ r.pc = step /\ r.table = done.table /\ r.want = {}
        /\ r.inserted = done.inserted /\ r.deleted = done.deleted
        /\ r.updated = done.updated /\ r.shared = done.shared /\ r.ref = done.ref
        /\ r.began = done.began /\ r \in Transaction
    BY <1>4, <2>1
  <2>3. Become(t, r)
    BY <1>7
  <2> HIDE DEF r
  <2>4. Advanced(t, old, r)
    BY <1>7, <2>2 DEF Advanced
  <2>5. QED
    BY <1>1, <2>2, <2>3, <2>4
<1>8. CASE old.table = "files" /\ Become(t, [done EXCEPT !.pc = "commit"])
  BY <1>2, <1>7, <1>8 DEF old
<1>9. CASE /\ old.table = "invoices" /\ t \in Extractions
           /\ Become(t, [done EXCEPT !.pc = "update file"])
  BY <1>7, <1>9 DEF old
<1>10. QED
  BY <1>5, <1>6, <1>8, <1>9 DEF AfterInsert, done, old

\* The wanted rows are new ones of the transaction.
LEMMA WantedRows ==
    ASSUME NEW t \in Tx, NEW r, WantFits(t, r)
    PROVE  /\ r.want \subseteq NewRows(t)
           /\ r.pc = "insert" => /\ \A x \in r.want : x.table = r.table
                                 /\ r.table = "invoices" /\ t \in Resets
                                        => r.want = SeedInvoices(t)
<1>1. t \in Resets => t \notin Extractions
  BY DemoAssumption
<1>2. CASE r.pc # "insert"
  BY <1>2 DEF WantFits
<1>3. CASE r.pc = "insert" /\ r.table = "users" /\ t \in Resets /\ r.want = {UserOf(t)}
  BY <1>3, UserFacts DEF NewRows
<1>4. CASE r.pc = "insert" /\ r.table = "invoices" /\ t \in Resets /\ r.want = SeedInvoices(t)
  BY <1>4, SeedInvoiceFacts DEF NewRows
<1>5. ASSUME r.pc = "insert", r.table = "files", t \in Resets,
             NEW pdf \in {"fresh", "same", "fallback"}, r.want = SeedFiles(t, pdf)
      PROVE  r.want \subseteq NewRows(t) /\ \A x \in r.want : x.table = "files"
  BY <1>5, SeedFileFacts DEF NewRows
<1>6. ASSUME r.pc = "insert", r.table = "invoices", t \in Extractions,
             NEW n \in NumberIn, r.want = {EInvoice(t, n)}
      PROVE  r.want \subseteq NewRows(t) /\ \A x \in r.want : x.table = "invoices"
  BY <1>1, <1>6, EInvoiceFacts DEF NewRows
<1>7. QED
  BY <1>1, <1>2, <1>3, <1>4, <1>5, <1>6 DEF WantFits

LEMMA InsertStep ==
    ASSUME IInv, NEW t \in Tx, Insert(t)
    PROVE  IInv'
<1> DEFINE old == tx[t]
<1>1. /\ old.pc = "insert" /\ WaitsFor(t) = {} /\ old \in Transaction
      /\ TxFits(t, old, rows) /\ WantFits(t, old) /\ InsertedFits(t, old, rows)
      /\ \A i \in old.began : Spent(i)
      /\ \A u \in Tx \ {t} : Apart(old, tx[u])
  BY DEF Insert, IInv, TypeOK, TxFits
<1>2. CASE ~Unique(t)
  BY <1>1, <1>2, FailStep DEF Insert, Active
<1>3. CASE Unique(t)
  <2>1. PICK r \in Transaction :
           /\ Become(t, r) /\ Advanced(t, old, r)
           /\ r.inserted = old.inserted \cup old.want
           /\ r.deleted = old.deleted /\ r.updated = old.updated
           /\ r.shared = old.shared /\ r.ref = old.ref /\ r.began = old.began
    BY <1>1, <1>3, AdvancedBy DEF Insert
  <2>2. /\ \A x, y \in old.want : SameKey(x, y) => x = y
        /\ \A x \in old.want, y \in rows : SameKey(x, y) => y.id \in old.deleted
    BY <1>3 DEF Unique, SameKey
  <2>3. /\ \A u \in Tx \ {t} : \A x \in old.want, y \in tx[u].inserted : ~SameKey(x, y)
        /\ UNCHANGED rows
    BY <1>1, <1>3, NobodyHolds DEF Insert
  <2>4. /\ old.want \subseteq NewRows(t) /\ \A x \in old.want : x.table = old.table
        /\ old.table = "invoices" /\ t \in Resets => old.want = SeedInvoices(t)
        /\ old.inserted \subseteq NewRows(t)
        /\ \A x \in old.inserted :
              <<x.table, old.table>> \in {<<"users", "invoices">>, <<"users", "files">>,
                                         <<"invoices", "files">>}
    BY <1>1, WantedRows DEF InsertedFits
  <2>5. t \in Resets => t \notin Extractions
    BY DemoAssumption
  <2> HIDE DEF old
  <2>6. HoldsNothing(r) /\ WantFits(t, r)
    BY <2>1, <2>5 DEF HoldsNothing, WantFits, Advanced, Ended
  <2>7. InsertedFits(t, r, rows)
    <3>1. r.inserted \subseteq NewRows(t)
      BY <2>1, <2>4
    <3>2. \A x \in r.inserted, y \in rows : SameKey(x, y) => y.id \in r.deleted
      BY <1>1, <2>1, <2>2 DEF InsertedFits
    <3>3. \A x, y \in r.inserted : SameKey(x, y) => x = y
      <4>1. \A x \in old.inserted : x.table # old.table
        BY <2>4
      <4>2. \A x \in old.inserted, y \in old.want : ~SameKey(x, y) /\ ~SameKey(y, x)
        BY <2>4, <4>1 DEF SameKey
      <4>3. QED
        BY <1>1, <2>1, <2>2, <4>2 DEF InsertedFits
    <3>4. r.pc = "insert" => \A x \in r.inserted :
             <<x.table, r.table>> \in {<<"users", "invoices">>, <<"users", "files">>,
                                      <<"invoices", "files">>}
      <4>1. CASE old.table = "users"
        <5>1. \A x \in old.inserted : FALSE
          BY <2>4, <4>1
        <5>2. QED
          BY <2>1, <2>4, <4>1, <5>1 DEF Advanced
      <4>2. CASE old.table = "invoices"
        <5>1. \A x \in old.inserted : x.table = "users"
          BY <2>4, <4>2
        <5>2. QED
          BY <2>1, <2>4, <4>2, <5>1 DEF Advanced
      <4>3. CASE old.table \notin {"users", "invoices"}
        BY <2>1, <4>3 DEF Advanced
      <4>4. QED
        BY <4>1, <4>2, <4>3
    <3>5. t \in Resets /\ (r.pc = "commit" \/ (r.pc = "insert" /\ r.table = "files"))
              => SeedInvoices(t) \subseteq r.inserted
      BY <1>1, <2>1, <2>4, <2>5 DEF InsertedFits, Advanced
    <3>6. r.pc \notin {"snapshot", "delete", "ensure user"}
      BY <2>1 DEF Advanced
    <3>7. QED
      BY <3>1, <3>2, <3>3, <3>4, <3>5, <3>6 DEF InsertedFits
  <2>8. t \in Resets => /\ WipeFits(r, rows) /\ r.updated = {} /\ r.shared = {}
                        /\ r.pc \in {"insert", "commit"}
    <3>1. r.pc \notin {"snapshot", "delete"}
      BY <2>1 DEF Advanced
    <3>2. \A T : Passed(r, T) /\ Passed(old, T)
      BY <1>1, <3>1 DEF Passed
    <3>3. QED
      BY <1>1, <2>1, <2>5, <3>1, <3>2 DEF TxFits, WipeFits, Advanced
  <2>9. t \in Extractions => /\ LinkFits(t, r, rows) /\ r.deleted = {} /\ r.began = {}
                             /\ r.pc = "update file"
    <3>1. \A s, u, v : Ids(s \cup u) \subseteq Ids(s \cup (u \cup v))
      BY DEF Ids
    <3>2. t \in Extractions => r.pc = "update file"
      BY <2>1, <2>5 DEF Advanced
    <3>3. QED
      BY <1>1, <2>1, <3>1, <3>2 DEF TxFits, LinkFits, Ended
  <2>10. TxFits(t, r, rows)
    BY <2>6, <2>7, <2>8, <2>9 DEF TxFits
  <2>11. ASSUME NEW u \in Tx \ {t} PROVE Apart(r, tx[u])
    <3>1. Apart(old, tx[u]) /\ \A x \in old.want, y \in tx[u].inserted : ~SameKey(x, y)
      BY <1>1, <2>3
    <3>2. \A x \in r.inserted : x \in old.inserted \/ x \in old.want
      BY <2>1
    <3>3. QED
      BY <2>1, <3>1, <3>2 DEF Apart
  <2>12. tx[t].pc # "done"
    BY <1>1 DEF old
  <2>13. QED
    BY <1>1, <2>1, <2>3, <2>10, <2>11, <2>12, LocalStep
<1>4. QED
  BY <1>2, <1>3

-----------------------------------------------------------------------------
(* The steps of an extraction *)

\* What BeginExtraction makes of a transaction.
Started(t, r) ==
    /\ Become(t, r) /\ r.deleted = {} /\ r.updated = {} /\ r.shared = {}
    /\ r.inserted = {} /\ r.began = {} /\ r.ref # None /\ r.ref[1] = "invoices"
    /\ \/ r.pc \in {"update invoice", "update file"} /\ r.want = {}
       \/ /\ r.pc = "insert" /\ r.table = "invoices"
          /\ \E n \in NumberIn : r.want = {EInvoice(t, n)}

LEMMA BeginExtractionStep ==
    ASSUME IInv, NEW t \in Extractions, BeginExtraction(t)
    PROVE  IInv'
<1>1. t \in Tx /\ t \notin Resets /\ rows \subseteq Rows
  BY DemoAssumption DEF Tx, IInv, TypeOK
<1>2. PICK r \in Transaction : Started(t, r)
  <2>1. ASSUME NEW x \in Of("invoices"), NEW step \in {"update invoice", "update file"},
               Become(t, [NoTx EXCEPT !.pc = step, !.ref = x.id])
        PROVE  \E r \in Transaction : Started(t, r)
    <3> DEFINE r == [NoTx EXCEPT !.pc = step, !.ref = x.id]
    <3>1. x.id \in RowIds /\ x.id[1] = "invoices"
      <4>1. x \in Rows /\ x.table = "invoices" /\ x.id = Id(x.table, x.by, x.id[3])
        BY <1>1 DEF IInv, RowFits, Of
      <4>2. x.id \in RowIds
        BY <4>1, RowTypes
      <4>3. Id(x.table, x.by, x.id[3])[1] = x.table
        BY DEF Id
      <4>4. QED
        BY <4>1, <4>2, <4>3
    <3>2. /\ r.deleted = {} /\ r.updated = {} /\ r.shared = {} /\ r.inserted = {}
          /\ r.began = {} /\ r.ref = x.id /\ r.pc = step /\ r.want = {}
          /\ r \in Transaction
      BY <3>1 DEF NoTx, Transaction, Steps, Tables
    <3>3. Become(t, r)
      BY <2>1
    <3> HIDE DEF r
    <3>4. QED
      BY <3>1, <3>2, <3>3, DemoAssumption DEF Started
  <2>2. ASSUME NEW n \in NumberIn,
               Become(t, Inserting([NoTx EXCEPT !.ref = Id("invoices", t, 0)], "invoices",
                                   {Row("invoices", t, 0, Number(n), None)}))
        PROVE  \E r \in Transaction : Started(t, r)
    <3> DEFINE want == {EInvoice(t, n)}
               r == Inserting([NoTx EXCEPT !.ref = InvoiceId(t)], "invoices", want)
    <3>1. InvoiceId(t) \in RowIds /\ InvoiceId(t)[1] = "invoices"
      BY <1>1, IdFacts DEF InvoiceId, Writers, Counts, Tables
    <3>2. want \in SUBSET Rows
      BY <1>1, EInvoiceFacts
    <3>3. Become(t, r)
      BY <2>2 DEF EInvoice, InvoiceId
    <3>4. want = {EInvoice(t, n)}
      OBVIOUS
    <3> HIDE DEF want
    <3>5. /\ r.deleted = {} /\ r.updated = {} /\ r.shared = {} /\ r.inserted = {}
          /\ r.began = {} /\ r.ref = InvoiceId(t) /\ r.pc = "insert"
          /\ r.table = "invoices" /\ r.want = want /\ r \in Transaction
      BY <3>1, <3>2 DEF Inserting, NoTx, Transaction, Steps, Tables
    <3> HIDE DEF r
    <3>6. QED
      BY <3>1, <3>3, <3>4, <3>5, DemoAssumption DEF Started
  <2>3. QED
    BY <2>1, <2>2 DEF BeginExtraction
<1>3. UNCHANGED rows /\ tx[t].pc # "done"
  BY DEF BeginExtraction
<1>4. HoldsNothing(r) /\ WantFits(t, r) /\ InsertedFits(t, r, rows)
  BY <1>1, <1>2 DEF Started, HoldsNothing, WantFits, InsertedFits
<1>5. LinkFits(t, r, rows) /\ r.pc \notin {"snapshot", "delete", "ensure user"}
  BY <1>2 DEF Started, LinkFits
<1>6. TxFits(t, r, rows)
  BY <1>1, <1>2, <1>4, <1>5 DEF Started, TxFits
<1>7. \A q : Apart(r, q)
  BY <1>2 DEF Started, Apart
<1>8. QED
  BY <1>1, <1>2, <1>3, <1>6, <1>7, LocalStep DEF Started

\* Only extractions update rows.
LEMMA ExtractionAt ==
    ASSUME IInv, NEW t \in Tx,
           tx[t].pc \in {"update invoice", "update file", "reference"}
    PROVE  /\ t \in Extractions /\ t \notin Resets /\ tx[t] \in Transaction
           /\ TxFits(t, tx[t], rows) /\ LinkFits(t, tx[t], rows)
           /\ InsertedFits(t, tx[t], rows) /\ tx[t].want = {} /\ tx[t].ref # None
           /\ tx[t].deleted = {} /\ tx[t].began = {}
           /\ \A u \in Tx \ {t} : Apart(tx[t], tx[u])
<1>1. TxFits(t, tx[t], rows) /\ tx[t] \in Transaction
  BY DEF IInv, TypeOK
<1>2. t \notin Resets
  BY <1>1 DEF TxFits
<1>3. t \in Extractions
  BY <1>2 DEF Tx
<1>4. tx[t].want = {} /\ tx[t].ref # None
  BY <1>1, <1>3 DEF TxFits, WantFits, LinkFits, Ended
<1>5. QED
  BY <1>1, <1>2, <1>3, <1>4 DEF IInv, TxFits

LEMMA UpdateStep ==
    ASSUME IInv, NEW t \in Tx, Update(t)
    PROVE  IInv'
<1> DEFINE old == tx[t]
           r == [old EXCEPT !.updated = @ \cup {Target(t)},
                            !.pc = IF @ = "update invoice" THEN "update file" ELSE "reference"]
<1>1. old.pc \in {"update invoice", "update file"} /\ WaitsFor(t) = {}
  BY DEF Update
<1>2. /\ t \in Extractions /\ t \notin Resets /\ old \in Transaction
      /\ TxFits(t, old, rows) /\ LinkFits(t, old, rows) /\ InsertedFits(t, old, rows)
      /\ old.want = {} /\ old.deleted = {} /\ old.began = {}
      /\ \A u \in Tx \ {t} : Apart(old, tx[u])
  BY <1>1, ExtractionAt
<1>3. CASE Target(t) \notin Ids(rows)
  BY <1>1, <1>3, FailStep DEF Update, Active
<1>4. CASE Target(t) \in Ids(rows)
  <2>1. Become(t, r) /\ UNCHANGED rows
    BY <1>4 DEF Update
  <2>2. Target(t) = IF old.pc = "update invoice" THEN old.ref ELSE FileId(t)
    BY DEF Target
  <2>3. Target(t) \in RowIds
    BY <1>4, SetTypes DEF IInv, TypeOK
  <2>4. /\ r.updated = old.updated \cup {Target(t)} /\ r.deleted = {} /\ r.began = {}
        /\ r.inserted = old.inserted /\ r.want = {} /\ r.ref = old.ref
        /\ r.shared = old.shared
        /\ r.pc = IF old.pc = "update invoice" THEN "update file" ELSE "reference"
        /\ r \in Transaction
    BY <1>2, <2>3 DEF Transaction, Steps
  <2>5. \A u \in Tx \ {t} : Target(t) \notin tx[u].deleted \cup tx[u].updated
    BY <1>1, NobodyHolds
  <2> HIDE DEF r, old
  <2>6. HoldsNothing(r) /\ WantFits(t, r) /\ InsertedFits(t, r, rows)
    BY <1>2, <2>4 DEF HoldsNothing, WantFits, InsertedFits, Ended
  <2>7. LinkFits(t, r, rows)
    BY <1>1, <1>2, <1>4, <2>2, <2>4 DEF LinkFits, Ended
  <2>8. TxFits(t, r, rows)
    BY <1>2, <2>4, <2>6, <2>7 DEF TxFits
  <2>9. \A u \in Tx \ {t} : Apart(r, tx[u])
    BY <1>2, <2>4, <2>5 DEF Apart
  <2>10. QED
    BY <1>1, <2>1, <2>4, <2>8, <2>9, LocalStep DEF old
<1>5. QED
  BY <1>3, <1>4

LEMMA ReferenceStep ==
    ASSUME IInv, NEW t \in Tx, Reference(t)
    PROVE  IInv'
<1> DEFINE old == tx[t]
           r == [old EXCEPT !.pc = "commit", !.shared = {old.ref}]
<1>1. old.pc = "reference" /\ WaitsFor(t) = {}
  BY DEF Reference
<1>2. /\ t \in Extractions /\ t \notin Resets /\ old \in Transaction
      /\ TxFits(t, old, rows) /\ LinkFits(t, old, rows) /\ InsertedFits(t, old, rows)
      /\ old.want = {} /\ old.deleted = {} /\ old.began = {} /\ old.ref # None
      /\ \A u \in Tx \ {t} : Apart(old, tx[u])
  BY <1>1, ExtractionAt
<1>3. CASE old.ref \notin Ids(rows \cup old.inserted)
  BY <1>1, <1>3, FailStep DEF Reference, Active
<1>4. CASE old.ref \in Ids(rows \cup old.inserted)
  <2>1. Become(t, r) /\ UNCHANGED rows
    BY <1>4 DEF Reference
  <2>2. old.ref \in RowIds
    BY <1>2, SetTypes
  <2>3. /\ r.updated = old.updated /\ r.deleted = {} /\ r.began = {}
        /\ r.inserted = old.inserted /\ r.want = {} /\ r.ref = old.ref
        /\ r.shared = {old.ref} /\ r.pc = "commit" /\ r \in Transaction
    BY <1>2, <2>2 DEF Transaction, Steps
  <2>4. \A u \in Tx \ {t} : old.ref \notin tx[u].deleted
    BY <1>1, NobodyHolds
  <2> HIDE DEF r, old
  <2>5. HoldsNothing(r) /\ WantFits(t, r) /\ InsertedFits(t, r, rows)
    BY <1>2, <2>3 DEF HoldsNothing, WantFits, InsertedFits, Ended
  <2>6. LinkFits(t, r, rows)
    BY <1>1, <1>2, <1>4, <2>3 DEF LinkFits, Ended
  <2>7. TxFits(t, r, rows)
    BY <1>2, <2>3, <2>5, <2>6 DEF TxFits
  <2>8. \A u \in Tx \ {t} : Apart(r, tx[u])
    BY <1>2, <2>3, <2>4 DEF Apart
  <2>9. QED
    BY <1>1, <2>1, <2>3, <2>7, <2>8, LocalStep DEF old
<1>5. QED
  BY <1>3, <1>4

\* Only a transaction that is under way waits.
LEMMA DeadlockVictimStep ==
    ASSUME IInv, NEW t \in Tx, DeadlockVictim(t)
    PROVE  IInv'
<1>1. WaitsFor(t) # {}
  BY DEF DeadlockVictim, OnCycle
<1>2. Active(t)
  BY <1>1 DEF WaitsFor, Active
<1>3. QED
  BY <1>2, FailStep DEF DeadlockVictim

-----------------------------------------------------------------------------
(* The commit *)

\* A row that the commit of t leaves, and what it is afterwards.
Survives(t, x) ==
    x.id \notin tx[t].deleted /\ ~(x.table = "edits" /\ x.ref \in tx[t].deleted)

RefOf(t, x) ==
    IF x.table = "files" /\ x.id \in tx[t].updated THEN tx[t].ref
    ELSE IF x.ref \in tx[t].deleted THEN None ELSE x.ref

Kept(t, x) == [x EXCEPT !.ref = RefOf(t, x)]

LEMMA KeptFacts ==
    ASSUME IInv, NEW t \in Tx, NEW x \in rows
    PROVE  /\ Kept(t, x).id = x.id /\ Kept(t, x).table = x.table /\ Kept(t, x).by = x.by
           /\ Kept(t, x).key = x.key /\ Kept(t, x).ref = RefOf(t, x) /\ Kept(t, x) \in Rows
           /\ x \in Rows
<1>1. x \in Rows /\ tx[t] \in Transaction
  BY DEF IInv, TypeOK
<1>2. RefOf(t, x) \in RowIds \cup {None}
  BY <1>1, RowTypes, SetTypes DEF RefOf
<1>3. QED
  BY <1>1, <1>2 DEF Kept, Rows

LEMMA AppliedFacts ==
    ASSUME IInv, NEW t \in Tx
    PROVE  /\ Applied(t) \subseteq Rows /\ tx[t].inserted \subseteq Applied(t)
           /\ \A y \in Applied(t) : \/ y \in tx[t].inserted
                                    \/ \E x \in rows : Survives(t, x) /\ y = Kept(t, x)
           /\ \A x \in rows : Survives(t, x) => Kept(t, x) \in Applied(t)
           /\ \A i \in Ids(Applied(t)) :
                 \/ i \in Ids(tx[t].inserted)
                 \/ \E x \in rows : Survives(t, x) /\ x.id = i
<1>1. Applied(t) = {Kept(t, x) : x \in {z \in rows : Survives(t, z)}} \cup tx[t].inserted
  BY DEF Applied, Kept, RefOf, Survives
<1>2. \A x \in rows : Kept(t, x) \in Rows /\ Kept(t, x).id = x.id
  BY KeptFacts
<1>3. tx[t].inserted \subseteq Rows
  BY SetTypes DEF IInv, TypeOK
<1>4. QED
  BY <1>1, <1>2, <1>3 DEF Ids

\* A row, its id and who wrote it.
LEMMA RowIdFacts ==
    ASSUME IInv, NEW x \in rows
    PROVE  /\ x \in Rows /\ x.id \in RowIds /\ x.id \in Ids(rows)
           /\ x.id[1] = x.table /\ x.id[2] = x.by
           /\ x.id = Id(x.table, x.by, x.id[3])
           /\ RowFits(x) /\ Spent(x.id)
<1>1. x \in Rows /\ RowFits(x) /\ Spent(x.id) /\ x.id = Id(x.table, x.by, x.id[3])
  BY DEF IInv, TypeOK, RowFits
<1>2. Id(x.table, x.by, x.id[3])[1] = x.table /\ Id(x.table, x.by, x.id[3])[2] = x.by
  BY DEF Id
<1>3. x.id \in RowIds /\ x.id \in Ids(rows)
  BY <1>1, RowTypes DEF Ids
<1>4. QED
  BY <1>1, <1>2, <1>3

\* A transaction that commits.
LEMMA CommitAt ==
    ASSUME IInv, NEW t \in Tx, Commit(t)
    PROVE  /\ tx[t].pc = "commit" /\ rows' = Applied(t) /\ fresh' = fresh
           /\ \A u \in Tx \ {t} : tx'[u] = tx[u] /\ Apart(tx[t], tx[u])
           /\ tx'[t] = [NoTx EXCEPT !.pc = "done", !.began = tx[t].began]
           /\ tx[t] \in Transaction /\ tx' \in [Tx -> Transaction]
           /\ TxFits(t, tx[t], rows) /\ InsertedFits(t, tx[t], rows)
           /\ \A T : Passed(tx[t], T)
           /\ \A i \in tx[t].began : Spent(i)
           /\ t \in Resets => /\ t \notin Extractions /\ tx[t].updated = {}
                              /\ SeedInvoices(t) \subseteq tx[t].inserted
                              /\ WipeFits(tx[t], rows)
           /\ t \notin Resets => /\ t \in Extractions /\ tx[t].deleted = {}
                                 /\ tx[t].began = {} /\ LinkFits(t, tx[t], rows)
                                 /\ FileId(t) \in tx[t].updated /\ tx[t].ref \in tx[t].shared
                                 /\ tx[t].ref[1] = "invoices"
<1>1. /\ tx[t].pc = "commit" /\ rows' = Applied(t)
      /\ Become(t, [NoTx EXCEPT !.pc = "done", !.began = tx[t].began])
      /\ tx \in [Tx -> Transaction]
  BY DEF Commit, IInv, TypeOK
<1>2. tx[t] \in Transaction
  BY <1>1
<1>3. [NoTx EXCEPT !.pc = "done", !.began = tx[t].began] \in Transaction
  BY <1>2 DEF NoTx, Transaction, Steps, Tables
<1>4. /\ fresh' = fresh /\ \A u \in Tx \ {t} : tx'[u] = tx[u]
      /\ tx'[t] = [NoTx EXCEPT !.pc = "done", !.began = tx[t].began]
      /\ tx' \in [Tx -> Transaction]
  BY <1>1, <1>3 DEF Become
<1>5. TxFits(t, tx[t], rows) /\ \A i \in tx[t].began : Spent(i)
  BY DEF IInv
<1>6. \A T : Passed(tx[t], T)
  BY <1>1 DEF Passed
<1>7. \A u \in Tx \ {t} : Apart(tx[t], tx[u])
  BY DEF IInv
<1>8. t \in Resets => /\ t \notin Extractions /\ tx[t].updated = {}
                      /\ SeedInvoices(t) \subseteq tx[t].inserted
                      /\ WipeFits(tx[t], rows)
  BY <1>1, <1>5, DemoAssumption DEF TxFits, InsertedFits
<1>9. t \notin Resets => t \in Extractions
  BY DEF Tx
<1>10. t \notin Resets => /\ tx[t].deleted = {} /\ tx[t].began = {}
                          /\ LinkFits(t, tx[t], rows)
  BY <1>5, <1>9 DEF TxFits
<1>11. t \notin Resets => /\ FileId(t) \in tx[t].updated /\ tx[t].ref \in tx[t].shared
                          /\ tx[t].ref[1] = "invoices"
  BY <1>1, <1>10 DEF LinkFits, Ended
<1>12. InsertedFits(t, tx[t], rows)
  BY <1>5 DEF TxFits
<1>13. QED
  BY <1>1, <1>2, <1>4, <1>5, <1>6, <1>7, <1>8, <1>9, <1>10, <1>11, <1>12

\* The rows that it has inserted.
LEMMA CommitInserts ==
    ASSUME IInv, NEW t \in Tx, Commit(t), NEW x \in tx[t].inserted
    PROVE  /\ x \in NewRows(t) /\ x \in rows' /\ x \in Rows /\ x.by = t
           /\ x.id = Id(x.table, t, x.id[3]) /\ x.id[1] = x.table /\ x.id[2] = t
           /\ RowFits(x) /\ ~Spent(x.id) /\ Spent(x.id)'
<1>1. x \in NewRows(t) /\ x \in rows'
  <2>1. InsertedFits(t, tx[t], rows) /\ rows' = Applied(t)
    BY CommitAt
  <2>2. tx[t].inserted \subseteq Applied(t)
    BY AppliedFacts
  <2>3. QED
    BY <2>1, <2>2 DEF InsertedFits
<1>2. /\ x \in Rows /\ x.by = t /\ x.id = Id(x.table, t, x.id[3])
      /\ x.table \in {"users", "invoices", "files"}
      /\ x.table = "files" => /\ t \in Resets /\ x.id[3] \in Slots
                              /\ x.ref = Id("invoices", t, x.id[3])
                              /\ x.key[1] \notin Uploads
      /\ x.table = "invoices" /\ t \in Resets => x.id[3] \in Slots /\ x.key = Number(x.id[3])
      /\ t \in Extractions => x.id[3] = 0
  BY <1>1, NewRowsFacts
<1>3. /\ Id(x.table, t, x.id[3])[1] = x.table /\ Id(x.table, t, x.id[3])[2] = t
      /\ Id("invoices", t, x.id[3])[2] = t
  BY DEF Id
<1>4. x.id[1] = x.table /\ x.id[2] = t
  BY <1>2, <1>3
<1>5. tx[t].pc = "commit" /\ tx'[t].pc = "done" /\ t \notin Uploads
  <2>1. tx[t].pc = "commit" /\ tx'[t] = [NoTx EXCEPT !.pc = "done", !.began = tx[t].began]
    BY CommitAt
  <2>2. tx'[t].pc = "done"
    BY <2>1 DEF NoTx
  <2>3. QED
    BY <2>1, <2>2, DemoAssumption
<1>6. ~Spent(x.id) /\ Spent(x.id)'
  BY <1>4, <1>5 DEF Spent
<1>7. RowFits(x)
  BY <1>2, <1>3 DEF RowFits
<1>8. QED
  BY <1>1, <1>2, <1>4, <1>6, <1>7

LEMMA CommitSpends ==
    ASSUME IInv, NEW t \in Tx, Commit(t), NEW i, Spent(i)
    PROVE  Spent(i)'
<1>1. /\ tx'[t].pc = "done" /\ fresh' = fresh /\ \A u \in Tx \ {t} : tx'[u] = tx[u]
  BY CommitAt DEF NoTx
<1>2. QED
  BY <1>1 DEF Spent

\* What a row of the tenant is after the commit.
LEMMA CommitLeaves ==
    ASSUME IInv, NEW t \in Tx, Commit(t)
    PROVE  /\ rows' \subseteq Rows
           /\ \A y \in rows' : \/ y \in tx[t].inserted
                               \/ \E x \in rows : Survives(t, x) /\ y = Kept(t, x)
           /\ \A x \in rows : Survives(t, x) => Kept(t, x) \in rows' /\ x.id \in Ids(rows')
           /\ \A i \in Ids(rows') :
                 \/ i \in Ids(tx[t].inserted)
                 \/ \E x \in rows : Survives(t, x) /\ x.id = i
           /\ \A x \in rows : /\ x.table # "edits" /\ x.id \notin tx[t].deleted => Survives(t, x)
                              /\ t \notin Resets => Survives(t, x)
<1>1. rows' = Applied(t) /\ (t \notin Resets => tx[t].deleted = {})
  BY CommitAt
<1>2. \A x \in rows : Survives(t, x) => Kept(t, x) \in Applied(t) /\ x.id \in Ids(Applied(t))
  BY AppliedFacts, KeptFacts DEF Ids
<1>3. \A x \in rows : /\ x.table # "edits" /\ x.id \notin tx[t].deleted => Survives(t, x)
                      /\ t \notin Resets => Survives(t, x)
  BY <1>1 DEF Survives
<1>4. QED
  BY <1>1, <1>2, <1>3, AppliedFacts

LEMMA CommitRowFits ==
    ASSUME IInv, NEW t \in Tx, Commit(t), NEW y \in rows'
    PROVE  RowFits(y) /\ Spent(y.id)'
<1>1. CASE y \in tx[t].inserted
  BY <1>1, CommitInserts
<1>2. ASSUME NEW x \in rows, Survives(t, x), y = Kept(t, x)
      PROVE  RowFits(y) /\ Spent(y.id)'
  <2>1. /\ y.id = x.id /\ y.table = x.table /\ y.by = x.by /\ y.key = x.key
        /\ y.ref = RefOf(t, x)
    BY <1>2, KeptFacts
  <2>2. x.id[2] = x.by /\ RowFits(x) /\ Spent(x.id)
    BY RowIdFacts
  <2>3. x.table = "edits" => y.ref = x.ref
    BY <1>2, <2>1 DEF RefOf, Survives
  <2>4. x.table = "files" /\ x.by \in Resets => y.ref \in {None, x.ref}
    <3>1. ASSUME x.by \in Resets, x.id \in tx[t].updated, x.table = "files"
          PROVE  FALSE
      <4>1. t \in Extractions /\ LinkFits(t, tx[t], rows) /\ tx[t].ref[1] = "invoices"
        BY <3>1, CommitAt
      <4>2. x.id = FileId(t)
        <5>1. x.id[1] = "files"
          BY <3>1, RowIdFacts
        <5>2. x.id \in {FileId(t), tx[t].ref}
          BY <3>1, <4>1 DEF LinkFits
        <5>3. QED
          BY <4>1, <5>1, <5>2
      <4>3. FileId(t)[2] = FileOf[t] /\ FileOf[t] \in Uploads
        BY <4>1, DemoAssumption DEF FileId, Id
      <4>4. x.by \in Uploads
        BY <2>2, <4>2, <4>3
      <4>5. QED
        BY <3>1, <4>4, DemoAssumption DEF Tx
    <3>2. QED
      BY <2>1, <3>1 DEF RefOf
  <2>5. RowFits(y)
    BY <2>1, <2>2, <2>3, <2>4 DEF RowFits
  <2>6. Spent(x.id)'
    BY <2>2, CommitSpends
  <2>7. QED
    BY <2>1, <2>5, <2>6
<1>3. QED
  BY <1>1, <1>2, CommitLeaves

LEMMA CommitRefs ==
    ASSUME IInv, NEW t \in Tx, Commit(t), NEW y \in rows'
    PROVE  y.ref \in Ids({z \in rows' : z.table = "invoices"}) \cup {None}
<1> DEFINE after == Ids({z \in rows' : z.table = "invoices"})
<1>1. \A x \in rows : x.table = "invoices" /\ Survives(t, x) => x.id \in after
  BY CommitLeaves, KeptFacts DEF Ids
<1>2. CASE y \in tx[t].inserted
  <2>1. y \in NewRows(t)
    BY <1>2, CommitInserts
  <2>2. y.table # "files" => y.ref = None
    BY <2>1, NewRowsFacts
  <2>3. ASSUME y.table = "files" PROVE y.ref \in after
    <3>1. t \in Resets /\ y.ref = Id("invoices", t, y.id[3]) /\ y.id[3] \in Slots
      BY <2>1, <2>3, NewRowsFacts
    <3>2. PICK z \in SeedInvoices(t) : z.id = y.ref /\ z.table = "invoices"
      BY <3>1, SeedInvoiceFacts
    <3>3. z \in tx[t].inserted
      BY <3>1, <3>2, CommitAt
    <3>4. z \in rows'
      BY <3>3, CommitInserts
    <3>5. QED
      BY <3>2, <3>4 DEF Ids
  <2>4. QED
    BY <2>2, <2>3
<1>3. ASSUME NEW x \in rows, Survives(t, x), y = Kept(t, x)
      PROVE  y.ref \in after \cup {None}
  <2>1. y.ref = RefOf(t, x)
    BY <1>3, KeptFacts
  <2>2. x.ref \in Ids(Of("invoices")) \cup {None}
    BY DEF IInv, RowsAreSound
  <2>3. ASSUME NEW z \in rows, z.table = "invoices", z.id \notin tx[t].deleted
        PROVE  z.id \in after
    BY <1>1, <2>3, CommitLeaves
  <2>4. ASSUME x.id \in tx[t].updated PROVE tx[t].ref \in after
    <3>1. /\ t \in Extractions /\ tx[t].deleted = {} /\ LinkFits(t, tx[t], rows)
          /\ tx[t].ref \in tx[t].shared /\ tx[t].ref[1] = "invoices"
      BY <2>4, CommitAt
    <3>2. PICK z \in rows \cup tx[t].inserted : z.id = tx[t].ref
      BY <3>1 DEF LinkFits, Ids
    <3>3. CASE z \in rows
      BY <2>3, <3>1, <3>2, <3>3, RowIdFacts
    <3>4. CASE z \in tx[t].inserted
      <4>1. z \in rows' /\ z.id[1] = z.table
        BY <3>4, CommitInserts
      <4>2. QED
        BY <3>1, <3>2, <4>1 DEF Ids
    <3>5. QED
      BY <3>3, <3>4
  <2>5. CASE x.ref \notin tx[t].deleted /\ x.ref # None
    <3>1. PICK z \in rows : z.table = "invoices" /\ z.id = x.ref
      BY <2>2, <2>5 DEF Ids, Of
    <3>2. x.ref \in after
      BY <2>3, <2>5, <3>1
    <3>3. QED
      BY <2>1, <2>4, <3>2 DEF RefOf
  <2>6. CASE x.ref \in tx[t].deleted \/ x.ref = None
    BY <2>1, <2>4, <2>6 DEF RefOf
  <2>7. QED
    BY <2>5, <2>6
<1>4. QED
  BY <1>2, <1>3, CommitLeaves

LEMMA CommitKeys ==
    ASSUME IInv, NEW t \in Tx, Commit(t), NEW y \in rows', NEW z \in rows', SameKey(y, z)
    PROVE  y = z
<1>1. InsertedFits(t, tx[t], rows)
  BY CommitAt
<1>2. ASSUME NEW w \in tx[t].inserted, NEW x \in rows, Survives(t, x), SameKey(w, Kept(t, x))
      PROVE  FALSE
  <2>1. SameKey(w, x)
    BY <1>2, KeptFacts DEF SameKey
  <2>2. x.id \in tx[t].deleted
    BY <1>1, <2>1 DEF InsertedFits
  <2>3. QED
    BY <1>2, <2>2 DEF Survives
<1>3. CASE y \in tx[t].inserted /\ z \in tx[t].inserted
  BY <1>1, <1>3 DEF InsertedFits
<1>4. ASSUME NEW x \in rows, y = Kept(t, x), NEW w \in rows, z = Kept(t, w)
      PROVE  y = z
  <2>1. y.table = x.table /\ y.key = x.key /\ z.table = w.table /\ z.key = w.key
    BY <1>4, KeptFacts
  <2>2. x = w
    BY <2>1 DEF IInv, RowsAreSound, SameKey
  <2>3. QED
    BY <1>4, <2>2
<1>5. \A w \in rows' : \/ w \in tx[t].inserted
                       \/ \E x \in rows : Survives(t, x) /\ w = Kept(t, x)
  BY CommitLeaves
<1>6. SameKey(z, y)
  BY DEF SameKey
<1>7. QED
  BY <1>2, <1>3, <1>4, <1>5, <1>6

LEMMA CommitBatch ==
    ASSUME IInv, NEW t \in Tx, Commit(t)
    PROVE  WholeBatch'
<1> DEFINE before == {x \in rows : x.table = "invoices" /\ x.by \in Resets}
           after == {y \in rows' : y.table = "invoices" /\ y.by \in Resets}
<1>1. WholeBatch => (before # {} => \E b \in Resets :
                        Ids(before) = {Id("invoices", b, s) : s \in Slots})
  <2>1. before = {x \in Of("invoices") : x.by \in Resets}
    BY DEF Of
  <2>2. QED
    BY <2>1 DEF WholeBatch
<1>2. (after # {} => \E b \in Resets : Ids(after) = {Id("invoices", b, s) : s \in Slots})
         => WholeBatch'
  <2>1. after = {x \in Of("invoices") : x.by \in Resets}'
    BY DEF Of
  <2>2. QED
    BY <2>1 DEF WholeBatch, Ids
<1>3. CASE t \in Resets
  <2>1. SeedInvoices(t) \subseteq tx[t].inserted
    BY <1>3, CommitAt
  <2>2. ASSUME NEW y \in after PROVE \E s \in Slots : y.id = Id("invoices", t, s)
    <3>1. CASE y \in tx[t].inserted
      <4>1. y \in NewRows(t)
        BY <3>1, CommitInserts
      <4>2. y.id = Id(y.table, t, y.id[3]) /\ y.id[3] \in Slots
        BY <1>3, <4>1, NewRowsFacts
      <4>3. QED
        BY <4>2
    <3>2. ASSUME NEW x \in rows, Survives(t, x), y = Kept(t, x)
          PROVE  FALSE
      <4>1. x.table = "invoices" /\ x.by \in Resets
        BY <3>2, KeptFacts
      <4>2. x.id[3] \in Slots /\ x.key = Number(x.id[3])
        BY <4>1, RowIdFacts DEF RowFits
      <4>3. PICK z \in SeedInvoices(t) : z.key = Number(x.id[3]) /\ z.table = "invoices"
        BY <4>2, SeedInvoiceFacts
      <4>4. z \in tx[t].inserted /\ SameKey(z, x)
        BY <2>1, <4>1, <4>2, <4>3 DEF SameKey
      <4>5. x.id \in tx[t].deleted
        BY <4>4, CommitAt DEF InsertedFits
      <4>6. QED
        BY <3>2, <4>5 DEF Survives
    <3>3. QED
      BY <3>1, <3>2, CommitLeaves
  <2>3. ASSUME NEW s \in Slots PROVE Id("invoices", t, s) \in Ids(after)
    <3>1. PICK z \in SeedInvoices(t) : z.id = Id("invoices", t, s) /\ z.table = "invoices"
      BY SeedInvoiceFacts
    <3>2. z \in tx[t].inserted
      BY <2>1
    <3>3. z \in rows' /\ z.by = t
      BY <3>2, CommitInserts
    <3>4. QED
      BY <1>3, <3>1, <3>3 DEF Ids
  <2>4. Ids(after) = {Id("invoices", t, s) : s \in Slots}
    BY <2>2, <2>3 DEF Ids
  <2>5. QED
    BY <1>2, <1>3, <2>4
<1>4. CASE t \notin Resets
  <2>1. ASSUME NEW y \in after PROVE y.id \in Ids(before)
    <3>1. y \notin tx[t].inserted
      BY <1>4, CommitInserts
    <3>2. PICK x \in rows : y = Kept(t, x)
      BY <3>1, CommitLeaves
    <3>3. QED
      BY <3>2, KeptFacts DEF Ids
  <2>2. ASSUME NEW x \in before PROVE x.id \in Ids(after)
    <3>1. Kept(t, x) \in rows'
      BY <1>4, CommitLeaves
    <3>2. Kept(t, x).id = x.id /\ Kept(t, x).table = x.table /\ Kept(t, x).by = x.by
      BY KeptFacts
    <3>3. QED
      BY <3>1, <3>2 DEF Ids
  <2>3. Ids(after) = Ids(before) /\ (after # {} => before # {})
    BY <2>1, <2>2 DEF Ids
  <2>4. WholeBatch
    BY DEF IInv
  <2>5. QED
    BY <1>1, <1>2, <2>3, <2>4
<1>5. QED
  BY <1>3, <1>4

\* An invoice that an extraction has created keeps its file: whoever deletes the file
\* also deletes the invoice.
LEMMA CommitExtracted ==
    ASSUME IInv, NEW t \in Tx, Commit(t), NEW y \in rows', y.table = "invoices",
           y.by \in Extractions
    PROVE  FileId(y.by) \in Ids(rows')
<1>1. \A z \in rows : z.id[1] = z.table
  BY RowIdFacts
<1>2. \A e : FileId(e)[1] = "files"
  BY DEF FileId, Id
<1>3. CASE y \in tx[t].inserted
  <2>1. y.by = t /\ t \notin Resets
    BY <1>3, CommitInserts, DemoAssumption
  <2>2. FileId(t) \in Ids(rows)
    BY <2>1, CommitAt DEF LinkFits
  <2>3. PICK z \in rows : z.id = FileId(t)
    BY <2>2 DEF Ids
  <2>4. QED
    BY <2>1, <2>3, CommitLeaves
<1>4. ASSUME NEW x \in rows, Survives(t, x), y = Kept(t, x)
      PROVE  FileId(y.by) \in Ids(rows')
  <2>1. x.table = "invoices" /\ y.by = x.by
    BY <1>4, KeptFacts
  <2>2. PICK z \in rows : z.id = FileId(x.by)
    BY <2>1 DEF IInv, ExtractedHasFile, Of, Ids
  <2>3. z.table # "edits"
    BY <1>1, <1>2, <2>2
  <2>4. ASSUME z.id \in tx[t].deleted PROVE FALSE
    <3>1. WipeFits(tx[t], rows) /\ Passed(tx[t], "invoices")
      BY <2>4, CommitAt
    <3>2. x.id = InvoiceId(x.by) /\ x.id \in Ids(rows)
      <4>1. /\ x.id = Id(x.table, x.by, x.id[3]) /\ x.id \in Ids(rows) /\ RowFits(x)
        BY RowIdFacts
      <4>2. x.id[3] = 0
        BY <2>1, <4>1 DEF RowFits
      <4>3. QED
        BY <2>1, <4>1, <4>2 DEF InvoiceId
    <3>3. InvoiceId(x.by) \in tx[t].deleted
      BY <2>1, <2>2, <2>4, <3>1, <3>2 DEF WipeFits
    <3>4. QED
      BY <1>4, <3>2, <3>3 DEF Survives
  <2>5. QED
    BY <2>1, <2>2, <2>3, <2>4, CommitLeaves
<1>5. QED
  BY <1>3, <1>4, CommitLeaves

LEMMA CommitOthers ==
    ASSUME IInv, NEW t \in Tx, Commit(t), NEW u \in Tx \ {t}
    PROVE  TxFits(u, tx[u], rows')
<1>1. /\ tx[u] \in Transaction /\ TxFits(u, tx[u], rows) /\ Apart(tx[t], tx[u])
      /\ \A i \in tx[u].began : Spent(i)
  BY CommitAt DEF IInv, TypeOK
<1>2. ASSUME NEW y \in rows'
      PROVE  \/ \E x \in rows : x.id = y.id /\ SameKey(x, y)
             \/ \A x \in tx[u].inserted : ~SameKey(x, y)
  <2>1. CASE y \in tx[t].inserted
    BY <1>1, <2>1 DEF Apart, SameKey
  <2>2. ASSUME NEW x \in rows, y = Kept(t, x) PROVE x.id = y.id /\ SameKey(x, y)
    BY <2>2, KeptFacts DEF SameKey
  <2>3. QED
    BY <2>1, <2>2, CommitLeaves
<1>3. ASSUME NEW i \in tx[u].updated \cup tx[u].shared, i \in Ids(rows)
      PROVE  i \in Ids(rows')
  <2>1. u \in Extractions
    BY <1>1, <1>3 DEF TxFits, Tx
  <2>2. LinkFits(u, tx[u], rows) /\ HoldsNothing(tx[u])
    BY <1>1, <2>1 DEF TxFits
  <2>3. i[1] \in {"files", "invoices"}
    <3>1. tx[u].pc \notin Ended
      BY <1>3, <2>2 DEF HoldsNothing
    <3>2. i \in {FileId(u), tx[u].ref} /\ tx[u].ref[1] = "invoices"
      BY <1>3, <2>2, <3>1 DEF LinkFits
    <3>3. QED
      BY <3>2 DEF FileId, Id
  <2>4. PICK z \in rows : z.id = i
    BY <1>3 DEF Ids
  <2>5. z.table # "edits" /\ z.id \notin tx[t].deleted
    BY <1>1, <1>3, <2>3, <2>4, RowIdFacts DEF Apart
  <2>6. QED
    BY <2>4, <2>5, CommitLeaves
<1>4. ASSUME NEW i \in Ids(rows')
      PROVE  i \in Ids(rows) \/ \E x \in tx[t].inserted : x.id = i
  <2>1. i \in Ids(tx[t].inserted) \/ \E x \in rows : x.id = i
    BY CommitLeaves
  <2>2. QED
    BY <2>1 DEF Ids
<1>5. \A i \in tx[u].began : i \in Ids(rows') => i \in Ids(rows)
  BY <1>1, <1>4, CommitInserts
<1>6. ASSUME NEW e \in Extractions, InvoiceId(e) \in Ids(rows'), FileId(e) \in tx[u].deleted,
             InvoiceId(e) \notin Ids(rows)
      PROVE  FALSE
  <2>1. PICK x \in tx[t].inserted : x.id = InvoiceId(e)
    BY <1>4, <1>6
  <2>2. InvoiceId(e)[2] = e
    BY DEF InvoiceId, Id
  <2>3. e = t
    BY <2>1, <2>2, CommitInserts
  <2>4. FileId(t) \in tx[t].updated
    BY <2>3, CommitAt, DemoAssumption
  <2>5. QED
    BY <1>1, <1>6, <2>3, <2>4 DEF Apart
<1>7. QED
  BY <1>1, <1>2, <1>3, <1>5, <1>6, RowsStep

LEMMA CommitOwn ==
    ASSUME IInv, NEW t \in Tx, Commit(t)
    PROVE  /\ TxFits(t, tx'[t], rows') /\ \A q : Apart(tx'[t], q) /\ Apart(q, tx'[t])
           /\ tx'[t].began = tx[t].began
<1> DEFINE r == tx'[t]
<1>1. /\ r.pc = "done" /\ r.deleted = {} /\ r.updated = {} /\ r.shared = {}
      /\ r.inserted = {} /\ r.want = {} /\ r.began = tx[t].began
  <2>1. r = [NoTx EXCEPT !.pc = "done", !.began = tx[t].began]
    BY CommitAt
  <2>2. QED
    BY <2>1 DEF NoTx
<1>2. /\ tx[t].began # {} => t \in Resets
      /\ t \in Resets => WipeFits(tx[t], rows)
      /\ Passed(tx[t], "files") /\ Passed(tx[t], "invoices")
      /\ \A i \in tx[t].began : Spent(i)
  BY CommitAt
<1>3. ASSUME NEW i \in tx[t].began
      PROVE  /\ i[1] # "users"
             /\ i[1] = "edits" => Id("invoices", i[2], i[3]) \in tx[t].began
             /\ i[1] \in {"files", "invoices"} => i \notin Ids(rows')
  <2>1. WipeFits(tx[t], rows) /\ Spent(i)
    BY <1>2
  <2>2. /\ i[1] # "users"
        /\ i[1] = "edits" => Id("invoices", i[2], i[3]) \in tx[t].began
    BY <2>1 DEF WipeFits
  <2>3. ASSUME i[1] \in {"files", "invoices"}, i \in Ids(rows') PROVE FALSE
    <3>1. \A x \in tx[t].inserted : x.id # i
      BY <2>1, CommitInserts
    <3>2. PICK x \in rows : Survives(t, x) /\ x.id = i
      BY <2>3, <3>1, CommitLeaves DEF Ids
    <3>3. i \in Ids(rows) /\ Passed(tx[t], i[1])
      BY <1>2, <2>2, <2>3, <3>2 DEF Ids
    <3>4. i \in tx[t].deleted
      BY <2>1, <2>3, <3>3 DEF WipeFits
    <3>5. QED
      BY <3>2, <3>4 DEF Survives
  <2>4. QED
    BY <2>2, <2>3
<1> HIDE DEF r
<1>4. TxFits(t, r, rows') /\ \A q : Apart(r, q) /\ Apart(q, r)
  BY <1>1, <1>2, <1>3, EndedFits DEF Ended
<1>5. QED
  BY <1>1, <1>4 DEF r

LEMMA CommitStep ==
    ASSUME IInv, NEW t \in Tx, Commit(t)
    PROVE  IInv'
<1>1. TypeOK'
  BY CommitAt, CommitLeaves DEF IInv, TypeOK
<1>2. \A u \in Tx : TxFits(u, tx'[u], rows')
  BY CommitAt, CommitOthers, CommitOwn
<1>3. \A u \in Tx : \A i \in tx'[u].began : Spent(i)'
  <2>1. \A u \in Tx : tx'[u].began = tx[u].began
    BY CommitAt, CommitOwn
  <2>2. QED
    BY <2>1, CommitSpends DEF IInv
<1>4. ASSUME NEW u \in Tx, NEW v \in Tx, u # v PROVE Apart(tx'[u], tx'[v])
  <2>1. CASE u = t \/ v = t
    BY <2>1, CommitOwn
  <2>2. CASE u # t /\ v # t
    <3>1. tx'[u] = tx[u] /\ tx'[v] = tx[v]
      BY <2>2, CommitAt
    <3>2. QED
      BY <1>4, <3>1 DEF IInv
  <2>3. QED
    BY <2>1, <2>2
<1>5. \A x \in rows' : RowFits(x) /\ Spent(x.id)'
  BY CommitRowFits
<1>6. RowsAreSound'
  BY CommitRefs, CommitKeys DEF RowsAreSound, SameKey, Of, Ids
<1>7. ExtractedHasFile'
  BY CommitExtracted DEF ExtractedHasFile, Of, FileId, Ids
<1>8. QED
  BY <1>1, <1>2, <1>3, <1>4, <1>5, <1>6, <1>7, CommitBatch DEF IInv, RowFits

-----------------------------------------------------------------------------
(* The handlers of the demo user *)

\* Rows are added, none of them an invoice, that nobody else could have written.
LEMMA AddStep ==
    ASSUME IInv, NEW Y \in SUBSET Rows, rows' = rows \cup Y, tx' = tx,
           fresh' \subseteq fresh,
           \A y \in Y :
              /\ RowFits(y) /\ Spent(y.id)' /\ y.table # "invoices" /\ y.id[1] # "invoices"
              /\ y.id[1] = "files" => ~Spent(y.id)
              /\ y.ref \in Ids(Of("invoices")) \cup {None}
              /\ \A x \in rows : ~SameKey(x, y)
              /\ \A t \in Tx : \A x \in NewRows(t) : ~SameKey(x, y)
              /\ \A x \in Y : SameKey(x, y) => x = y
    PROVE  IInv'
<1>1. TypeOK'
  BY DEF IInv, TypeOK
<1>2. \A i : Spent(i) => Spent(i)'
  BY DEF Spent
<1>3. \A i \in Ids(rows') : i \in Ids(rows) \/ \E y \in Y : i = y.id
  BY DEF Ids
<1>4. Ids(rows) \subseteq Ids(rows')
  BY DEF Ids
<1>5. ASSUME NEW t \in Tx PROVE TxFits(t, tx[t], rows')
  <2>1. /\ tx[t] \in Transaction /\ TxFits(t, tx[t], rows)
        /\ \A i \in tx[t].began : Spent(i)
    BY DEF IInv, TypeOK
  <2>2. \A z \in rows' : \/ \E x \in rows : x.id = z.id /\ SameKey(x, z)
                         \/ \A x \in tx[t].inserted : ~SameKey(x, z)
    <3>1. \A x \in tx[t].inserted, y \in Y : ~SameKey(x, y)
      BY <2>1 DEF TxFits, InsertedFits
    <3>2. \A x \in rows : SameKey(x, x)
      BY DEF SameKey
    <3>3. QED
      BY <3>1, <3>2
  <2>3. \A i \in tx[t].began : i[1] \in {"files", "invoices"} /\ i \in Ids(rows') => i \in Ids(rows)
    BY <1>3, <2>1
  <2>4. \A e \in Extractions : InvoiceId(e) \in Ids(rows') => InvoiceId(e) \in Ids(rows)
    <3>1. \A e : InvoiceId(e)[1] = "invoices"
      BY DEF InvoiceId, Id
    <3>2. QED
      BY <1>3, <3>1
  <2>5. QED
    BY <1>4, <2>1, <2>2, <2>3, <2>4, RowsStep
<1>6. \A t \in Tx : TxFits(t, tx'[t], rows') /\ \A i \in tx'[t].began : Spent(i)'
  BY <1>2, <1>5 DEF IInv
<1>7. \A t, u \in Tx : t # u => Apart(tx'[t], tx'[u])
  BY DEF IInv
<1>8. \A x \in rows' : RowFits(x) /\ Spent(x.id)'
  BY <1>2 DEF IInv
<1>9. Of("invoices")' = Of("invoices")
  BY DEF Of
<1>10. RowsAreSound'
  <2>1. \A x \in rows, y \in Y : ~SameKey(y, x)
    BY DEF SameKey
  <2>2. \A x, z \in rows' : x.table = z.table /\ x.key = z.key => x = z
    BY <2>1 DEF IInv, RowsAreSound, SameKey
  <2>3. Ids(Of("invoices"))' = Ids(Of("invoices"))
    BY <1>9 DEF Ids
  <2>4. QED
    BY <2>2, <2>3 DEF IInv, RowsAreSound
<1>11. WholeBatch'
  BY <1>9 DEF IInv, WholeBatch, Ids
<1>12. ExtractedHasFile'
  BY <1>4, <1>9 DEF IInv, ExtractedHasFile, FileId, Ids
<1>13. QED
  BY <1>1, <1>6, <1>7, <1>8, <1>10, <1>11, <1>12 DEF IInv, RowFits

LEMMA UploadStep ==
    ASSUME IInv, NEW f \in Uploads, Upload(f)
    PROVE  IInv'
<1> DEFINE y == Row("files", f, 0, <<f, 0>>, None)
<1>1. f \notin Tx /\ f \notin Resets /\ f \in Writers /\ 0 \in Counts
  BY DemoAssumption DEF Tx, Writers, Counts
<1>2. <<f, 0>> \in Keys
  BY <1>1 DEF Keys
<1>3. /\ y.table = "files" /\ y.id = Id("files", f, 0) /\ y.by = f /\ y.key = <<f, 0>>
      /\ y.ref = None /\ y \in Rows
  BY <1>1, <1>2, RowFacts DEF Tables
<1>4. f \in fresh /\ fresh' = fresh \ {f} /\ rows' = rows \cup {y} /\ tx' = tx
  BY DEF Upload
<1> HIDE DEF y
<1>5. /\ Id("files", f, 0)[1] = "files" /\ Id("files", f, 0)[2] = f
      /\ Id("files", f, 0)[3] = 0 /\ y.key[1] = f
  BY <1>3 DEF Id
<1>6. RowFits(y)
  BY <1>1, <1>3, <1>5 DEF RowFits
<1>7. Spent(y.id)' /\ ~Spent(y.id)
  BY <1>1, <1>3, <1>4, <1>5 DEF Spent
<1>8. ASSUME NEW x \in rows, SameKey(x, y) PROVE FALSE
  <2>1. RowFits(x) /\ Spent(x.id) /\ x.id[2] = x.by
    BY RowIdFacts
  <2>2. x.table = "files" /\ x.key[1] = f
    BY <1>3, <1>5, <1>8 DEF SameKey
  <2>3. x.by = f
    BY <2>1, <2>2 DEF RowFits
  <2>4. QED
    BY <1>4, <2>1, <2>3 DEF Spent
<1>9. \A t \in Tx : \A x \in NewRows(t) : ~SameKey(x, y)
  BY <1>3, <1>5, NewRowsFacts DEF SameKey
<1>10. /\ {y} \in SUBSET Rows /\ rows' = rows \cup {y} /\ y.table # "invoices"
       /\ y.id[1] # "invoices" /\ y.ref \in Ids(Of("invoices")) \cup {None}
  BY <1>3, <1>4, <1>5
<1>11. QED
  BY <1>4, <1>6, <1>7, <1>8, <1>9, <1>10, AddStep

LEMMA AuditStep ==
    ASSUME IInv, NEW f \in Uploads, Audit(f)
    PROVE  IInv'
<1> DEFINE y == Row("audits", f, 0, <<f, 0>>, None)
<1>1. f \notin Tx /\ f \in Writers /\ 0 \in Counts
  BY DemoAssumption DEF Tx, Writers, Counts
<1>2. <<f, 0>> \in Keys
  BY <1>1 DEF Keys
<1>3. /\ y.table = "audits" /\ y.id = Id("audits", f, 0) /\ y.by = f /\ y.key = <<f, 0>>
      /\ y.ref = None /\ y \in Rows
  BY <1>1, <1>2, RowFacts DEF Tables
<1>4. /\ f \notin fresh /\ Id("audits", f, 0) \notin Ids(rows)
      /\ fresh' = fresh /\ rows' = rows \cup {y} /\ tx' = tx
  BY DEF Audit
<1> HIDE DEF y
<1>5. /\ Id("audits", f, 0)[1] = "audits" /\ Id("audits", f, 0)[2] = f
      /\ Id("audits", f, 0)[3] = 0
  BY DEF Id
<1>6. RowFits(y) /\ Spent(y.id)'
  BY <1>1, <1>3, <1>4, <1>5 DEF RowFits, Spent
<1>7. ASSUME NEW x \in rows, SameKey(x, y) PROVE FALSE
  <2>1. RowFits(x) /\ x.id = Id(x.table, x.by, x.id[3]) /\ x.id \in Ids(rows)
    BY RowIdFacts
  <2>2. x.table = "audits" /\ x.key = <<f, 0>>
    BY <1>3, <1>7 DEF SameKey
  <2>3. x.by = f /\ x.id[3] = 0
    BY <2>1, <2>2 DEF RowFits
  <2>4. QED
    BY <1>4, <2>1, <2>2, <2>3
<1>8. \A t \in Tx : \A x \in NewRows(t) : ~SameKey(x, y)
  BY <1>3, NewRowsFacts DEF SameKey
<1>9. /\ {y} \in SUBSET Rows /\ rows' = rows \cup {y} /\ y.table # "invoices"
      /\ y.id[1] = "audits" /\ y.ref \in Ids(Of("invoices")) \cup {None}
  BY <1>3, <1>4, <1>5
<1>10. QED
  BY <1>4, <1>6, <1>7, <1>8, <1>9, AddStep

\* The mapping that an edit inserts.
LEMMA NewMappingFacts ==
    ASSUME IInv, NEW x \in rows, NEW m \in NewMapping(x)
    PROVE  /\ m \in Rows /\ m.table = "mappings" /\ m.id = Id("mappings", x.by, x.id[3])
           /\ m.by = x.by /\ m.key = x.key /\ m.ref = None
           /\ RowFits(m) /\ Spent(m.id)
           /\ \A z \in rows : ~SameKey(z, m)
           /\ \A t \in Tx : \A z \in NewRows(t) : ~SameKey(z, m)
           /\ NewMapping(x) = {m}
<1>1. /\ m = Row("mappings", x.by, x.id[3], x.key, None) /\ NewMapping(x) = {m}
      /\ \A y \in Of("mappings") : y.key # x.key
  BY DEF NewMapping
<1>2. x.id[2] = x.by /\ Spent(x.id) /\ x \in Rows /\ x.id \in RowIds
  BY RowIdFacts
<1>3. x.by \in Writers /\ x.id[3] \in Counts /\ x.key \in Keys
  BY <1>2, RowTypes, IdFacts
<1>4. /\ m \in Rows /\ m.table = "mappings" /\ m.id = Id("mappings", x.by, x.id[3])
      /\ m.by = x.by /\ m.key = x.key /\ m.ref = None
  BY <1>1, <1>3, RowFacts DEF Tables
<1>5. m.id[2] = x.by /\ m.id[3] = x.id[3]
  BY <1>4 DEF Id
<1>6. RowFits(m)
  BY <1>4, <1>5 DEF RowFits
<1>7. Spent(m.id)
  BY <1>2, <1>5 DEF Spent
<1>8. \A z \in rows : ~SameKey(z, m)
  BY <1>1, <1>4 DEF SameKey, Of
<1>9. \A t \in Tx : \A z \in NewRows(t) : ~SameKey(z, m)
  BY <1>4, NewRowsFacts DEF SameKey
<1>10. QED
  BY <1>1, <1>4, <1>6, <1>7, <1>8, <1>9

LEMMA EditStep ==
    ASSUME IInv, NEW x \in rows, Edit(x)
    PROVE  IInv'
<1> DEFINE y == Row("edits", x.by, x.id[3], <<x.by, x.id[3]>>, x.id)
<1>1. /\ x \in Rows /\ x.id \in RowIds /\ x.id = Id(x.table, x.by, x.id[3])
      /\ x.id[2] = x.by /\ Spent(x.id)
  BY RowIdFacts
<1>2. /\ x.table = "invoices" /\ Id("edits", x.by, x.id[3]) \notin Ids(rows)
      /\ rows' = rows \cup {y} \cup NewMapping(x) /\ tx' = tx /\ fresh' = fresh
  BY DEF Edit, Of
<1>3. x.by \in Writers /\ x.id[3] \in Counts
  BY <1>1, RowTypes, IdFacts
<1>4. <<x.by, x.id[3]>> \in Keys
  BY <1>3 DEF Keys
<1>5. /\ y.table = "edits" /\ y.id = Id("edits", x.by, x.id[3]) /\ y.by = x.by
      /\ y.key = <<x.by, x.id[3]>> /\ y.ref = x.id /\ y \in Rows
  BY <1>1, <1>3, <1>4, RowFacts DEF Tables
<1> HIDE DEF y
<1>6. /\ Id("edits", x.by, x.id[3])[1] = "edits" /\ Id("edits", x.by, x.id[3])[2] = x.by
      /\ Id("edits", x.by, x.id[3])[3] = x.id[3]
  BY DEF Id
<1>7. RowFits(y)
  BY <1>1, <1>2, <1>5, <1>6 DEF RowFits
<1>8. Spent(y.id)'
  BY <1>1, <1>2, <1>5, <1>6 DEF Spent
<1>9. ASSUME NEW z \in rows, SameKey(z, y) PROVE FALSE
  <2>1. RowFits(z) /\ z.id = Id(z.table, z.by, z.id[3]) /\ z.id \in Ids(rows)
    BY RowIdFacts
  <2>2. z.table = "edits" /\ z.key = <<x.by, x.id[3]>>
    BY <1>5, <1>9 DEF SameKey
  <2>3. z.by = x.by /\ z.id[3] = x.id[3]
    BY <2>1, <2>2 DEF RowFits
  <2>4. QED
    BY <1>2, <2>1, <2>2, <2>3
<1>10. \A t \in Tx : \A z \in NewRows(t) : ~SameKey(z, y)
  BY <1>5, NewRowsFacts DEF SameKey
<1>11. x.id \in Ids(Of("invoices"))
  BY <1>2 DEF Ids, Of
<1> DEFINE Y == {y} \cup NewMapping(x)
<1>12. rows' = rows \cup Y
  BY <1>2
<1>13. \A m \in NewMapping(x) :
          /\ m \in Rows /\ RowFits(m) /\ Spent(m.id)' /\ m.table = "mappings"
          /\ m.id[1] = "mappings" /\ m.ref = None
          /\ \A z \in rows : ~SameKey(z, m)
          /\ \A t \in Tx : \A z \in NewRows(t) : ~SameKey(z, m)
          /\ \A z \in NewMapping(x) : z = m
  <2>1. \A i : Spent(i) => Spent(i)'
    BY <1>2 DEF Spent
  <2>2. Id("mappings", x.by, x.id[3])[1] = "mappings"
    BY DEF Id
  <2>3. QED
    BY <2>1, <2>2, NewMappingFacts
<1>14. \A z \in Y, w \in Y : SameKey(z, w) => z = w
  BY <1>5, <1>13 DEF SameKey
<1>15. \A z \in Y :
          /\ z \in Rows /\ RowFits(z) /\ Spent(z.id)' /\ z.table # "invoices"
          /\ z.id[1] # "invoices" /\ z.id[1] # "files"
          /\ z.ref \in Ids(Of("invoices")) \cup {None}
          /\ \A w \in rows : ~SameKey(w, z)
          /\ \A t \in Tx : \A w \in NewRows(t) : ~SameKey(w, z)
  BY <1>5, <1>6, <1>7, <1>8, <1>9, <1>10, <1>11, <1>13
<1> HIDE DEF Y
<1>16. QED
  BY <1>2, <1>12, <1>14, <1>15, AddStep

-----------------------------------------------------------------------------
(* The theorems *)

LEMMA InitEstablishes == Init => IInv
<1> SUFFICES ASSUME Init PROVE IInv
  OBVIOUS
<1>1. rows = {} /\ fresh = Uploads /\ tx = [t \in Tx |-> NoTx]
  BY DEF Init
<1>2. /\ NoTx.pc = "idle" /\ NoTx.deleted = {} /\ NoTx.updated = {} /\ NoTx.shared = {}
      /\ NoTx.inserted = {} /\ NoTx.want = {} /\ NoTx.began = {} /\ NoTx \in Transaction
  BY DEF NoTx, Transaction, Steps, Tables
<1>3. TypeOK
  BY <1>1, <1>2 DEF TypeOK
<1>4. \A t \in Tx : TxFits(t, NoTx, rows) /\ \A q : Apart(NoTx, q)
  BY <1>2, EndedFits DEF Ended
<1>5. RowsAreSound /\ WholeBatch /\ ExtractedHasFile
  BY <1>1 DEF RowsAreSound, WholeBatch, ExtractedHasFile, Of
<1>6. QED
  BY <1>1, <1>2, <1>3, <1>4, <1>5 DEF IInv

LEMMA NextPreserves == IInv /\ [Next]_vars => IInv'
<1> SUFFICES ASSUME IInv, [Next]_vars PROVE IInv'
  OBVIOUS
<1>1. ASSUME NEW t \in Resets, Begin(t) PROVE IInv'
  BY <1>1, BeginStep
<1>2. ASSUME NEW t \in Extractions, BeginExtraction(t) PROVE IInv'
  BY <1>2, BeginExtractionStep
<1>3. ASSUME NEW t \in Tx, Run(t) PROVE IInv'
  <2>1. CASE Snapshot(t)
    BY <2>1, SnapshotStep
  <2>2. CASE Delete(t)
    BY <2>2, DeleteStep
  <2>3. CASE EnsureDemoUser(t)
    BY <2>3, EnsureDemoUserStep
  <2>4. CASE Insert(t)
    BY <2>4, InsertStep
  <2>5. CASE Update(t)
    BY <2>5, UpdateStep
  <2>6. CASE Reference(t)
    BY <2>6, ReferenceStep
  <2>7. CASE Commit(t)
    BY <2>7, CommitStep
  <2>8. CASE DeadlockVictim(t)
    BY <2>8, DeadlockVictimStep
  <2>9. QED
    BY <1>3, <2>1, <2>2, <2>3, <2>4, <2>5, <2>6, <2>7, <2>8 DEF Run
<1>4. ASSUME NEW f \in Uploads, Upload(f) \/ Audit(f) PROVE IInv'
  BY <1>4, UploadStep, AuditStep
<1>5. ASSUME NEW x \in rows, Edit(x) PROVE IInv'
  BY <1>5, EditStep
<1>6. CASE UNCHANGED vars
  <2>1. rows' = rows /\ tx' = tx /\ fresh' = fresh
    BY <1>6 DEF vars
  <2>2. \A i : Spent(i)' <=> Spent(i)
    BY <2>1 DEF Spent
  <2>3. TypeOK' /\ RowsAreSound' /\ WholeBatch' /\ ExtractedHasFile'
    BY <2>1 DEF IInv, TypeOK, RowsAreSound, WholeBatch, ExtractedHasFile, Of, FileId
  <2>4. QED
    BY <2>1, <2>2, <2>3 DEF IInv, RowFits
<1>7. QED
  BY <1>1, <1>2, <1>3, <1>4, <1>5, <1>6 DEF Next

\* The inductive invariant: locks keep the transactions apart, and each of them knows
\* of the rows what it needs.
THEOREM DemoInvariant == Spec => []IInv
<1>1. QED
  BY InitEstablishes, NextPreserves, PTL DEF Spec

\* However resets, extractions, uploads and edits interleave, references and unique keys
\* hold, the seeded invoices are one whole batch and files link within their batch
\* (seed_demo_tenant).
THEOREM DataCorrect == Spec => []DataAreSound
<1>1. IInv => DataAreSound
  BY DEF IInv, DataAreSound, LinkedWithinBatch, Of, RowFits
<1>2. QED
  BY <1>1, DemoInvariant, PTL

\* The edits, files and invoices that the tenant had when a reset began are gone once
\* that reset has committed (_wipe_demo_tenant): what is left of its data is mappings
\* and audit entries.
THEOREM WipeCorrect == Spec => []OldIsWiped
<1>1. ASSUME IInv, NEW b \in Resets, tx[b].pc = "done", NEW i \in tx[b].began,
             i \in Ids(rows), i[1] \notin {"mappings", "audits"}
      PROVE  FALSE
  <2>1. b \in Tx
    BY DEF Tx
  <2>2. WipeFits(tx[b], rows) /\ HoldsNothing(tx[b]) /\ tx[b].deleted = {}
    BY <1>1, <2>1 DEF IInv, TxFits, HoldsNothing, Ended
  <2>3. \A T : Passed(tx[b], T)
    BY <1>1 DEF Passed
  <2>4. \A j \in tx[b].began \cap Ids(rows) : j[1] \notin {"users", "files", "invoices"}
    BY <2>2, <2>3 DEF WipeFits
  <2>5. PICK x \in rows : x.id = i
    BY <1>1 DEF Ids
  <2>6. i[1] = "edits" /\ x.table = "edits" /\ x.by = i[2]
    <3>1. i[1] \in Tables /\ i[1] = x.table /\ x.by = i[2]
      BY <1>1, <2>5, RowIdFacts, IdFacts
    <3>2. QED
      BY <1>1, <2>4, <3>1 DEF Tables
  <2>7. x.ref = Id("invoices", i[2], i[3])
    BY <1>1, <2>5, <2>6, RowIdFacts DEF RowFits
  <2>8. x.ref \in tx[b].began
    BY <1>1, <2>2, <2>6, <2>7 DEF WipeFits
  <2>9. x.ref \in RowIds
    BY <1>1, <2>1, <2>8, SetTypes DEF IInv, TypeOK
  <2>10. x.ref \in Ids(rows)
    BY <1>1, <2>9, DemoAssumption DEF IInv, RowsAreSound, Of, Ids
  <2>11. x.ref[1] = "invoices"
    BY <2>7 DEF Id
  <2>12. QED
    BY <2>4, <2>8, <2>10, <2>11
<1>2. IInv => OldIsWiped
  BY <1>1 DEF OldIsWiped
<1>3. QED
  BY <1>2, DemoInvariant, PTL

\* No reset takes the file of an extraction and leaves the invoice that the extraction
\* created from it.
THEOREM ExtractedCorrect == Spec => []ExtractedHasFile
<1>1. IInv => ExtractedHasFile
  BY DEF IInv
<1>2. QED
  BY <1>1, DemoInvariant, PTL

=============================================================================
