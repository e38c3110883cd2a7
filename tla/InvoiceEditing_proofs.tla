----------------------- MODULE InvoiceEditing_proofs -----------------------
(***************************************************************************)
(* Proofs about InvoiceEditing, for any number of invoices, handlers,      *)
(* payloads and edits.                                                     *)
(***************************************************************************)
EXTENDS InvoiceEditing, TLAPS

-----------------------------------------------------------------------------
(* Values and rows *)

LEMMA FieldValues ==
    /\ "number" \in Fields /\ "vendor" \in Fields
    /\ "amount" \in Fields /\ "is_reviewed" \in Fields
    /\ ValuesOf["number"] = Numbers /\ ValuesOf["vendor"] = Vendors
    /\ ValuesOf["amount"] = Amounts /\ ValuesOf["is_reviewed"] = BOOLEAN
    /\ \A f \in Fields : ValuesOf[f] \subseteq Value
BY DEF Fields, ValuesOf, Value

\* What a flush writes is a row again, if it holds no null.
LEMMA FlushedType ==
    ASSUME NEW cur \in Row, NEW old \in Row, NEW new \in Object,
           \A f \in Fields : new.values[f] # Null
    PROVE  Flushed(cur, old, new) \in Row
<1> DEFINE v == [f \in Fields |-> IF new.values[f] # old.values[f]
                                  THEN new.values[f] ELSE cur.values[f]]
<1>1. \A f \in Fields : new.values[f] \in ValuesOf[f] /\ cur.values[f] \in ValuesOf[f]
  BY DEF Object, Nullable, Row, Values
<1>2. \A f \in Fields : v[f] \in ValuesOf[f] /\ v[f] \in Value
  BY <1>1, FieldValues
<1>3. v \in Values
  BY <1>2 DEF Values
<1>4. /\ new.reviewer \in Users \cup {NoUser} /\ cur.reviewer \in Users \cup {NoUser}
      /\ new.reviewed_at \in Nat /\ cur.reviewed_at \in Nat
      /\ new.version \in Nat \ {0} /\ cur.version \in Nat \ {0}
  BY DEF Object, Row
<1>5. QED
  BY <1>3, <1>4 DEF Flushed, Row

\* The object an edit builds in memory.
LEMMA EditedType ==
    ASSUME NEW r \in Row, NEW p \in Payloads, NEW user \in Users, NEW now \in Nat
    PROVE  Edited(r, p.changes, user, now) \in Object
<1> DEFINE c == p.changes
           v == [f \in Fields |-> IF f \in DOMAIN c THEN c[f] ELSE r.values[f]]
<1>1. \A f \in Fields : r.values[f] \in ValuesOf[f]
  BY DEF Row, Values
<1>2. \A f \in DOMAIN c : c[f] \in ValuesOf[f] \cup {Null}
  BY EditingConstantsOK
<1>3. \A f \in Fields : v[f] \in ValuesOf[f] \cup {Null} /\ v[f] \in Value \cup {Null}
  BY <1>1, <1>2, FieldValues
<1>4. v \in Nullable
  BY <1>3 DEF Nullable
<1>5. /\ r.version + 1 \in Nat \ {0} /\ r.reviewer \in Users \cup {NoUser}
      /\ r.reviewed_at \in Nat
  BY DEF Row
<1>6. QED
  BY <1>4, <1>5 DEF Edited, Object

LEMMA RowIsObject ==
    ASSUME NEW r \in Row
    PROVE  r \in Object
<1>1. r.values \in Nullable
  BY DEF Row, Values, Nullable
<1>2. QED
  BY <1>1 DEF Row, Object

\* What an extraction makes of a row.
LEMMA ExtractedType ==
    ASSUME NEW r \in Row, NEW x \in Einvoices, NEW n \in Numbers
    PROVE  Extracted(r, x, n) \in Object
<1>1. r \in Object /\ \A f \in Fields : r.values[f] \in ValuesOf[f]
  BY RowIsObject DEF Row, Values
<1>2. x.number \in Numbers /\ x.vendor \in Vendors /\ x.amount \in Amounts
  BY EditingConstantsOK
<1> DEFINE V(f) == CASE f = "number" -> n [] f = "vendor" -> x.vendor
                     [] f = "amount" -> x.amount [] f = "is_reviewed" -> r.values[f]
           v == [f \in Fields |-> V(f)]
<1>3. \A f \in Fields : v[f] \in ValuesOf[f]
  <2> SUFFICES ASSUME NEW f \in Fields PROVE V(f) \in ValuesOf[f]
    OBVIOUS
  <2>1. f \in {"number", "vendor", "amount", "is_reviewed"}
    BY DEF Fields
  <2>2. QED
    BY <2>1, <1>1, <1>2, FieldValues
<1>4. v \in Nullable
  BY <1>3, FieldValues DEF Nullable
<1>5. Extracted(r, x, n) = [r EXCEPT !.values = v]
  BY DEF Extracted
<1>6. QED
  BY <1>1, <1>4, <1>5 DEF Object

-----------------------------------------------------------------------------
(* The inductive invariant *)

NoNulls(t) == \A f \in Fields : edit[t].new.values[f] # Null

\* What a handler between two of its steps has already established: the flush
\* before a recording was accepted, an extraction has read an e-invoice.
Established ==
    \A t \in Tasks :
        /\ step[t] = "record" => NoNulls(t)
        /\ step[t] = "by_number" => edit[t].einvoice \in Einvoices

IInv == TypeOK /\ Established

-----------------------------------------------------------------------------
(* Types *)

LEMMA LeaveType ==
    ASSUME TypeOK, NEW t \in Tasks, Leave(t)
    PROVE  /\ step' \in [Tasks -> Steps] /\ edits' \in Nat
           /\ edit' \in [Tasks -> Edit \cup {Closed}]
           /\ \A u \in Tasks : step'[u] # "idle" => edit'[u] \in Edit
BY DEF TypeOK, Leave, Steps

LEMMA LeaveEstablished ==
    ASSUME IInv, NEW t \in Tasks, Leave(t)
    PROVE  Established'
BY DEF IInv, TypeOK, Leave, Established, NoNulls

LEMMA RollbackInv ==
    ASSUME IInv, NEW t \in Tasks, Rollback(t)
    PROVE  IInv'
BY LeaveType, LeaveEstablished DEF IInv, TypeOK, Rollback

LEMMA BeginInv ==
    ASSUME IInv, NEW t \in Tasks, NEW i, NEW s \in Steps, NEW e \in Edit, Begin(t, i, s, e),
           s # "record", s = "by_number" => e.einvoice \in Einvoices
    PROVE  IInv'
<1>1. TypeOK'
  BY DEF IInv, TypeOK, Begin
<1>2. Established'
  BY DEF IInv, TypeOK, Begin, Established, NoNulls
<1>3. QED
  BY <1>1, <1>2 DEF IInv

\* What a handler that is about to write holds.
LEMMA EditAt ==
    ASSUME TypeOK, NEW t \in Tasks, step[t] # "idle"
    PROVE  /\ edit[t] \in Edit
           /\ edit[t].at \in Nat
           /\ edit[t].inv \in Invoices /\ edit[t].old \in Row /\ edit[t].new \in Object
           /\ edit[t].account \in Accounts \cup {NoAccount}
           /\ edit[t].einvoice \in Einvoices \cup {Null}
           /\ invoice[edit[t].inv] \in Row
           /\ Changed(t) \subseteq Fields
BY DEF TypeOK, Edit, Changed

LEMMA NotRefused ==
    ASSUME NEW t \in Tasks, ~Refused(t)
    PROVE  NoNulls(t)
BY DEF Refused, NoNulls

LEMMA WriteType ==
    ASSUME TypeOK, NEW t \in Tasks, step[t] # "idle", NoNulls(t), Write(t)
    PROVE  /\ invoice' \in [Invoices -> Row]
           /\ overtaken' \in [Tasks -> BOOLEAN]
<1>1. Flushed(invoice[edit[t].inv], edit[t].old, edit[t].new) \in Row
  BY EditAt, FlushedType DEF NoNulls
<1>2. invoice' \in [Invoices -> Row]
  BY <1>1, EditAt DEF Write, TypeOK
<1>3. QED
  BY <1>2 DEF Write, TypeOK

LEMMA WritesType ==
    ASSUME TypeOK, NEW t \in Tasks, step[t] # "idle", NEW by \in Writers, Writes(t, by)
    PROVE  writer' \in [Invoices -> [Fields -> Writers]]
BY EditAt DEF TypeOK, Writes

LEMMA AuditType ==
    ASSUME TypeOK, NEW t \in Tasks, step[t] # "idle", NoNulls(t), Audit(t)
    PROVE  /\ trail' \in [Invoices -> SUBSET Entry]
           /\ writer' \in [Invoices -> [Fields -> Writers]]
           /\ torn' \in SUBSET Invoices
<1> DEFINE e == edit[t]
<1>1. \A f \in Fields : e.old.values[f] \in Value /\ e.new.values[f] \in Value
  <2>1. e.old \in Row /\ e.new \in Object
    BY EditAt
  <2>2. \A f \in Fields : e.old.values[f] \in Value
    BY <2>1 DEF Row, Values
  <2>3. \A f \in Fields : e.new.values[f] \in Value \cup {Null}
    BY <2>1 DEF Object, Nullable
  <2>4. QED
    BY <2>2, <2>3 DEF NoNulls
<1>2. e.inv \in Invoices /\ e.at \in Nat /\ Changed(t) \subseteq Fields
  BY EditAt
<1>3. Logged(t) \subseteq Entry
  BY <1>1, <1>2 DEF Logged, Entry
<1>4. trail' \in [Invoices -> SUBSET Entry]
  BY <1>2, <1>3 DEF Audit, TypeOK
<1>5. writer' \in [Invoices -> [Fields -> Writers]]
  <2>1. PICK by \in Writers : Writes(t, by)
    BY DEF Audit, Writers
  <2>2. QED
    BY <2>1, WritesType
<1>6. torn' \in SUBSET Invoices
  BY <1>2 DEF Audit, TypeOK
<1>7. QED
  BY <1>4, <1>5, <1>6

LEMMA InitInv == Init => IInv
<1> SUFFICES ASSUME Init PROVE TypeOK
  BY DEF Init, IInv, Established
<1>1. \A i \in Invoices : Initial[i] \in Values
  BY EditingConstantsOK
<1>2. invoice \in [Invoices -> Row]
  BY <1>1 DEF Init, Row
<1>3. QED
  BY <1>2 DEF Init, TypeOK, Steps, Writers

\* The row t writes, for an edit whose flush was accepted.
LEMMA EditInv ==
    ASSUME IInv, NEW t \in Tasks, step[t] # "idle", NoNulls(t), Write(t), Audit(t)
    PROVE  IInv'
BY WriteType, AuditType, LeaveType, LeaveEstablished DEF IInv, Write, TypeOK

LEMMA NextInv == IInv /\ [Next]_vars => IInv'
<1> SUFFICES ASSUME IInv, [Next]_vars
             PROVE  IInv'
  OBVIOUS
<1> USE DEF IInv
<1>1. CASE UNCHANGED own
  BY <1>1 DEF own, TypeOK, Established, NoNulls
<1>2. CASE UNCHANGED vars
  BY <1>1, <1>2 DEF vars, own
<1> SUFFICES ASSUME NEW t \in Tasks, Request(t) \/ Step(t)
             PROVE  IInv'
  BY <1>2 DEF Next
<1>3. ASSUME NEW i \in Invoices, NEW v \in 1..(MaxEdits + 1), NEW p \in Payloads,
             NEW user \in Users, Load(t, i, v, p, user)
      PROVE  IInv'
  <2> DEFINE e == [at |-> edits + 1, inv |-> i, expected |-> v, old |-> invoice[i],
                   new |-> Edited(invoice[i], p.changes, user, edits + 1),
                   account |-> p.account, einvoice |-> Null]
  <2>1. /\ invoice[i] \in Row /\ p.account \in Accounts \cup {NoAccount} /\ v \in Nat
        /\ edits + 1 \in Nat
    BY EditingConstantsOK DEF TypeOK
  <2>2. Edited(invoice[i], p.changes, user, edits + 1) \in Object
    BY <2>1, EditedType
  <2>3. e \in Edit
    BY <2>1, <2>2 DEF Edit
  <2>4. QED
    BY <1>3, <2>3, BeginInv DEF Load, Steps
<1>4. ASSUME NEW i \in Invoices, NEW x \in Einvoices, LoadLinked(t, i, x)
      PROVE  IInv'
  <2> DEFINE e == [at |-> edits + 1, inv |-> i, expected |-> 0, old |-> invoice[i],
                   new |-> invoice[i], account |-> NoAccount, einvoice |-> x]
  <2>1. invoice[i] \in Row /\ edits + 1 \in Nat
    BY DEF TypeOK
  <2>2. invoice[i] \in Object
    BY <2>1, RowIsObject
  <2>3. e \in Edit
    BY <2>1, <2>2 DEF Edit
  <2>4. e.einvoice \in Einvoices
    OBVIOUS
  <2>5. QED
    BY <1>4, <2>3, <2>4, BeginInv DEF LoadLinked, Steps
<1>5. CASE EditAndCommit(t)
  BY <1>5, NotRefused, EditInv DEF EditAndCommit
<1>6. CASE EditAndRecord(t)
  <2>1. TypeOK'
    BY <1>6, EditAt DEF EditAndRecord, TypeOK, Steps
  <2>2. NoNulls(t)
    BY <1>6, NotRefused DEF EditAndRecord
  <2>3. QED
    BY <1>6, <2>1, <2>2 DEF EditAndRecord, TypeOK, Established, NoNulls
<1>7. CASE EditRefused(t)
  BY <1>7, RollbackInv DEF EditRefused
<1>8. CASE RecordAndCommit(t)
  BY <1>8, EditInv DEF RecordAndCommit, Established
<1>9. CASE RecordRefused(t)
  BY <1>9, RollbackInv DEF RecordRefused
<1>10. CASE SelectByNumber(t)
  <2> DEFINE e == edit[t]  x == e.einvoice
  <2>1. step[t] = "by_number" /\ e \in Edit /\ e.old \in Row /\ x \in Einvoices
    BY <1>10, EditAt DEF SelectByNumber, Established
  <2>2. x.number \in Numbers
    BY <2>1, EditingConstantsOK
  <2>3. \A r \in Row : r.values["number"] \in Numbers
    BY FieldValues DEF Row, Values
  <2>4. edit' \in [Tasks -> Edit \cup {Closed}] /\ edit'[t] \in Edit
    <3>1. CASE edit' = [edit EXCEPT ![t].new = Extracted(e.old, x, x.number)]
      <4>1. Extracted(e.old, x, x.number) \in Object
        BY <2>1, <2>2, ExtractedType
      <4>2. [e EXCEPT !.new = Extracted(e.old, x, x.number)] \in Edit
        BY <2>1, <4>1 DEF Edit
      <4>3. QED
        BY <3>1, <4>2 DEF TypeOK
    <3>2. ASSUME NEW j \in Invoices, NEW r \in Row,
                 edit' = [edit EXCEPT ![t].inv = j, ![t].old = r,
                                      ![t].new = Extracted(r, x, r.values["number"])]
          PROVE  edit' \in [Tasks -> Edit \cup {Closed}] /\ edit'[t] \in Edit
      <4>1. Extracted(r, x, r.values["number"]) \in Object
        BY <2>1, <2>3, ExtractedType
      <4>2. [e EXCEPT !.inv = j, !.old = r,
                      !.new = Extracted(r, x, r.values["number"])] \in Edit
        BY <2>1, <4>1 DEF Edit
      <4>3. QED
        BY <3>2, <4>2 DEF TypeOK
    <3>3. \A j \in Invoices : (IF j = e.inv THEN e.old ELSE invoice[j]) \in Row
      BY <2>1 DEF TypeOK
    <3>4. QED
      BY <1>10, <3>1, <3>2, <3>3 DEF SelectByNumber
  <2>5. overtaken' \in [Tasks -> BOOLEAN]
    BY <1>10 DEF SelectByNumber, TypeOK
  <2>6. TypeOK'
    BY <1>10, <2>4, <2>5 DEF SelectByNumber, TypeOK, Steps
  <2>7. \A u \in Tasks \ {t} : edit'[u] = edit[u] /\ step'[u] = step[u]
    BY <1>10 DEF SelectByNumber, TypeOK
  <2>8. step'[t] = "apply"
    BY <1>10 DEF SelectByNumber, TypeOK
  <2>9. QED
    BY <2>6, <2>7, <2>8 DEF Established, NoNulls
<1>11. CASE ApplyEinvoice(t)
  <2>1. writer' \in [Invoices -> [Fields -> Writers]]
    BY <1>11, WritesType DEF ApplyEinvoice, Writers
  <2>2. QED
    BY <1>11, <2>1, NotRefused, WriteType, LeaveType, LeaveEstablished
       DEF ApplyEinvoice, Write, TypeOK
<1>12. CASE ApplyFails(t)
  BY <1>12, RollbackInv DEF ApplyFails
<1>13. CASE OtherRequest(t)
  BY <1>1, <1>13 DEF OtherRequest
<1>14. CASE OtherStep(t)
  BY <1>1, <1>14 DEF OtherStep
<1>15. QED
  BY <1>3, <1>4, <1>5, <1>6, <1>7, <1>8, <1>9, <1>10, <1>11, <1>12, <1>13, <1>14
     DEF Request, Step

THEOREM Invariant == Spec => []IInv
BY InitInv, NextInv, PTL DEF Spec

\* Rows stay rows whatever is edited: a null that update_with_audit put on the
\* object never reaches the table, whatever is flushed in which order.
THEOREM TypeCorrect == Spec => []TypeOK
BY Invariant, PTL DEF IInv

-----------------------------------------------------------------------------
(* What a flush writes *)

\* After a flush a changed field holds what the edit wants, another one what it
\* held before, whatever was loaded.
LEMMA Flushes ==
    ASSUME IInv, NEW t \in Tasks, step[t] # "idle", Write(t)
    PROVE  /\ \A i \in Invoices \ {edit[t].inv} : invoice'[i] = invoice[i]
           /\ \A f \in Changed(t) :
                  invoice'[edit[t].inv].values[f] = edit[t].new.values[f]
           /\ \A f \in Fields \ Changed(t) :
                  invoice'[edit[t].inv].values[f] = invoice[edit[t].inv].values[f]
<1> DEFINE e == edit[t]
<1>1. e.inv \in Invoices /\ invoice'[e.inv] = Flushed(invoice[e.inv], e.old, e.new)
  BY EditAt DEF IInv, Write, TypeOK
<1>2. \A f \in Fields : invoice'[e.inv].values[f]
          = IF e.new.values[f] # e.old.values[f] THEN e.new.values[f]
            ELSE invoice[e.inv].values[f]
  BY <1>1 DEF Flushed
<1>3. \A i \in Invoices \ {e.inv} : invoice'[i] = invoice[i]
  BY DEF Write, IInv, TypeOK
<1>4. QED
  BY <1>2, <1>3 DEF Changed

-----------------------------------------------------------------------------
(* Mappings *)

\* The account an accepted edit records is recorded for a vendor's key.
LEMMA EditedVendor ==
    ASSUME TypeOK, NEW t \in Tasks, step[t] # "idle", NoNulls(t)
    PROVE  Normalized[edit[t].new.values["vendor"]] \in Keys
<1>1. edit[t].new.values["vendor"] \in Vendors
  BY EditAt, FieldValues DEF Object, Nullable, NoNulls
<1>2. QED
  BY <1>1, EditingConstantsOK

LEMMA MappingsStep ==
    ASSUME TypeOK, NEW t \in Tasks, Request(t) \/ Step(t)
    PROVE  Mappings!Request(t) \/ Mappings!Step(t) \/ UNCHANGED mapvars
<1>1. CASE Request(t)
  BY <1>1 DEF Request, Load, LoadLinked, OtherRequest
<1>2. CASE EditAndCommit(t)
  BY <1>2 DEF EditAndCommit
<1>3. CASE EditAndRecord(t)
  <2>1. Normalized[edit[t].new.values["vendor"]] \in Keys
    BY <1>3, EditedVendor, NotRefused DEF EditAndRecord
  <2>2. edit[t].account \in Accounts
    BY <1>3, EditAt DEF EditAndRecord
  <2>3. QED
    BY <1>3, <2>1, <2>2 DEF EditAndRecord, Mappings!Request
<1>4. CASE EditRefused(t) \/ ApplyFails(t)
  BY <1>4 DEF EditRefused, ApplyFails
<1>5. CASE RecordAndCommit(t)
  BY <1>5 DEF RecordAndCommit, Mappings!Step
<1>6. CASE RecordRefused(t)
  BY <1>6 DEF RecordRefused, Mappings!Step
<1>7. CASE SelectByNumber(t)
  BY <1>7 DEF SelectByNumber, mapvars
<1>8. CASE ApplyEinvoice(t)
  BY <1>8 DEF ApplyEinvoice, mapvars
<1>9. CASE OtherStep(t)
  BY <1>9 DEF OtherStep, Mappings!Step
<1>10. QED
  BY <1>1, <1>2, <1>3, <1>4, <1>5, <1>6, <1>7, <1>8, <1>9 DEF Step

\* An edit that records an account takes the steps of a recording; no other edit
\* touches a mapping, nor does one that is rolled back.
LEMMA MappingsImplemented == Spec => Mappings!Spec
<1>1. Init => Mappings!Init
  BY DEF Init
<1>2. TypeOK /\ [Next]_vars => [Mappings!Next]_(Mappings!vars)
  <2>1. CASE UNCHANGED vars
    BY <2>1 DEF vars, Mappings!vars
  <2>2. ASSUME TypeOK, NEW t \in Tasks, Request(t) \/ Step(t)
        PROVE  [Mappings!Next]_(Mappings!vars)
    BY <2>2, MappingsStep DEF Mappings!Next, Mappings!vars, mapvars
  <2>3. QED
    BY <2>1, <2>2 DEF Next
<1>3. QED
  BY <1>1, <1>2, TypeCorrect, PTL DEF Spec, Mappings!Spec

-----------------------------------------------------------------------------
(* An edit that nobody overtook is exact *)

\* What a handler knows of its row: as long as nobody overtook it, the row is what
\* it loaded; an edit wants the version after the one its client named; the
\* recording that follows an accepted flush is for the vendor it wrote.
Informed(t) ==
    /\ ~overtaken[t] => invoice[edit[t].inv] = edit[t].old
    /\ step[t] \in {"flush", "record"} =>
          /\ edit[t].old.version = edit[t].expected
          /\ edit[t].new.version = edit[t].expected + 1
    /\ step[t] = "record" =>
          /\ "key" \in DOMAIN session[t]
          /\ session[t].key = Normalized[edit[t].new.values["vendor"]]

AllInformed ==
    /\ DOMAIN session = Tasks
    /\ \A t \in Tasks : step[t] # "idle" => Informed(t)

\* A handler's steps leave the others' locals alone, and a row that another
\* handler works on as it is unless that one counts as overtaken.
LEMMA OthersMappings ==
    ASSUME NEW t \in Tasks, DOMAIN session = Tasks,
           Mappings!Request(t) \/ Mappings!Step(t) \/ UNCHANGED mapvars
    PROVE  DOMAIN session' = Tasks /\ \A u \in Tasks \ {t} : session'[u] = session[u]
<1>1. CASE Mappings!Request(t)
  BY <1>1 DEF Mappings!Request, Mappings!StartRecord, Mappings!StartDelete,
              Mappings!StartExport
<1>2. CASE Mappings!Step(t)
  BY <1>2 DEF Mappings!Step, Mappings!Lookup, Mappings!StoreNew, Mappings!StoreUse,
              Mappings!StoreFails, Mappings!Delete, Mappings!ResolveNext,
              Mappings!EndExport, Mappings!Finish
<1>3. CASE UNCHANGED mapvars
  BY <1>3 DEF mapvars
<1>4. QED
  BY <1>1, <1>2, <1>3

LEMMA OthersWrite ==
    ASSUME IInv, NEW t \in Tasks, step[t] # "idle", Write(t),
           NEW u \in Tasks \ {t}, step[u] # "idle"
    PROVE  ~overtaken'[u] => ~overtaken[u] /\ invoice'[edit[u].inv] = invoice[edit[u].inv]
<1> DEFINE e == edit[t]
<1> SUFFICES ASSUME ~overtaken'[u]
             PROVE  ~overtaken[u] /\ invoice'[edit[u].inv] = invoice[edit[u].inv]
  OBVIOUS
<1>1. ~overtaken[u] /\ (edit[u].inv # e.inv \/ e.new = e.old)
  BY DEF Write
<1>2. edit[u].inv \in Invoices /\ e.inv \in Invoices /\ invoice[e.inv] \in Row
  BY EditAt DEF IInv
<1>3. CASE edit[u].inv # e.inv
  BY <1>1, <1>2, <1>3, Flushes
<1>4. CASE e.new = e.old
  <2> DEFINE r == invoice[e.inv]
  <2>1. invoice'[e.inv] = Flushed(r, e.old, e.old)
    BY <1>2, <1>4 DEF Write, IInv, TypeOK
  <2>2. r.values = [f \in Fields |-> r.values[f]]
    BY <1>2 DEF Row, Values
  <2>3. Flushed(r, e.old, e.old) = [values |-> r.values, reviewer |-> r.reviewer,
                                    reviewed_at |-> r.reviewed_at, version |-> r.version]
    BY <2>2 DEF Flushed
  <2>4. r = [values |-> r.values, reviewer |-> r.reviewer,
             reviewed_at |-> r.reviewed_at, version |-> r.version]
    BY <1>2 DEF Row
  <2>5. invoice'[e.inv] = invoice[e.inv]
    BY <2>1, <2>3, <2>4
  <2>6. QED
    BY <1>1, <1>2, <2>5, Flushes
<1>5. QED
  BY <1>1, <1>3, <1>4

LEMMA Others ==
    ASSUME IInv, NEW t \in Tasks, Request(t) \/ Step(t), NEW u \in Tasks \ {t}
    PROVE  /\ step'[u] = step[u] /\ edit'[u] = edit[u]
           /\ \/ step[t] # "idle" /\ Write(t)
              \/ invoice' = invoice /\ overtaken'[u] = overtaken[u]
<1> USE DEF IInv, TypeOK
<1>1. CASE Request(t)
  BY <1>1 DEF Request, Load, LoadLinked, Begin, OtherRequest, own
<1>2. CASE EditAndCommit(t) \/ RecordAndCommit(t) \/ ApplyEinvoice(t)
  BY <1>2 DEF EditAndCommit, RecordAndCommit, ApplyEinvoice, Write, Leave
<1>3. CASE EditRefused(t) \/ RecordRefused(t) \/ ApplyFails(t)
  BY <1>3 DEF EditRefused, RecordRefused, ApplyFails, Rollback, Leave
<1>4. CASE EditAndRecord(t) \/ OtherStep(t)
  BY <1>4 DEF EditAndRecord, OtherStep, own
<1>5. CASE SelectByNumber(t)
  BY <1>5 DEF SelectByNumber
<1>6. QED
  BY <1>1, <1>2, <1>3, <1>4, <1>5 DEF Step

LEMMA OthersInformed ==
    ASSUME IInv, AllInformed, NEW t \in Tasks, Request(t) \/ Step(t),
           NEW u \in Tasks \ {t}, step'[u] # "idle"
    PROVE  Informed(u)'
<1>1. step'[u] = step[u] /\ edit'[u] = edit[u] /\ session'[u] = session[u]
  BY Others, MappingsStep, OthersMappings DEF IInv, AllInformed
<1>2. Informed(u)
  BY <1>1 DEF AllInformed
<1>3. ~overtaken'[u] => ~overtaken[u] /\ invoice'[edit[u].inv] = invoice[edit[u].inv]
  BY <1>1, Others, OthersWrite
<1>4. QED
  BY <1>1, <1>2, <1>3 DEF Informed

\* What the acting handler itself knows after its step.
LEMMA ActorInformed ==
    ASSUME IInv, AllInformed, NEW t \in Tasks, Request(t) \/ Step(t), step'[t] # "idle"
    PROVE  Informed(t)'
<1> USE DEF IInv, TypeOK
<1>1. ASSUME NEW i \in Invoices, NEW v \in 1..(MaxEdits + 1), NEW p \in Payloads,
             NEW user \in Users, Load(t, i, v, p, user)
      PROVE  Informed(t)'
  BY <1>1 DEF Load, Begin, Informed, Edited
<1>2. ASSUME NEW i \in Invoices, NEW x \in Einvoices, LoadLinked(t, i, x)
      PROVE  Informed(t)'
  BY <1>2 DEF LoadLinked, Begin, Informed
<1>3. CASE OtherRequest(t)
  BY <1>3 DEF OtherRequest, own
<1>4. CASE EditAndCommit(t) \/ EditRefused(t) \/ RecordAndCommit(t) \/ RecordRefused(t)
           \/ ApplyEinvoice(t) \/ ApplyFails(t)
  BY <1>4 DEF EditAndCommit, EditRefused, RecordAndCommit, RecordRefused, ApplyEinvoice,
              ApplyFails, Write, Rollback, Leave
<1>5. CASE EditAndRecord(t)
  <2> DEFINE k == Normalized[edit[t].new.values["vendor"]]
  <2>1. session' = [session EXCEPT ![t] = Mappings!Fresh(k, edit[t].account, <<>>)]
    BY <1>5 DEF EditAndRecord, Mappings!StartRecord
  <2>2. "key" \in DOMAIN session'[t] /\ session'[t].key = k
    BY <2>1 DEF AllInformed, Mappings!Fresh
  <2>3. Informed(t)
    BY <1>5 DEF EditAndRecord, AllInformed
  <2>4. QED
    BY <1>5, <2>2, <2>3 DEF EditAndRecord, Informed
<1>6. CASE SelectByNumber(t)
  <2> DEFINE e == edit[t]
  <2>1. step[t] = "by_number" /\ step'[t] = "apply" /\ Informed(t)
    BY <1>6 DEF SelectByNumber, AllInformed
  <2>2. ~overtaken'[t] => invoice[edit'[t].inv] = edit'[t].old
    <3>1. ASSUME NEW n, edit' = [edit EXCEPT ![t].new = n], overtaken' = overtaken
          PROVE  ~overtaken'[t] => invoice[edit'[t].inv] = edit'[t].old
      <4>1. edit'[t] = [e EXCEPT !.new = n] /\ e \in Edit
        BY <2>1, <3>1, EditAt
      <4>2. edit'[t].inv = e.inv /\ edit'[t].old = e.old
        BY <4>1 DEF Edit
      <4>3. QED
        BY <2>1, <3>1, <4>2 DEF Informed
    <3>2. ASSUME NEW j \in Invoices, NEW r, NEW n,
                 r = (IF j = e.inv THEN e.old ELSE invoice[j]),
                 edit' = [edit EXCEPT ![t].inv = j, ![t].old = r, ![t].new = n],
                 overtaken' = [overtaken EXCEPT ![t] = (j = e.inv) /\ @]
          PROVE  ~overtaken'[t] => invoice[edit'[t].inv] = edit'[t].old
      <4>1. edit'[t] = [e EXCEPT !.inv = j, !.old = r, !.new = n] /\ e \in Edit
        BY <2>1, <3>2, EditAt
      <4>2. edit'[t].inv = j /\ edit'[t].old = r
        BY <4>1 DEF Edit
      <4>3. overtaken'[t] = ((j = e.inv) /\ overtaken[t])
        BY <3>2
      <4>4. QED
        BY <2>1, <3>2, <4>2, <4>3 DEF Informed
    <3>3. \/ /\ edit' = [edit EXCEPT ![t].new = Extracted(e.old, e.einvoice, e.einvoice.number)]
             /\ overtaken' = overtaken
          \/ \E j \in Invoices :
                LET r == IF j = e.inv THEN e.old ELSE invoice[j] IN
                /\ edit' = [edit EXCEPT ![t].inv = j, ![t].old = r,
                                        ![t].new = Extracted(r, e.einvoice, r.values["number"])]
                /\ overtaken' = [overtaken EXCEPT ![t] = (j = e.inv) /\ @]
      BY <1>6 DEF SelectByNumber
    <3>4. CASE edit' = [edit EXCEPT ![t].new = Extracted(e.old, e.einvoice, e.einvoice.number)]
               /\ overtaken' = overtaken
      BY <3>4, <3>1
    <3>5. ASSUME NEW j \in Invoices, NEW r,
                 r = (IF j = e.inv THEN e.old ELSE invoice[j]),
                 edit' = [edit EXCEPT ![t].inv = j, ![t].old = r,
                                      ![t].new = Extracted(r, e.einvoice, r.values["number"])],
                 overtaken' = [overtaken EXCEPT ![t] = (j = e.inv) /\ @]
          PROVE  ~overtaken'[t] => invoice[edit'[t].inv] = edit'[t].old
      BY <3>5, <3>2
    <3>6. QED
      BY <3>3, <3>4, <3>5, Zenon
  <2>3. QED
    BY <1>6, <2>1, <2>2 DEF SelectByNumber, Informed
<1>7. CASE OtherStep(t)
  <2>1. step' = step /\ edit' = edit /\ invoice' = invoice /\ overtaken' = overtaken
    BY <1>7 DEF OtherStep, own
  <2>2. step[t] = "record" => "key" \in DOMAIN session'[t] /\ session'[t].key = session[t].key
    BY <1>7 DEF OtherStep, Mappings!Lookup, AllInformed, Informed
  <2>3. QED
    BY <2>1, <2>2 DEF AllInformed, Informed
<1>8. QED
  BY <1>1, <1>2, <1>3, <1>4, <1>5, <1>6, <1>7 DEF Request, Step

LEMMA InformedKept == IInv /\ AllInformed /\ [Next]_vars => AllInformed'
<1> SUFFICES ASSUME IInv, AllInformed, [Next]_vars
             PROVE  AllInformed'
  OBVIOUS
<1>1. CASE UNCHANGED vars
  BY <1>1 DEF vars, AllInformed, Informed
<1>2. ASSUME NEW t \in Tasks, Request(t) \/ Step(t)
      PROVE  AllInformed'
  <2>1. DOMAIN session' = Tasks
    BY <1>2, MappingsStep, OthersMappings DEF IInv, AllInformed
  <2>2. \A u \in Tasks : step'[u] # "idle" => Informed(u)'
    BY <1>2, ActorInformed, OthersInformed
  <2>3. QED
    BY <2>1, <2>2 DEF AllInformed
<1>3. QED
  BY <1>1, <1>2 DEF Next

\* What a commit of an informed handler does to its row and its trail.
LEMMA CommitIsExact ==
    ASSUME IInv, NEW t \in Tasks, step[t] \in {"flush", "record"}, ~overtaken[t],
           Informed(t), Write(t), Audit(t)
    PROVE  LET e == edit[t] IN
           /\ invoice[e.inv].version = e.expected
           /\ invoice'[e.inv].version = e.expected + 1
           /\ \A f \in Changed(t) :
                 [field |-> f, old |-> invoice[e.inv].values[f],
                  new |-> invoice'[e.inv].values[f], created_at |-> e.at] \in trail'[e.inv]
           /\ step[t] = "record" =>
                 session[t].key = Normalized[invoice'[e.inv].values["vendor"]]
<1> DEFINE e == edit[t]  r == invoice[e.inv]
<1>1. /\ r = e.old /\ e.old.version = e.expected /\ e.new.version = e.expected + 1
      /\ e.inv \in Invoices /\ e \in Edit /\ Changed(t) \subseteq Fields
  BY EditAt DEF IInv, Informed
<1>2. invoice'[e.inv] = Flushed(r, e.old, e.new)
  BY <1>1 DEF Write, IInv, TypeOK
<1>3. invoice'[e.inv].version = e.expected + 1
  <2>1. e.expected \in Nat
    BY <1>1 DEF Edit
  <2>2. QED
    BY <1>1, <1>2, <2>1 DEF Flushed
<1>4. ASSUME NEW f \in Changed(t)
      PROVE  [field |-> f, old |-> r.values[f], new |-> invoice'[e.inv].values[f],
              created_at |-> e.at] \in trail'[e.inv]
  <2>1. invoice'[e.inv].values[f] = e.new.values[f]
    BY <1>1, Flushes
  <2>2. [field |-> f, old |-> e.old.values[f], new |-> e.new.values[f],
         created_at |-> e.at] \in Logged(t)
    BY DEF Logged
  <2>3. trail'[e.inv] = trail[e.inv] \cup Logged(t)
    BY <1>1 DEF Audit, IInv, TypeOK
  <2>4. QED
    BY <1>1, <2>1, <2>2, <2>3
<1>5. invoice'[e.inv].values["vendor"] = e.new.values["vendor"]
  BY <1>1, Flushes, FieldValues DEF IInv, Changed
<1>6. QED
  BY <1>1, <1>3, <1>4, <1>5 DEF Informed

\* An edit whose row nobody wrote between its SELECT and its commit is applied to
\* the version its client named, leaves the next version, an honest trail and the
\* account of the vendor the invoice then shows (update_invoice).
THEOREM EditsAreExact == Spec => EditIsExact
<1>1. Init => AllInformed
  BY DEF Init, AllInformed, Mappings!Init
<1>2. IInv /\ AllInformed /\ [Next]_vars =>
        [\A t \in Tasks : Commits(t) /\ ~overtaken[t] =>
          LET e == edit[t] IN
          /\ invoice[e.inv].version = e.expected
          /\ invoice'[e.inv].version = e.expected + 1
          /\ \A f \in Changed(t) :
                [field |-> f, old |-> invoice[e.inv].values[f],
                 new |-> invoice'[e.inv].values[f], created_at |-> e.at] \in trail'[e.inv]
          /\ step[t] = "record" =>
                session[t].key = Normalized[invoice'[e.inv].values["vendor"]]]_vars
  <2> SUFFICES ASSUME IInv, AllInformed, NEW u \in Tasks, Request(u) \/ Step(u),
                      NEW t \in Tasks, Commits(t), ~overtaken[t]
               PROVE  LET e == edit[t] IN
                      /\ invoice[e.inv].version = e.expected
                      /\ invoice'[e.inv].version = e.expected + 1
                      /\ \A f \in Changed(t) :
                            [field |-> f, old |-> invoice[e.inv].values[f],
                             new |-> invoice'[e.inv].values[f],
                             created_at |-> e.at] \in trail'[e.inv]
                      /\ step[t] = "record" =>
                            session[t].key = Normalized[invoice'[e.inv].values["vendor"]]
    BY DEF Next
  <2>1. u = t
    BY Others DEF Commits
  <2>2. step[t] \in {"flush", "record"} /\ step'[t] = "idle" /\ Informed(t)
    BY DEF Commits, AllInformed
  <2>3. EditAndCommit(t) \/ RecordAndCommit(t)
    <3>1. ~EditRefused(t)
      BY DEF EditRefused, Commits
    <3>2. ~RecordRefused(t)
      BY DEF RecordRefused, Commits, Mappings!StoreFails
    <3>3. ~EditAndRecord(t)
      BY <2>2 DEF EditAndRecord, IInv, TypeOK
    <3>4. ~Request(t)
      BY <2>2 DEF Request, Load, LoadLinked, Begin, OtherRequest
    <3>5. ~OtherStep(t)
      BY <2>2 DEF OtherStep, own
    <3>6. ~SelectByNumber(t) /\ ~ApplyEinvoice(t) /\ ~ApplyFails(t)
      BY <2>2 DEF SelectByNumber, ApplyEinvoice, ApplyFails
    <3>7. QED
      BY <2>1, <3>1, <3>2, <3>3, <3>4, <3>5, <3>6 DEF Step
  <2>4. Write(t) /\ Audit(t)
    BY <2>3 DEF EditAndCommit, RecordAndCommit
  <2>5. QED
    BY <2>2, <2>4, CommitIsExact
<1>3. QED
  BY <1>1, <1>2, InformedKept, Invariant, PTL DEF Spec, EditIsExact

-----------------------------------------------------------------------------
(* The audit trail *)

\* A transaction's entries carry its start; when nobody has written the row since,
\* every entry of the row is older.
Dated ==
    /\ \A i \in Invoices : \A x \in trail[i] : x.created_at <= edits
    /\ \A t \in Tasks : step[t] # "idle" => edit[t].at <= edits
    /\ \A t \in Tasks : step[t] \in {"flush", "record"} /\ ~overtaken[t] =>
          \A x \in trail[edit[t].inv] : x.created_at < edit[t].at

\* An edit raises the version, so its commit overtakes everybody on the row.
LEMMA EditOvertakes ==
    ASSUME IInv, NEW t \in Tasks, step[t] \in {"flush", "record"}, Informed(t), Write(t)
    PROVE  \A u \in Tasks \ {t} : overtaken'[u] = (overtaken[u] \/ edit[u].inv = edit[t].inv)
<1> DEFINE e == edit[t]
<1>1. e.expected \in Nat /\ e.old.version = e.expected /\ e.new.version = e.expected + 1
  BY EditAt DEF IInv, Informed, Edit
<1>2. e.new # e.old
  BY <1>1
<1>3. QED
  BY <1>2 DEF Write

LEMMA Trails ==
    ASSUME IInv, NEW t \in Tasks, step[t] # "idle", Audit(t)
    PROVE  /\ trail'[edit[t].inv] = trail[edit[t].inv] \cup Logged(t)
           /\ \A i \in Invoices \ {edit[t].inv} :
                 trail'[i] = trail[i] /\ writer'[i] = writer[i] /\ (i \in torn' <=> i \in torn)
           /\ \A f \in Fields : writer'[edit[t].inv][f] =
                 IF f \notin Changed(t) THEN writer[edit[t].inv][f]
                 ELSE IF overtaken[t] THEN "overtaken edit" ELSE "edit"
BY EditAt DEF IInv, TypeOK, Audit, Writes

LEMMA EditKeepsDated ==
    ASSUME IInv, AllInformed, Dated, NEW t \in Tasks, step[t] \in {"flush", "record"},
           Write(t), Audit(t)
    PROVE  Dated'
<1> DEFINE e == edit[t]
<1>1. /\ e.inv \in Invoices /\ e.at \in Nat /\ e.at <= edits /\ edits' = edits
      /\ step' = [step EXCEPT ![t] = "idle"] /\ edit' = [edit EXCEPT ![t] = Closed]
      /\ DOMAIN step = Tasks /\ DOMAIN edit = Tasks
  BY EditAt DEF IInv, TypeOK, Dated, Write, Leave
<1>2. \A x \in Logged(t) : x.created_at = e.at
  BY DEF Logged
<1>3. \A i \in Invoices : \A x \in trail'[i] : x.created_at <= edits'
  <2> SUFFICES ASSUME NEW i \in Invoices, NEW x \in trail'[i]
               PROVE  x.created_at <= edits
    BY <1>1
  <2>1. x \in trail[i] \/ x \in Logged(t)
    BY Trails
  <2>2. QED
    BY <1>1, <1>2, <2>1 DEF Dated
<1>4. \A u \in Tasks : step'[u] # "idle" => u # t /\ step'[u] = step[u] /\ edit'[u] = edit[u]
  BY <1>1
<1>5. ASSUME NEW u \in Tasks, step'[u] \in {"flush", "record"}, ~overtaken'[u],
             NEW x \in trail'[edit'[u].inv]
      PROVE  x.created_at < edit'[u].at
  <2>1. u # t /\ step[u] = step'[u] /\ edit'[u] = edit[u] /\ step[u] # "idle"
    BY <1>4, <1>5
  <2>2. ~overtaken[u] /\ edit[u].inv # e.inv
    BY <1>5, <2>1, EditOvertakes DEF AllInformed
  <2>3. edit[u].inv \in Invoices
    BY <2>1, EditAt DEF IInv
  <2>4. x \in trail[edit[u].inv]
    BY <2>1, <2>2, <2>3, Trails, <1>5
  <2>5. QED
    BY <1>5, <2>1, <2>2, <2>4 DEF Dated
<1>6. QED
  BY <1>1, <1>3, <1>4, <1>5 DEF Dated

\* A transaction that begins is younger than every entry.
LEMMA BeginKeepsDated ==
    ASSUME IInv, Dated, NEW t \in Tasks, NEW i \in Invoices, NEW s \in Steps, NEW e \in Edit,
           Begin(t, i, s, e), e.at = edits + 1, e.inv = i
    PROVE  Dated'
<1>1. /\ step' = [step EXCEPT ![t] = s] /\ edit' = [edit EXCEPT ![t] = e] /\ trail' = trail
      /\ edits' = edits + 1 /\ edits \in Nat /\ DOMAIN step = Tasks /\ DOMAIN edit = Tasks
      /\ overtaken' = [overtaken EXCEPT ![t] = FALSE] /\ DOMAIN overtaken = Tasks
  BY DEF IInv, TypeOK, Begin
<1>2. \A k \in Invoices : \A x \in trail[k] : x.created_at \in Nat /\ x.created_at <= edits
  BY DEF IInv, TypeOK, Dated, Entry
<1>3. \A u \in Tasks \ {t} : step[u] # "idle" => edit[u].at \in Nat /\ edit[u].at <= edits
  BY EditAt DEF IInv, Dated
<1>4. \A k \in Invoices : \A x \in trail'[k] : x.created_at <= edits'
  BY <1>1, <1>2
<1>5. \A u \in Tasks : step'[u] # "idle" => edit'[u].at <= edits'
  BY <1>1, <1>3
<1>6. ASSUME NEW u \in Tasks, step'[u] \in {"flush", "record"}, ~overtaken'[u],
             NEW x \in trail'[edit'[u].inv]
      PROVE  x.created_at < edit'[u].at
  <2>1. CASE u = t
    BY <1>1, <1>2, <1>6, <2>1
  <2>2. CASE u # t
    BY <1>1, <1>6, <2>2 DEF Dated
  <2>3. QED
    BY <2>1, <2>2
<1>7. QED
  BY <1>4, <1>5, <1>6 DEF Dated

LEMMA DatedKept == IInv /\ AllInformed /\ Dated /\ [Next]_vars => Dated'
<1> SUFFICES ASSUME IInv, AllInformed, Dated, [Next]_vars
             PROVE  Dated'
  OBVIOUS
<1>1. CASE UNCHANGED own
  BY <1>1 DEF own, Dated
<1>2. CASE UNCHANGED vars
  BY <1>1, <1>2 DEF vars, own
<1> SUFFICES ASSUME NEW t \in Tasks, Request(t) \/ Step(t)
             PROVE  Dated'
  BY <1>2 DEF Next
<1>3. ASSUME NEW i \in Invoices, NEW v \in 1..(MaxEdits + 1), NEW p \in Payloads,
             NEW user \in Users, Load(t, i, v, p, user)
      PROVE  Dated'
  <2> DEFINE e == [at |-> edits + 1, inv |-> i, expected |-> v, old |-> invoice[i],
                   new |-> Edited(invoice[i], p.changes, user, edits + 1),
                   account |-> p.account, einvoice |-> Null]
  <2>1. /\ invoice[i] \in Row /\ p.account \in Accounts \cup {NoAccount} /\ v \in Nat
        /\ edits + 1 \in Nat
    BY EditingConstantsOK DEF IInv, TypeOK
  <2>2. Edited(invoice[i], p.changes, user, edits + 1) \in Object
    BY <2>1, EditedType
  <2>3. e \in Edit
    BY <2>1, <2>2 DEF Edit
  <2>4. QED
    BY <1>3, <2>3, BeginKeepsDated DEF Load, Steps
<1>4. ASSUME NEW i \in Invoices, NEW x \in Einvoices, LoadLinked(t, i, x)
      PROVE  Dated'
  <2> DEFINE e == [at |-> edits + 1, inv |-> i, expected |-> 0, old |-> invoice[i],
                   new |-> invoice[i], account |-> NoAccount, einvoice |-> x]
  <2>1. invoice[i] \in Row /\ edits + 1 \in Nat
    BY DEF IInv, TypeOK
  <2>2. e \in Edit
    BY <2>1, RowIsObject DEF Edit
  <2>3. QED
    BY <1>4, <2>2, BeginKeepsDated DEF LoadLinked, Steps
<1>5. CASE EditAndCommit(t) \/ RecordAndCommit(t)
  BY <1>5, EditKeepsDated DEF EditAndCommit, RecordAndCommit
<1>6. CASE EditAndRecord(t)
  BY <1>6 DEF EditAndRecord, Dated, IInv, TypeOK
<1>7. CASE EditRefused(t) \/ RecordRefused(t) \/ ApplyFails(t)
  BY <1>7 DEF EditRefused, RecordRefused, ApplyFails, Rollback, Leave, Dated, IInv, TypeOK
<1>8. CASE SelectByNumber(t)
  <2>1. /\ step[t] = "by_number" /\ step' = [step EXCEPT ![t] = "apply"] /\ trail' = trail
        /\ edits' = edits /\ edit[t] \in Edit
    BY <1>8, EditAt DEF SelectByNumber, IInv
  <2>2. edit'[t].at = edit[t].at /\ \A u \in Tasks \ {t} : edit'[u] = edit[u]
    <3>1. ASSUME NEW n, edit' = [edit EXCEPT ![t].new = n]
          PROVE  edit'[t].at = edit[t].at /\ \A u \in Tasks \ {t} : edit'[u] = edit[u]
      <4>1. edit'[t] = [edit[t] EXCEPT !.new = n]
        BY <3>1 DEF IInv, TypeOK
      <4>2. edit'[t].at = edit[t].at
        BY <2>1, <4>1 DEF Edit
      <4>3. QED
        BY <3>1, <4>2 DEF IInv, TypeOK
    <3>2. ASSUME NEW j, NEW r, NEW n,
                 edit' = [edit EXCEPT ![t].inv = j, ![t].old = r, ![t].new = n]
          PROVE  edit'[t].at = edit[t].at /\ \A u \in Tasks \ {t} : edit'[u] = edit[u]
      <4>1. edit'[t] = [edit[t] EXCEPT !.inv = j, !.old = r, !.new = n]
        BY <3>2 DEF IInv, TypeOK
      <4>2. edit'[t].at = edit[t].at
        BY <2>1, <4>1 DEF Edit
      <4>3. QED
        BY <3>2, <4>2 DEF IInv, TypeOK
    <3> DEFINE x == edit[t].einvoice
               R(j) == IF j = edit[t].inv THEN edit[t].old ELSE invoice[j]
    <3>3. \/ edit' = [edit EXCEPT ![t].new = Extracted(edit[t].old, x, x.number)]
          \/ \E j \in Invoices :
                edit' = [edit EXCEPT ![t].inv = j, ![t].old = R(j),
                                     ![t].new = Extracted(R(j), x, R(j).values["number"])]
      BY <1>8 DEF SelectByNumber
    <3>4. CASE edit' = [edit EXCEPT ![t].new = Extracted(edit[t].old, x, x.number)]
      BY <3>1, <3>4
    <3>5. ASSUME NEW j \in Invoices,
                 edit' = [edit EXCEPT ![t].inv = j, ![t].old = R(j),
                                      ![t].new = Extracted(R(j), x, R(j).values["number"])]
          PROVE  edit'[t].at = edit[t].at /\ \A u \in Tasks \ {t} : edit'[u] = edit[u]
      BY <3>2, <3>5
    <3>6. QED
      BY <3>3, <3>4, <3>5
  <2>3. \A u \in Tasks \ {t} : overtaken'[u] = overtaken[u]
    BY <1>8 DEF SelectByNumber, IInv, TypeOK
  <2>4. QED
    BY <2>1, <2>2, <2>3 DEF Dated, IInv, TypeOK
<1>9. CASE ApplyEinvoice(t)
  BY <1>9 DEF ApplyEinvoice, Write, Leave, Dated, IInv, TypeOK
<1>10. CASE OtherRequest(t) \/ OtherStep(t)
  BY <1>1, <1>10 DEF OtherRequest, OtherStep
<1>11. QED
  BY <1>3, <1>4, <1>5, <1>6, <1>7, <1>8, <1>9, <1>10 DEF Request, Step

Explains(T, f, w, val, first) ==
    LET of == {x \in T : x.field = f}
        written == {x \in of : x.new = val}
    IN  /\ w = "none" => of = {} /\ val = first
        /\ w = "overtaken edit" => written # {}
        /\ w = "edit" => \E x \in written : \A y \in of \ {x} : y.created_at < x.created_at

LEMMA TrailsExplain ==
    TrailAgrees <=> \A i \in Invoices, f \in Fields :
        Explains(trail[i], f, writer[i][f], invoice[i].values[f], Initial[i][f])
BY DEF TrailAgrees, Explains

LEMMA TrailsExplainNext ==
    TrailAgrees' <=> \A i \in Invoices, f \in Fields :
        Explains(trail'[i], f, writer'[i][f], invoice'[i].values[f], Initial[i][f])
BY DEF TrailAgrees, Explains

LEMMA EditKeepsTrail ==
    ASSUME IInv, Dated, TrailAgrees, NEW t \in Tasks, step[t] \in {"flush", "record"},
           Write(t), Audit(t)
    PROVE  TrailAgrees'
<1> DEFINE e == edit[t]
<1>1. ASSUME NEW i \in Invoices, NEW f \in Fields
      PROVE  Explains(trail'[i], f, writer'[i][f], invoice'[i].values[f], Initial[i][f])
  <2>1. /\ e.inv \in Invoices
        /\ Explains(trail[i], f, writer[i][f], invoice[i].values[f], Initial[i][f])
    BY EditAt, TrailsExplain DEF IInv
  <2>2. CASE i # e.inv
    <3>1. trail'[i] = trail[i] /\ writer'[i] = writer[i] /\ invoice'[i] = invoice[i]
      BY <2>2, Trails, Flushes
    <3>2. QED
      BY <2>1, <3>1
  <2>3. CASE i = e.inv /\ f \notin Changed(t)
    <3>1. writer'[i][f] = writer[i][f] /\ invoice'[i].values[f] = invoice[i].values[f]
      BY <2>3, Trails, Flushes
    <3>2. {x \in trail'[i] : x.field = f} = {x \in trail[i] : x.field = f}
      <4>1. trail'[i] = trail[i] \cup Logged(t)
        BY <2>3, Trails
      <4>2. \A x \in Logged(t) : x.field # f
        BY <2>3 DEF Logged
      <4>3. QED
        BY <4>1, <4>2
    <3>3. QED
      BY <2>1, <3>1, <3>2 DEF Explains
  <2>4. CASE i = e.inv /\ f \in Changed(t)
    <3> DEFINE z == [field |-> f, old |-> e.old.values[f], new |-> e.new.values[f],
                     created_at |-> e.at]
    <3>1. /\ invoice'[i].values[f] = e.new.values[f] /\ trail'[i] = trail[i] \cup Logged(t)
          /\ writer'[i][f] = IF overtaken[t] THEN "overtaken edit" ELSE "edit"
      BY <2>4, Trails, Flushes
    <3>2. z \in Logged(t) /\ z.field = f /\ z.new = e.new.values[f] /\ z.created_at = e.at
      BY <2>4 DEF Logged
    <3>3. \A y \in Logged(t) : y.field = f => y = z
      BY DEF Logged
    <3>4. ~overtaken[t] => \A y \in trail[i] : y.created_at < e.at
      BY <2>4 DEF Dated
    <3> HIDE DEF z
    <3>5. ~overtaken[t] =>
             \A y \in {x \in trail'[i] : x.field = f} \ {z} : y.created_at < z.created_at
      BY <3>1, <3>2, <3>3, <3>4
    <3>6. QED
      BY <3>1, <3>2, <3>5 DEF Explains
  <2>5. QED
    BY <2>2, <2>3, <2>4
<1>2. QED
  BY <1>1, TrailsExplainNext

LEMMA TrailKept == IInv /\ AllInformed /\ Dated /\ TrailAgrees /\ [Next]_vars => TrailAgrees'
<1> SUFFICES ASSUME IInv, AllInformed, Dated, TrailAgrees, [Next]_vars
             PROVE  TrailAgrees'
  OBVIOUS
<1>1. CASE UNCHANGED <<invoice, trail, writer>>
  BY <1>1, TrailsExplain, TrailsExplainNext
<1>2. CASE UNCHANGED vars
  BY <1>1, <1>2 DEF vars
<1> SUFFICES ASSUME NEW t \in Tasks, Request(t) \/ Step(t)
             PROVE  TrailAgrees'
  BY <1>2 DEF Next
<1>3. CASE Request(t)
  BY <1>1, <1>3 DEF Request, Load, LoadLinked, Begin, OtherRequest, own
<1>4. CASE EditAndCommit(t) \/ RecordAndCommit(t)
  BY <1>4, EditKeepsTrail DEF EditAndCommit, RecordAndCommit
<1>5. CASE EditAndRecord(t)
  BY <1>1, <1>5 DEF EditAndRecord
<1>6. CASE EditRefused(t) \/ RecordRefused(t) \/ ApplyFails(t)
  BY <1>1, <1>6 DEF EditRefused, RecordRefused, ApplyFails, Rollback
<1>7. CASE SelectByNumber(t)
  BY <1>1, <1>7 DEF SelectByNumber
<1>8. CASE ApplyEinvoice(t)
  <2> DEFINE e == edit[t]
  <2>1. trail' = trail /\ e.inv \in Invoices
    BY <1>8, EditAt DEF ApplyEinvoice, IInv
  <2>2. ASSUME NEW i \in Invoices, NEW f \in Fields
        PROVE  \/ writer'[i][f] = "extraction"
               \/ writer'[i][f] = writer[i][f] /\ invoice'[i].values[f] = invoice[i].values[f]
    <3>1. writer' = [writer EXCEPT ![e.inv] =
                        [g \in Fields |-> IF g \in Changed(t) THEN "extraction" ELSE @[g]]]
      BY <1>8 DEF ApplyEinvoice, Writes
    <3>2. CASE i # e.inv
      BY <1>8, <3>1, <3>2, Flushes DEF ApplyEinvoice, IInv, TypeOK
    <3>3. CASE i = e.inv
      BY <1>8, <3>1, <3>3, Flushes DEF ApplyEinvoice, IInv, TypeOK
    <3>4. QED
      BY <3>2, <3>3
  <2>3. \A i \in Invoices, f \in Fields : writer'[i][f] = "extraction" =>
           Explains(trail'[i], f, writer'[i][f], invoice'[i].values[f], Initial[i][f])
    BY DEF Explains
  <2>4. QED
    BY <2>1, <2>2, <2>3, TrailsExplain, TrailsExplainNext
<1>9. CASE OtherStep(t)
  BY <1>1, <1>9 DEF OtherStep, own
<1>10. QED
  BY <1>3, <1>4, <1>5, <1>6, <1>7, <1>8, <1>9 DEF Step

LEMMA Informing == Spec => [](IInv /\ AllInformed /\ Dated)
<1>1. Init => AllInformed /\ Dated
  BY DEF Init, AllInformed, Dated, Mappings!Init
<1>2. QED
  BY <1>1, InformedKept, DatedKept, Invariant, PTL DEF Spec

\* The audit trail explains the row, although update_with_audit computes both
\* entries and columns from a copy that may be out of date: in the order of
\* created_at, the start of a transaction, the last entry of a field is that of
\* the edit that wrote it last, unless that one was overtaken.
THEOREM TrailCorrect == Spec => []TrailAgrees
<1>1. Init => TrailAgrees
  BY DEF Init, TrailAgrees
<1>2. QED
  BY <1>1, TrailKept, Informing, PTL DEF Spec

-----------------------------------------------------------------------------
(* Reviews *)

Together(r) ==
    /\ r.values["is_reviewed"] <=> r.reviewer # NoUser
    /\ r.values["is_reviewed"] <=> r.reviewed_at # 0

\* An edit writes a whole review or none, an extraction none.
Considered ==
    \A t \in Tasks : step[t] # "idle" =>
        \/ Review(edit[t].new) = Review(edit[t].old)
        \/ step[t] \in {"flush", "record"} /\ Together(edit[t].new)

LEMMA EditedReview ==
    ASSUME NEW r \in Row, NEW p \in Payloads, NEW user \in Users, NEW now \in Nat \ {0}
    PROVE  \/ Review(Edited(r, p.changes, user, now)) = Review(r)
           \/ Together(Edited(r, p.changes, user, now))
<1> DEFINE c == p.changes  n == Edited(r, c, user, now)
<1>1. /\ n.values["is_reviewed"] = IF "is_reviewed" \in DOMAIN c THEN c["is_reviewed"]
                                   ELSE r.values["is_reviewed"]
      /\ n.reviewer = IF "is_reviewed" \notin DOMAIN c THEN r.reviewer
                      ELSE IF c["is_reviewed"] THEN user ELSE NoUser
      /\ n.reviewed_at = IF "is_reviewed" \notin DOMAIN c THEN r.reviewed_at
                         ELSE IF c["is_reviewed"] THEN now ELSE 0
  BY FieldValues DEF Edited
<1>2. "is_reviewed" \in DOMAIN c => c["is_reviewed"] \in BOOLEAN
  BY EditingConstantsOK, FieldValues
<1>3. user # NoUser /\ now # 0
  BY EditingConstantsOK
<1> HIDE DEF n
<1>4. CASE "is_reviewed" \notin DOMAIN c
  <2>1. /\ n.values["is_reviewed"] = r.values["is_reviewed"]
        /\ n.reviewer = r.reviewer /\ n.reviewed_at = r.reviewed_at
    BY <1>1, <1>4
  <2>2. QED
    BY <2>1 DEF Review, n
<1>5. CASE "is_reviewed" \in DOMAIN c /\ c["is_reviewed"] = TRUE
  <2>1. n.values["is_reviewed"] = TRUE /\ n.reviewer = user /\ n.reviewed_at = now
    BY <1>1, <1>5
  <2>2. QED
    BY <1>3, <2>1 DEF Together, n
<1>6. CASE "is_reviewed" \in DOMAIN c /\ c["is_reviewed"] = FALSE
  <2>1. n.values["is_reviewed"] = FALSE /\ n.reviewer = NoUser /\ n.reviewed_at = 0
    BY <1>1, <1>6
  <2>2. QED
    BY <2>1 DEF Together, n
<1>7. QED
  BY <1>2, <1>4, <1>5, <1>6 DEF n

LEMMA ExtractedReview ==
    ASSUME NEW r \in Row, NEW x, NEW n
    PROVE  Review(Extracted(r, x, n)) = Review(r)
<1> DEFINE v == [f \in Fields |-> CASE f = "number" -> n [] f = "vendor" -> x.vendor
                   [] f = "amount" -> x.amount [] f = "is_reviewed" -> r.values[f]]
<1>1. Extracted(r, x, n) = [r EXCEPT !.values = v]
  BY DEF Extracted
<1>2. v["is_reviewed"] = r.values["is_reviewed"]
  BY FieldValues
<1> HIDE DEF v
<1>3. QED
  BY <1>1, <1>2 DEF Row, Review

LEMMA BeginConsidered ==
    ASSUME IInv, Considered, NEW t \in Tasks, NEW i, NEW s \in Steps, NEW e \in Edit,
           Begin(t, i, s, e),
           \/ Review(e.new) = Review(e.old)
           \/ s = "flush" /\ Together(e.new)
    PROVE  Considered'
BY DEF IInv, TypeOK, Begin, Considered

LEMMA ConsideredKept == IInv /\ Considered /\ [Next]_vars => Considered'
<1> SUFFICES ASSUME IInv, Considered, [Next]_vars
             PROVE  Considered'
  OBVIOUS
<1>1. CASE UNCHANGED <<step, edit>>
  BY <1>1 DEF Considered
<1>2. CASE UNCHANGED vars
  BY <1>1, <1>2 DEF vars
<1> SUFFICES ASSUME NEW t \in Tasks, Request(t) \/ Step(t)
             PROVE  Considered'
  BY <1>2 DEF Next
<1>3. ASSUME NEW i \in Invoices, NEW v \in 1..(MaxEdits + 1), NEW p \in Payloads,
             NEW user \in Users, Load(t, i, v, p, user)
      PROVE  Considered'
  <2> DEFINE n == Edited(invoice[i], p.changes, user, edits + 1)
             e == [at |-> edits + 1, inv |-> i, expected |-> v, old |-> invoice[i],
                   new |-> n, account |-> p.account, einvoice |-> Null]
  <2>1. /\ invoice[i] \in Row /\ p.account \in Accounts \cup {NoAccount} /\ v \in Nat
        /\ edits + 1 \in Nat \ {0}
    BY EditingConstantsOK DEF IInv, TypeOK
  <2>2. n \in Object /\ (Review(n) = Review(invoice[i]) \/ Together(n))
    BY <2>1, EditedType, EditedReview
  <2> HIDE DEF n
  <2>3. e \in Edit /\ e.new = n /\ e.old = invoice[i]
    BY <2>1, <2>2 DEF Edit
  <2>4. Begin(t, i, "flush", e)
    BY <1>3 DEF Load, n
  <2> HIDE DEF e
  <2>5. QED
    BY <2>2, <2>3, <2>4, BeginConsidered DEF Steps
<1>4. ASSUME NEW i \in Invoices, NEW x \in Einvoices, LoadLinked(t, i, x)
      PROVE  Considered'
  <2> DEFINE e == [at |-> edits + 1, inv |-> i, expected |-> 0, old |-> invoice[i],
                   new |-> invoice[i], account |-> NoAccount, einvoice |-> x]
  <2>1. invoice[i] \in Row /\ edits + 1 \in Nat
    BY DEF IInv, TypeOK
  <2>2. e \in Edit
    BY <2>1, RowIsObject DEF Edit
  <2>3. QED
    BY <1>4, <2>2, BeginConsidered DEF LoadLinked, Steps
<1>5. CASE EditAndCommit(t) \/ RecordAndCommit(t) \/ ApplyEinvoice(t)
  BY <1>5 DEF EditAndCommit, RecordAndCommit, ApplyEinvoice, Write, Leave, Considered,
              IInv, TypeOK
<1>6. CASE EditRefused(t) \/ RecordRefused(t) \/ ApplyFails(t)
  BY <1>6 DEF EditRefused, RecordRefused, ApplyFails, Rollback, Leave, Considered,
              IInv, TypeOK
<1>7. CASE EditAndRecord(t)
  BY <1>7 DEF EditAndRecord, Considered, IInv, TypeOK
<1>8. CASE SelectByNumber(t)
  <2> DEFINE e == edit[t]  x == e.einvoice
  <2>1. /\ step[t] = "by_number" /\ step' = [step EXCEPT ![t] = "apply"]
        /\ e \in Edit /\ e.old \in Row
    BY <1>8, EditAt DEF SelectByNumber, IInv
  <2>2. /\ Review(edit'[t].new) = Review(edit'[t].old)
        /\ \A u \in Tasks \ {t} : edit'[u] = edit[u]
    <3>1. CASE edit' = [edit EXCEPT ![t].new = Extracted(e.old, x, x.number)]
      <4> DEFINE n == Extracted(e.old, x, x.number)
      <4>1. Review(n) = Review(e.old)
        BY <2>1, ExtractedReview
      <4> HIDE DEF n
      <4>2. edit'[t] = [e EXCEPT !.new = n] /\ \A u \in Tasks \ {t} : edit'[u] = edit[u]
        BY <3>1 DEF IInv, TypeOK, n
      <4>3. edit'[t].new = n /\ edit'[t].old = e.old
        BY <2>1, <4>2 DEF Edit
      <4>4. QED
        BY <4>1, <4>2, <4>3
    <3>2. ASSUME NEW j \in Invoices, NEW r \in Row,
                 edit' = [edit EXCEPT ![t].inv = j, ![t].old = r,
                                      ![t].new = Extracted(r, x, r.values["number"])]
          PROVE  /\ Review(edit'[t].new) = Review(edit'[t].old)
                 /\ \A u \in Tasks \ {t} : edit'[u] = edit[u]
      <4> DEFINE n == Extracted(r, x, r.values["number"])
      <4>1. Review(n) = Review(r)
        BY ExtractedReview
      <4> HIDE DEF n
      <4>2. /\ edit'[t] = [e EXCEPT !.inv = j, !.old = r, !.new = n]
            /\ \A u \in Tasks \ {t} : edit'[u] = edit[u]
        BY <3>2 DEF IInv, TypeOK, n
      <4>3. edit'[t].new = n /\ edit'[t].old = r
        BY <2>1, <4>2 DEF Edit
      <4>4. QED
        BY <4>1, <4>2, <4>3
    <3>3. \A j \in Invoices : (IF j = e.inv THEN e.old ELSE invoice[j]) \in Row
      BY <2>1 DEF IInv, TypeOK
    <3>4. QED
      BY <1>8, <3>1, <3>2, <3>3 DEF SelectByNumber
  <2>3. QED
    BY <2>1, <2>2 DEF Considered, IInv, TypeOK
<1>9. CASE OtherRequest(t) \/ OtherStep(t)
  BY <1>1, <1>9 DEF OtherRequest, OtherStep, own
<1>10. QED
  BY <1>3, <1>4, <1>5, <1>6, <1>7, <1>8, <1>9 DEF Request, Step

\* What becomes of the review of the row that t writes.
LEMMA FlushedReview ==
    ASSUME IInv, NEW t \in Tasks, step[t] # "idle", Write(t)
    PROVE  LET e == edit[t]  cur == invoice[e.inv]  row == invoice'[e.inv] IN
           /\ Review(e.new) = Review(e.old) => Review(row) = Review(cur)
           /\ cur = e.old => Review(row) = Review(e.new)
<1> DEFINE e == edit[t]  cur == invoice[e.inv]
<1>1. e.inv \in Invoices /\ invoice'[e.inv] = Flushed(cur, e.old, e.new)
  BY EditAt DEF IInv, Write, TypeOK
<1>2. /\ Flushed(cur, e.old, e.new).values["is_reviewed"] =
            IF e.new.values["is_reviewed"] # e.old.values["is_reviewed"]
            THEN e.new.values["is_reviewed"] ELSE cur.values["is_reviewed"]
      /\ Flushed(cur, e.old, e.new).reviewer =
            IF e.new.reviewer # e.old.reviewer THEN e.new.reviewer ELSE cur.reviewer
      /\ Flushed(cur, e.old, e.new).reviewed_at =
            IF e.new.reviewed_at # e.old.reviewed_at THEN e.new.reviewed_at ELSE cur.reviewed_at
  BY FieldValues DEF Flushed
<1>3. QED
  BY <1>1, <1>2 DEF Review

LEMMA ReviewKept == IInv /\ AllInformed /\ Considered /\ ReviewAgrees /\ [Next]_vars => ReviewAgrees'
<1> SUFFICES ASSUME IInv, AllInformed, Considered, ReviewAgrees, [Next]_vars
             PROVE  ReviewAgrees'
  OBVIOUS
<1>1. CASE UNCHANGED <<invoice, torn>>
  BY <1>1 DEF ReviewAgrees
<1>2. CASE UNCHANGED vars
  BY <1>1, <1>2 DEF vars
<1> SUFFICES ASSUME NEW t \in Tasks, Request(t) \/ Step(t)
             PROVE  ReviewAgrees'
  BY <1>2 DEF Next
<1> DEFINE e == edit[t]
<1>3. ASSUME NEW r, NEW q, Review(r) = Review(q), Together(q)
      PROVE  Together(r)
  BY <1>3 DEF Review, Together
<1>4. ASSUME step[t] # "idle", Write(t),
             \A i \in Invoices \ {e.inv} : i \in torn' <=> i \in torn,
             e.inv \notin torn' =>
                 \/ Review(e.new) = Review(e.old) /\ e.inv \notin torn
                 \/ invoice[e.inv] = e.old /\ Together(e.new)
      PROVE  ReviewAgrees'
  <2> SUFFICES ASSUME NEW i \in Invoices \ torn'
               PROVE  Together(invoice'[i])
    BY DEF ReviewAgrees, Together
  <2>1. CASE i # e.inv
    BY <1>4, <2>1, Flushes DEF ReviewAgrees, Together
  <2>2. CASE i = e.inv
    <3>1. \/ Review(invoice'[i]) = Review(invoice[i]) /\ i \notin torn
          \/ Review(invoice'[i]) = Review(e.new) /\ Together(e.new)
      BY <1>4, <2>2, FlushedReview
    <3>2. i \notin torn => Together(invoice[i])
      BY DEF ReviewAgrees, Together
    <3>3. QED
      BY <1>3, <3>1, <3>2
  <2>3. QED
    BY <2>1, <2>2
<1>5. CASE EditAndCommit(t) \/ RecordAndCommit(t)
  <2>1. step[t] \in {"flush", "record"} /\ Write(t) /\ Audit(t)
    BY <1>5 DEF EditAndCommit, RecordAndCommit
  <2>2. /\ e.inv \in Invoices /\ (~overtaken[t] => invoice[e.inv] = e.old)
        /\ Review(e.new) = Review(e.old) \/ Together(e.new)
    BY <2>1, EditAt DEF IInv, AllInformed, Informed, Considered
  <2>3. torn' = IF Review(e.new) = Review(e.old) THEN torn
                ELSE IF overtaken[t] THEN torn \cup {e.inv} ELSE torn \ {e.inv}
    BY <2>1 DEF Audit
  <2>4. \A i \in Invoices \ {e.inv} : i \in torn' <=> i \in torn
    BY <2>3
  <2>5. e.inv \notin torn' =>
            \/ Review(e.new) = Review(e.old) /\ e.inv \notin torn
            \/ invoice[e.inv] = e.old /\ Together(e.new)
    BY <2>2, <2>3
  <2>6. QED
    BY <1>4, <2>1, <2>4, <2>5
<1>6. CASE ApplyEinvoice(t)
  <2>1. step[t] = "apply" /\ Write(t) /\ torn' = torn
    BY <1>6 DEF ApplyEinvoice
  <2>2. Review(e.new) = Review(e.old)
    BY <2>1 DEF Considered
  <2>3. QED
    BY <1>4, <2>1, <2>2
<1>7. CASE Request(t)
  BY <1>1, <1>7 DEF Request, Load, LoadLinked, Begin, OtherRequest, own
<1>8. CASE EditAndRecord(t)
  BY <1>1, <1>8 DEF EditAndRecord
<1>9. CASE EditRefused(t) \/ RecordRefused(t) \/ ApplyFails(t)
  BY <1>1, <1>9 DEF EditRefused, RecordRefused, ApplyFails, Rollback
<1>10. CASE SelectByNumber(t)
  BY <1>1, <1>10 DEF SelectByNumber
<1>11. CASE OtherStep(t)
  BY <1>1, <1>11 DEF OtherStep, own
<1>12. QED
  BY <1>5, <1>6, <1>7, <1>8, <1>9, <1>10, <1>11 DEF Step

\* Whether an invoice is reviewed, by whom and since when go together, although a
\* flush writes only the columns that differ from a copy that may be out of date;
\* only an edit that was overtaken can part them (update_with_audit).
THEOREM ReviewCorrect == Spec => []ReviewAgrees
<1>1. Init => Considered /\ ReviewAgrees
  <2> SUFFICES ASSUME Init PROVE ReviewAgrees
    BY DEF Init, Considered
  <2>1. \A i \in Invoices : ~Initial[i]["is_reviewed"]
    BY EditingConstantsOK
  <2>2. QED
    BY <2>1 DEF Init, ReviewAgrees
<1>2. QED
  BY <1>1, ConsideredKept, ReviewKept, Informing, PTL DEF Spec

-----------------------------------------------------------------------------
(* What is proved of VendorMappings holds of the mappings beside edits.    *)

Learned == INSTANCE VendorMappings_proofs

LEMMA SameMappings == Mappings!Spec => Learned!Spec
<1>1. Mappings!Init => Learned!Init
  BY DEF Mappings!Init, Learned!Init, Mappings!Closed, Learned!Closed, Mappings!Fresh,
         Learned!Fresh
<1>2. [Mappings!Next]_(Mappings!vars) => [Learned!Next]_(Learned!vars)
  BY DEF Mappings!Next, Mappings!vars, Mappings!Request, Mappings!Step, Mappings!StartRecord,
         Mappings!StartDelete, Mappings!StartExport, Mappings!Lookup, Mappings!StoreNew,
         Mappings!StoreUse, Mappings!StoreFails, Mappings!Delete, Mappings!ResolveNext,
         Mappings!EndExport, Mappings!Finish, Mappings!Fresh, Mappings!Closed,
         Mappings!Present, Mappings!Flushed, Mappings!Used, Mappings!Inserted,
         Mappings!Resolved, Mappings!AutoApplies, Mappings!Confidence,
         Learned!Next, Learned!vars, Learned!Request, Learned!Step, Learned!StartRecord,
         Learned!StartDelete, Learned!StartExport, Learned!Lookup, Learned!StoreNew,
         Learned!StoreUse, Learned!StoreFails, Learned!Delete, Learned!ResolveNext,
         Learned!EndExport, Learned!Finish, Learned!Fresh, Learned!Closed,
         Learned!Present, Learned!Flushed, Learned!Used, Learned!Inserted,
         Learned!Resolved, Learned!AutoApplies, Learned!Confidence
<1>3. QED
  BY <1>1, <1>2, PTL DEF Mappings!Spec, Learned!Spec

LEMMA LearnedConstants == Learned!MappingConstantsOK /\ Learned!NoMappingIsNoRow
BY MappingsAssumption
   DEF Learned!MappingConstantsOK, Learned!NoMappingIsNoRow, Mappings!Row, Learned!Row

\* An edit that records an account earns the vendor its count like any other
\* recording, although its transaction edits the invoice as well
\* (update_invoice with record_mapping).
THEOREM MappingsEarned == Spec => []Mappings!CountIsEarned
<1>1. Learned!Spec => []Learned!CountIsEarned
  BY LearnedConstants, Learned!CountEarned
<1>2. Learned!CountIsEarned => Mappings!CountIsEarned
  BY DEF Mappings!CountIsEarned, Learned!CountIsEarned, Mappings!Recordings,
         Learned!Recordings, Mappings!Recorded, Learned!Recorded
<1>3. QED
  BY <1>1, <1>2, SameMappings, MappingsImplemented, PTL

\* An export beside edits applies an account only if it was recorded for the vendor,
\* by an edit or otherwise, and the vendor was booked four times
\* (resolve_for_export).
THEOREM ExportsEarned == Spec => []Mappings!ExportIsEarned
<1>1. Learned!Spec => []Learned!ExportIsEarned
  BY LearnedConstants, Learned!ExportEarned
<1>2. Learned!ExportIsEarned => Mappings!ExportIsEarned
  BY DEF Mappings!ExportIsEarned, Learned!ExportIsEarned, Mappings!Recordings,
         Learned!Recordings, Mappings!Recorded, Learned!Recorded
<1>3. QED
  BY <1>1, <1>2, SameMappings, MappingsImplemented, PTL
=============================================================================
