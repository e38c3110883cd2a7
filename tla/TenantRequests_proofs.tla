----------------------- MODULE TenantRequests_proofs -----------------------
(***************************************************************************)
(* Proofs about TenantRequests, for any finite number of tasks, any        *)
(* tenants, addresses and invoices, and any limits.                        *)
(***************************************************************************)
EXTENDS TenantRequests, FiniteSetTheorems, TLAPS

-----------------------------------------------------------------------------
(* The inductive invariant *)

\* Phases in which a provider's answer is awaited or has just come.
InCall == {"calling", "returned"}

\* What a task has established about its request by the phase it is in.
RequestAgrees(q) ==
    /\ q.phase # "idle" => q.tenant \in Tenants
    /\ q.phase = "authorized" /\ q.op \in Limited => q.token.tenant = q.tenant
    /\ q.phase \in {"checked", "recorded"} => q.op = "embed"
    /\ q.phase \in InCall => q.op \in Limited \cup {"embed"}
    /\ q.phase = "checked" => ~q.text.readable
    /\ q.phase \in InCall \cup {"recorded"} /\ q.op = "embed"
       => q.sent = q.text /\ ~q.text.readable

RequestsAgree == \A r \in Requests : RequestAgrees(req[r])

\* A task sees its own tenant for as long as it serves the request.
ContextIsOwn ==
    \A r \in Requests : req[r].phase # "idle" => ctx[r] = req[r].tenant

\* The limiter's window of a tenant is what the tenant itself used.
WindowIsOwn == \A t \in Tenants : hits[t] = use[t]

TaskInv ==
    /\ req \in [Requests -> Request] /\ ctx \in [Requests -> Contexts]
    /\ answer \in Answers
    /\ RequestsAgree /\ ContextIsOwn /\ FoundAreOwn

RowsInv ==
    /\ clock \in 0 .. MaxTime
    /\ invoices \in [Invoices -> 0 .. MaxVersion]
    /\ rows \subseteq Embedding /\ IsFiniteSet(rows)
    /\ VectorOfText

LedgerInv ==
    /\ audit \in [Contexts -> Nat] /\ calls \in [Contexts -> Nat] /\ lost \in [Contexts -> Nat]
    /\ AuditAccountsForCalls

LimiterInv ==
    /\ hits \in [Keys -> Quota] /\ use \in [Contexts -> Quota]
    /\ WindowIsOwn

IInv == TaskInv /\ RowsInv /\ LedgerInv /\ LimiterInv

-----------------------------------------------------------------------------
(* Types *)

LEMMA DefaultTypes ==
    /\ NoToken \in Token
    /\ NoText \in Texts /\ ~NoText.readable
    /\ Idle \in Request /\ Idle.phase = "idle"
    /\ None \in Answers /\ None.found = {} /\ None.status = 0
<1>1. NoToken \in Token
  BY RequestsAssumption DEF NoToken, Token, Contexts
<1>2. NoText \in Texts /\ ~NoText.readable
  <2>1. (CHOOSE i \in Invoices : TRUE) \in Invoices
    BY RequestsAssumption
  <2>2. 1 \in 1 .. MaxVersion
    BY RequestsAssumption
  <2> QED
    BY <2>1, <2>2 DEF NoText, Texts
<1>3. Idle \in Request /\ Idle.phase = "idle"
  <2>1. (CHOOSE i \in Invoices : TRUE) \in Invoices /\ (CHOOSE i \in Ips : TRUE) \in Ips
    BY RequestsAssumption
  <2> QED
    BY <1>1, <1>2, <2>1 DEF Idle, Request, Phases, Ops, Contexts
<1>4. None \in Answers /\ None.found = {} /\ None.status = 0
  BY <1>1 DEF None, Answers, Contexts
<1> QED
  BY <1>1, <1>2, <1>3, <1>4

\* A window that has run out is replaced by an empty one.
LEMMA QuotaTypes ==
    ASSUME TypeOK, NEW quota \in Quota
    PROVE  /\ Current(quota) \in Quota
           /\ Current(quota).n < Limit => Hit(quota) \in Quota
<1>1. Current(quota) \in Quota
  BY RequestsAssumption DEF TypeOK, Quota, Current
<1>2. ASSUME Current(quota).n < Limit PROVE Hit(quota) \in Quota
  <2>1. PICK c \in Quota : c = Current(quota)
    BY <1>1
  <2>2. c.n \in 0 .. Limit /\ c.n + 1 \in 0 .. Limit
    BY <1>2, <2>1, RequestsAssumption DEF Quota
  <2> QED
    BY <2>1, <2>2 DEF Hit, Quota
<1> QED
  BY <1>1, <1>2

\* Among more identifiers than there are rows, one is free.
LEMMA FreshId ==
    ASSUME IsFiniteSet(rows)
    PROVE  \E n \in 1 .. Cardinality(rows) + 1 : \A x \in rows : x.id # n
<1> DEFINE k   == Cardinality(rows)
           Ids == 1 .. k + 1
           f   == [n \in Ids |-> CHOOSE x \in rows : x.id = n]
<1>1. k \in Nat
  BY FS_CardinalityType
<1>2. IsFiniteSet(Ids) /\ Cardinality(Ids) = k + 1
  <2> HIDE DEF k
  <2> QED
    BY <1>1, FS_Interval
<1> SUFFICES ASSUME \A n \in Ids : \E x \in rows : x.id = n
             PROVE  FALSE
  OBVIOUS
<1>3. \A n \in Ids : f[n] \in rows /\ f[n].id = n
  OBVIOUS
<1>4. f \in [Ids -> rows]
  BY <1>3
<1>5. \E n, m \in Ids : n # m /\ f[n] = f[m]
  <2> HIDE DEF f, Ids
  <2>1. Cardinality(rows) < Cardinality(Ids)
    BY <1>1, <1>2
  <2> QED
    BY <1>2, <1>4, <2>1, FS_PigeonHole
<1> QED
  BY <1>3, <1>5

LEMMA NewRowIsEmbedding ==
    ASSUME TypeOK, NEW r \in Requests, req[r].tenant \in Tenants
    PROVE  NewRow(r) \in Embedding
<1>1. PICK n \in 1 .. Cardinality(rows) + 1 :
          n = CHOOSE m \in 1 .. Cardinality(rows) + 1 : \A x \in rows : x.id # m
  BY FreshId DEF TypeOK
<1>2. n \in Nat
  OBVIOUS
<1>3. req[r] \in Request
  BY DEF TypeOK
<1> QED
  BY <1>1, <1>2, <1>3 DEF NewRow, Embedding, Request

-----------------------------------------------------------------------------
(* Counting the calls that are under way *)

IsCalling(q, t) == q.phase \in InCall /\ q.tenant = t

LEMMA CallingIsFinite ==
    ASSUME NEW t
    PROVE  IsFiniteSet(Calling(t)) /\ Cardinality(Calling(t)) \in Nat
<1>1. Calling(t) \in SUBSET Requests
  BY DEF Calling
<1> QED
  BY <1>1, RequestsAssumption, FS_Subset, FS_CardinalityType

LEMMA CallingChanges ==
    ASSUME TypeOK, NEW r \in Requests, NEW q, NEW t, req' = [req EXCEPT ![r] = q]
    PROVE  Cardinality(Calling(t))' =
             Cardinality(Calling(t)) + (IF IsCalling(q, t) THEN 1 ELSE 0)
                                     - (IF IsCalling(req[r], t) THEN 1 ELSE 0)
<1> DEFINE A == Calling(t)
           B == Calling(t)'
<1>1. IsFiniteSet(A) /\ Cardinality(A) \in Nat
  BY CallingIsFinite
<1>2. r \in A <=> IsCalling(req[r], t)
  BY DEF Calling, IsCalling, InCall
<1>3. B = IF IsCalling(q, t) THEN A \cup {r} ELSE A \ {r}
  BY DEF TypeOK, Calling, IsCalling, InCall
<1>4. CASE IsCalling(q, t)
  <2>1. Cardinality(B) = IF r \in A THEN Cardinality(A) ELSE Cardinality(A) + 1
    BY <1>1, <1>3, <1>4, FS_AddElement
  <2> QED
    BY <1>1, <1>2, <1>4, <2>1
<1>5. CASE ~IsCalling(q, t)
  <2>1. Cardinality(B) = IF r \in A THEN Cardinality(A) - 1 ELSE Cardinality(A)
    BY <1>1, <1>3, <1>5, FS_RemoveElement
  <2> QED
    BY <1>1, <1>2, <1>5, <2>1
<1> QED
  BY <1>4, <1>5

LEMMA CallingSame ==
    ASSUME TypeOK, NEW r \in Requests, NEW q, NEW t, req' = [req EXCEPT ![r] = q],
           IsCalling(q, t) <=> IsCalling(req[r], t)
    PROVE  Cardinality(Calling(t))' = Cardinality(Calling(t))
<1>1. Cardinality(Calling(t))' =
        Cardinality(Calling(t)) + (IF IsCalling(q, t) THEN 1 ELSE 0)
                                - (IF IsCalling(req[r], t) THEN 1 ELSE 0)
  BY CallingChanges
<1>2. Cardinality(Calling(t)) \in Nat
  BY CallingIsFinite
<1> QED
  BY <1>1, <1>2

-----------------------------------------------------------------------------
(* Answers and the next phase of a task *)

Statuses == {200, 201, 401, 404, 409, 429, 500}

LEMMA StatusTypes == \A error : StatusOf(error) \in Statuses
BY DEF StatusOf, Statuses

LEMMA IdleAgrees == RequestAgrees(Idle)
BY DefaultTypes DEF RequestAgrees, InCall

LEMMA AnswerKeepsTasks ==
    ASSUME TypeOK, TaskInv, NEW r \in Requests, NEW status \in Statuses,
           NEW found \in SUBSET OwnRows(r), Answer(r, status, found)
    PROVE  TaskInv'
<1>1. req[r] \in Request
  BY DEF TaskInv
<1>2. req' = [req EXCEPT ![r] = Idle] /\ ctx' = [ctx EXCEPT ![r] = System]
  BY DEF Answer, SetContext
<1>3. req' \in [Requests -> Request] /\ ctx' \in [Requests -> Contexts]
  BY <1>2, DefaultTypes DEF TaskInv, Contexts
<1>4. answer' \in Answers /\ FoundAreOwn'
  <2>1. req[r].tenant \in Contexts /\ req[r].token \in Token
    BY <1>1 DEF Request
  <2>2. found \subseteq Embedding /\ \A x \in found : x.tenant = req[r].tenant
    BY DEF OwnRows, TypeOK
  <2>3. answer' = [status |-> status, to |-> req[r].tenant, token |-> req[r].token,
                   found |-> found]
    BY DEF Answer
  <2> QED
    BY <2>1, <2>2, <2>3 DEF Answers, Statuses, FoundAreOwn
<1>5. RequestsAgree'
  BY <1>2, IdleAgrees DEF TaskInv, RequestsAgree
<1>6. ContextIsOwn'
  BY <1>2, DefaultTypes DEF TaskInv, ContextIsOwn
<1> QED
  BY <1>3, <1>4, <1>5, <1>6 DEF TaskInv

LEMMA RaiseKeepsTasks ==
    ASSUME TypeOK, TaskInv, NEW r \in Requests, NEW error, Raise(r, error)
    PROVE  TaskInv'
<1>1. StatusOf(error) \in Statuses
  BY StatusTypes
<1> QED
  BY <1>1, AnswerKeepsTasks DEF Raise

LEMMA BecomeKeepsTasks ==
    ASSUME TaskInv, NEW r \in Requests, NEW q \in Request, req[r].phase # "idle",
           q.tenant = req[r].tenant, RequestAgrees(q),
           req' = [req EXCEPT ![r] = q], ctx' = ctx, answer' = None
    PROVE  TaskInv'
<1>1. req' \in [Requests -> Request] /\ ctx' \in [Requests -> Contexts]
  BY DEF TaskInv
<1>2. answer' \in Answers /\ FoundAreOwn'
  BY DefaultTypes DEF FoundAreOwn
<1>3. RequestsAgree'
  BY DEF TaskInv, RequestsAgree
<1>4. ContextIsOwn'
  BY DEF TaskInv, ContextIsOwn
<1> QED
  BY <1>1, <1>2, <1>3, <1>4 DEF TaskInv

-----------------------------------------------------------------------------
(* The parts of the invariant that a step leaves alone *)

LEMMA PartsGiveTypes == IInv => TypeOK
BY DEF IInv, TaskInv, RowsInv, LedgerInv, LimiterInv, TypeOK

LEMMA RowsStay ==
    ASSUME RowsInv, UNCHANGED <<clock, invoices, rows>>
    PROVE  RowsInv'
BY DEF RowsInv, VectorOfText

LEMMA LimiterStays ==
    ASSUME LimiterInv, UNCHANGED <<hits, use>>
    PROVE  LimiterInv'
BY DEF LimiterInv, WindowIsOwn

\* A task that neither starts nor ends a call.
LEMMA LedgerStays ==
    ASSUME TypeOK, LedgerInv, UNCHANGED <<audit, calls, lost>>,
           NEW r \in Requests, NEW q, req' = [req EXCEPT ![r] = q],
           \A t \in Contexts : IsCalling(q, t) <=> IsCalling(req[r], t)
    PROVE  LedgerInv'
<1>1. \A t \in Contexts : Cardinality(Calling(t))' = Cardinality(Calling(t))
  BY CallingSame
<1> QED
  BY <1>1 DEF LedgerInv, AuditAccountsForCalls

\* A task that ends its request without a call under way.
LEMMA LedgerStaysWhenAnswered ==
    ASSUME TypeOK, LedgerInv, UNCHANGED <<audit, calls, lost>>,
           NEW r \in Requests, req[r].phase \notin InCall,
           req' = [req EXCEPT ![r] = Idle]
    PROVE  LedgerInv'
<1>1. \A t \in Contexts : ~IsCalling(Idle, t) /\ ~IsCalling(req[r], t)
  BY DefaultTypes DEF IsCalling, InCall
<1> QED
  BY <1>1, LedgerStays

\* A request that fails or is answered, and changes nothing.
LEMMA AnswerKeepsIInv ==
    ASSUME IInv, NEW r \in Requests, NEW status \in Statuses,
           NEW found \in SUBSET OwnRows(r), Answer(r, status, found),
           req[r].phase \notin InCall,
           UNCHANGED <<clock, invoices, rows, audit, hits, calls, lost, use>>
    PROVE  IInv'
<1>1. TypeOK
  BY PartsGiveTypes
<1>2. TaskInv'
  BY <1>1, AnswerKeepsTasks DEF IInv
<1>3. req' = [req EXCEPT ![r] = Idle]
  BY DEF Answer
<1>4. LedgerInv'
  BY <1>1, <1>3, LedgerStaysWhenAnswered DEF IInv
<1>5. RowsInv' /\ LimiterInv'
  BY RowsStay, LimiterStays DEF IInv
<1> QED
  BY <1>2, <1>4, <1>5 DEF IInv

LEMMA RaiseKeepsIInv ==
    ASSUME IInv, NEW r \in Requests, NEW error, Raise(r, error), req[r].phase \notin InCall,
           UNCHANGED <<clock, invoices, rows, audit, hits, calls, lost, use>>
    PROVE  IInv'
<1>1. StatusOf(error) \in Statuses
  BY StatusTypes
<1> QED
  BY <1>1, AnswerKeepsIInv DEF Raise

\* A request that goes on, with no call begun or ended.
LEMMA BecomeKeepsIInv ==
    ASSUME IInv, NEW r \in Requests, NEW q \in Request, Become(r, q),
           req[r].phase # "idle", q.tenant = req[r].tenant, RequestAgrees(q),
           q.phase \in InCall <=> req[r].phase \in InCall,
           UNCHANGED <<clock, invoices, rows, audit, hits, calls, lost, use>>
    PROVE  IInv'
<1>1. TypeOK
  BY PartsGiveTypes
<1>2. req' = [req EXCEPT ![r] = q] /\ ctx' = ctx /\ answer' = None
  BY DEF Become
<1>3. TaskInv'
  BY <1>2, BecomeKeepsTasks DEF IInv
<1>4. LedgerInv'
  BY <1>1, <1>2, LedgerStays DEF IInv, IsCalling
<1>5. RowsInv' /\ LimiterInv'
  BY RowsStay, LimiterStays DEF IInv
<1> QED
  BY <1>3, <1>4, <1>5 DEF IInv

-----------------------------------------------------------------------------
(* The steps of a request *)

LEMMA ArriveKeeps ==
    ASSUME IInv, NEW r \in Requests, Arrive(r)
    PROVE  IInv'
<1>1. TypeOK
  BY PartsGiveTypes
<1>2. RowsInv' /\ LimiterInv'
  BY RowsStay, LimiterStays DEF IInv, Arrive
<1>3. PICK op \in Ops, token \in Issued \cup {NoToken}, ip \in Ips, i \in Invoices :
        IF ~Decodes(token)
        THEN /\ answer' = [None EXCEPT !.status = StatusOf("HTTP 401")]
             /\ UNCHANGED <<req, ctx>>
        ELSE /\ req' = [req EXCEPT ![r] =
                      [Idle EXCEPT !.phase = "authorized", !.op = op, !.tenant = token.tenant,
                                   !.ip = ip, !.invoice = i,
                                   !.token = IF op \in Limited THEN token ELSE NoToken]]
             /\ ctx' = SetContext(r, token.tenant)
             /\ answer' = None
  BY DEF Arrive
<1>4. CASE ~Decodes(token)
  <2>1. answer' = [None EXCEPT !.status = StatusOf("HTTP 401")] /\ UNCHANGED <<req, ctx>>
    BY <1>3, <1>4
  <2>2. answer' \in Answers /\ answer'.found = {}
    <3>1. PICK s \in Statuses : s = StatusOf("HTTP 401")
      BY StatusTypes
    <3>2. answer' = [None EXCEPT !.status = s]
      BY <2>1, <3>1
    <3> QED
      BY <3>2, DefaultTypes DEF Answers, Statuses
  <2>3. TaskInv'
    BY <2>1, <2>2 DEF IInv, TaskInv, RequestsAgree, ContextIsOwn, FoundAreOwn
  <2>4. LedgerInv'
    BY <2>1 DEF IInv, LedgerInv, AuditAccountsForCalls, Calling, Arrive
  <2> QED
    BY <1>2, <2>3, <2>4 DEF IInv
<1>5. CASE Decodes(token)
  <2> DEFINE q == [Idle EXCEPT !.phase = "authorized", !.op = op, !.tenant = token.tenant,
                               !.ip = ip, !.invoice = i,
                               !.token = IF op \in Limited THEN token ELSE NoToken]
  <2>1. token.tenant \in Tenants /\ token \in Token
    <3>1. token.tenant \in Tenants
      BY <1>5 DEF Decodes
    <3>2. CASE token \in Issued
      BY <1>1, <3>2, RequestsAssumption DEF Issued, EncodeToken, Token, Contexts, TypeOK
    <3> QED
      BY <3>1, <3>2, DefaultTypes
  <2>2. q \in Request
    BY <2>1, DefaultTypes DEF Request, Phases, Contexts
  <2>3. RequestAgrees(q) /\ ~(q.phase \in InCall)
    <3>1. q.phase = "authorized" /\ q.tenant = token.tenant
          /\ (q.op \in Limited => q.token = token)
      BY <2>2, DefaultTypes DEF Request
    <3> QED
      BY <2>1, <3>1 DEF RequestAgrees, InCall
  <2>4. /\ req' = [req EXCEPT ![r] = q] /\ ctx' = [ctx EXCEPT ![r] = q.tenant]
        /\ answer' = None
    BY <1>3, <1>5, DefaultTypes DEF SetContext, Request
  <2> HIDE DEF q
  <2>5. TaskInv'
    <3>1. req' \in [Requests -> Request] /\ ctx' \in [Requests -> Contexts]
      BY <2>2, <2>4 DEF IInv, TaskInv, Request
    <3>2. answer' \in Answers /\ FoundAreOwn'
      BY <2>4, DefaultTypes DEF FoundAreOwn
    <3>3. RequestsAgree' /\ ContextIsOwn'
      BY <2>3, <2>4 DEF IInv, TaskInv, RequestsAgree, ContextIsOwn
    <3> QED
      BY <3>1, <3>2, <3>3 DEF TaskInv
  <2>6. LedgerInv'
    <3>1. req[r].phase = "idle"
      BY DEF Arrive
    <3>2. \A t \in Contexts : ~IsCalling(q, t) /\ ~IsCalling(req[r], t)
      BY <2>3, <3>1 DEF IsCalling, InCall
    <3> QED
      BY <1>1, <2>4, <3>2, LedgerStays DEF IInv, Arrive
  <2> QED
    BY <1>2, <2>5, <2>6 DEF IInv
<1> QED
  BY <1>4, <1>5

\* The step in which the provider is called.
LEMMA CallKeepsLedger ==
    ASSUME IInv, NEW r \in Requests, NEW text \in Texts, CallProvider(r, text),
           req[r].phase \notin InCall, UNCHANGED <<audit, lost>>
    PROVE  LedgerInv'
<1>1. TypeOK
  BY PartsGiveTypes
<1> DEFINE q == [req[r] EXCEPT !.phase = "calling", !.sent = SentText(req[r].op, text),
                               !.token = NoToken]
<1>2. req[r] \in Request
  BY <1>1 DEF TypeOK
<1>3. req' = [req EXCEPT ![r] = q]
  BY <1>1, <1>2 DEF CallProvider, TypeOK, Request
<1>4. q.phase = "calling" /\ q.tenant = req[r].tenant
  BY <1>2 DEF Request
<1> HIDE DEF q
<1>5. \A t \in Contexts : /\ ~IsCalling(req[r], t)
                          /\ IsCalling(q, t) <=> t = req[r].tenant
  BY <1>4 DEF IsCalling, InCall
<1>6. calls' = [calls EXCEPT ![req[r].tenant] = @ + 1]
  BY DEF CallProvider
<1>7. calls' \in [Contexts -> Nat]
  <2>1. req[r].tenant \in Contexts
    BY <1>2 DEF Request
  <2> QED
    BY <1>1, <1>6, <2>1 DEF TypeOK
<1>8. AuditAccountsForCalls'
  <2> SUFFICES ASSUME NEW t \in Contexts
               PROVE  audit[t] + lost[t] + Cardinality(Calling(t))' = calls'[t]
    BY DEF AuditAccountsForCalls
  <2>1. Cardinality(Calling(t))' = Cardinality(Calling(t))
          + (IF IsCalling(q, t) THEN 1 ELSE 0) - (IF IsCalling(req[r], t) THEN 1 ELSE 0)
    BY <1>1, <1>3, CallingChanges
  <2>2. Cardinality(Calling(t)) \in Nat /\ audit[t] \in Nat /\ lost[t] \in Nat /\ calls[t] \in Nat
    BY <1>1, CallingIsFinite DEF TypeOK
  <2>3. audit[t] + lost[t] + Cardinality(Calling(t)) = calls[t]
    BY DEF IInv, LedgerInv, AuditAccountsForCalls
  <2>4. calls'[t] = IF t = req[r].tenant THEN calls[t] + 1 ELSE calls[t]
    BY <1>1, <1>6 DEF TypeOK
  <2>5. Cardinality(Calling(t))' =
          IF t = req[r].tenant THEN Cardinality(Calling(t)) + 1 ELSE Cardinality(Calling(t))
    BY <1>5, <2>1, <2>2
  <2> QED
    BY <2>2, <2>3, <2>4, <2>5
<1> QED
  BY <1>1, <1>7, <1>8 DEF LedgerInv, TypeOK

\* What the task knows of the call it has begun.
LEMMA CallAgrees ==
    ASSUME IInv, NEW r \in Requests, NEW text \in Texts, req[r].tenant \in Tenants,
           req[r].op \in Limited \cup {"embed"},
           req[r].op = "embed" => text = req[r].text /\ ~text.readable,
           CallProvider(r, text)
    PROVE  \E q \in Request : /\ req' = [req EXCEPT ![r] = q]
                              /\ q.phase = "calling" /\ q.tenant = req[r].tenant
                              /\ RequestAgrees(q)
<1> DEFINE q == [req[r] EXCEPT !.phase = "calling", !.sent = SentText(req[r].op, text),
                               !.token = NoToken]
<1>1. req \in [Requests -> Request] /\ req[r] \in Request
  BY DEF IInv, TaskInv
<1>2. req' = [req EXCEPT ![r] = q]
  BY <1>1 DEF CallProvider, Request
<1>3. /\ SentText(req[r].op, text) \in Texts
      /\ req[r].op = "embed" => SentText(req[r].op, text) = text
  BY DEF SentText, Mask, Texts
<1>4. q \in Request
  BY <1>1, <1>3, DefaultTypes DEF Request, Phases
<1>5. /\ q.phase = "calling" /\ q.tenant = req[r].tenant /\ q.op = req[r].op
      /\ q.text = req[r].text /\ q.sent = SentText(req[r].op, text)
  BY <1>1 DEF Request
<1> HIDE DEF q
<1>6. RequestAgrees(q)
  BY <1>3, <1>5 DEF RequestAgrees, InCall
<1> QED
  BY <1>2, <1>4, <1>5, <1>6

LEMMA EmbedInvoiceKeeps ==
    ASSUME IInv, NEW r \in Requests, EmbedInvoice(r)
    PROVE  IInv'
<1>1. req[r] \in Request /\ RequestAgrees(req[r])
  BY DEF IInv, TaskInv, RequestsAgree
<1>2. /\ req[r].phase = "checked" /\ req[r].op = "embed" /\ req[r].tenant \in Tenants
      /\ req[r].text \in Texts /\ ~req[r].text.readable
  BY <1>1 DEF EmbedInvoice, RequestAgrees, Request
<1>3. LedgerInv'
  BY <1>2, CallKeepsLedger DEF EmbedInvoice, InCall
<1>4. PICK q \in Request : /\ req' = [req EXCEPT ![r] = q]
                           /\ q.phase = "calling" /\ q.tenant = req[r].tenant
                           /\ RequestAgrees(q)
  BY <1>2, CallAgrees DEF EmbedInvoice
<1>5. TaskInv'
  BY <1>2, <1>4, BecomeKeepsTasks DEF IInv, EmbedInvoice
<1>6. RowsInv' /\ LimiterInv'
  BY RowsStay, LimiterStays DEF IInv, EmbedInvoice
<1> QED
  BY <1>3, <1>5, <1>6 DEF IInv

\* The window of the tenant and what the tenant used of it advance together.
LEMMA AcceptedHit ==
    ASSUME IInv, NEW r \in Requests, req[r].phase = "authorized", req[r].op \in Limited,
           NEW key, key = TenantKey(req[r].token, req[r].ip), Current(hits[key]).n < Limit,
           hits' = [hits EXCEPT ![key] = Hit(@)],
           use' = IF Decodes(req[r].token) THEN [use EXCEPT ![req[r].tenant] = Hit(@)] ELSE use
    PROVE  LimiterInv'
<1>1. TypeOK
  BY PartsGiveTypes
<1>2. req[r] \in Request /\ RequestAgrees(req[r])
  BY DEF IInv, TaskInv, RequestsAgree
<1>3. req[r].tenant \in Tenants /\ req[r].token.tenant = req[r].tenant /\ req[r].ip \in Ips
  BY <1>2 DEF RequestAgrees, Request
<1>4. key \in Keys /\ hits[key] \in Quota
  BY <1>1, <1>3 DEF TenantKey, Keys, TypeOK
<1>5. Hit(hits[key]) \in Quota
  BY <1>1, <1>4, QuotaTypes
<1>6. hits' \in [Keys -> Quota]
  BY <1>1, <1>5 DEF TypeOK
<1>7. CASE Decodes(req[r].token)
  <2>1. key = req[r].tenant
    BY <1>3, <1>7 DEF TenantKey
  <2>2. use' = [use EXCEPT ![key] = Hit(@)] /\ hits[key] = use[key]
    BY <1>3, <1>7, <2>1 DEF IInv, LimiterInv, WindowIsOwn
  <2>3. use' \in [Contexts -> Quota]
    <3>1. use' = [use EXCEPT ![key] = Hit(hits[key])]
      BY <2>2
    <3> QED
      BY <1>1, <1>5, <3>1 DEF TypeOK
  <2>4. WindowIsOwn'
    BY <1>1, <2>2 DEF IInv, LimiterInv, WindowIsOwn, TypeOK, Contexts, Keys
  <2> QED
    BY <1>6, <2>3, <2>4 DEF LimiterInv
<1>8. CASE ~Decodes(req[r].token)
  <2>1. use' = use /\ key \notin Tenants
    BY <1>3, <1>8, RequestsAssumption DEF TenantKey
  <2>2. WindowIsOwn'
    BY <1>1, <2>1 DEF IInv, LimiterInv, WindowIsOwn, TypeOK, Keys
  <2> QED
    BY <1>6, <2>1, <2>2 DEF IInv, LimiterInv
<1> QED
  BY <1>7, <1>8

LEMMA ExtractKeeps ==
    ASSUME IInv, NEW r \in Requests, Extract(r)
    PROVE  IInv'
<1> DEFINE key == TenantKey(req[r].token, req[r].ip)
           t   == req[r].tenant
<1>1. TypeOK
  BY PartsGiveTypes
<1>2. req[r] \in Request /\ RequestAgrees(req[r])
  BY DEF IInv, TaskInv, RequestsAgree
<1>3. /\ req[r].phase = "authorized" /\ req[r].op \in Limited
      /\ UNCHANGED <<clock, invoices, rows, audit, lost>>
  BY DEF Extract
<1>4. req[r].tenant \in Tenants /\ req[r].ip \in Ips /\ key \in Keys
  BY <1>2, <1>3 DEF RequestAgrees, Request, TenantKey, Keys, Decodes
<1>5. Current(hits[key]).n \in 0 .. Limit
  <2>1. Current(hits[key]) \in Quota
    BY <1>1, <1>4, QuotaTypes DEF TypeOK
  <2> QED
    BY <2>1 DEF Quota
<1>6. CASE Current(hits[key]).n >= Limit
  <2>1. Raise(r, "RateLimitExceeded") /\ UNCHANGED <<hits, calls, use>>
    BY <1>6 DEF Extract
  <2> QED
    BY <1>3, <2>1, RaiseKeepsIInv DEF InCall
<1>7. CASE ~(Current(hits[key]).n >= Limit)
  <2>1. /\ hits' = [hits EXCEPT ![key] = Hit(@)]
        /\ use' = IF Decodes(req[r].token) THEN [use EXCEPT ![t] = Hit(@)] ELSE use
        /\ CallProvider(r, NoText)
        /\ IF req[r].op = "upload"
           THEN /\ answer' = [None EXCEPT !.status = 201, !.to = t]
                /\ ctx' = SetContext(r, t)
           ELSE answer' = None /\ UNCHANGED ctx
    BY <1>7 DEF Extract
  <2>2. Current(hits[key]).n < Limit
    BY <1>5, <1>7, RequestsAssumption
  <2>3. LimiterInv'
    BY <1>3, <2>1, <2>2, AcceptedHit
  <2>4. LedgerInv'
    BY <1>3, <2>1, CallKeepsLedger, DefaultTypes DEF InCall
  <2>5. req[r].op # "embed"
    BY <1>3 DEF Limited
  <2>6. PICK q \in Request : /\ req' = [req EXCEPT ![r] = q]
                             /\ q.phase = "calling" /\ q.tenant = req[r].tenant
                             /\ RequestAgrees(q)
    BY <1>3, <1>4, <2>1, <2>5, CallAgrees, DefaultTypes
  <2>7. TaskInv'
    <3>1. req' \in [Requests -> Request] /\ RequestsAgree'
      BY <2>6 DEF IInv, TaskInv, RequestsAgree
    <3>2. ctx' = ctx
      <4>1. ctx[r] = t /\ ctx \in [Requests -> Contexts]
        BY <1>3 DEF IInv, TaskInv, ContextIsOwn
      <4> QED
        BY <2>1, <4>1 DEF SetContext
    <3>3. ctx' \in [Requests -> Contexts] /\ ContextIsOwn'
      BY <1>3, <2>6, <3>2 DEF IInv, TaskInv, ContextIsOwn
    <3>4. answer' \in Answers /\ answer'.found = {}
      <4>1. answer' = None \/ answer' = [None EXCEPT !.status = 201, !.to = t]
        BY <2>1
      <4>2. t \in Contexts
        BY <1>4 DEF Contexts
      <4>3. CASE answer' = None
        BY <4>3, DefaultTypes
      <4>4. CASE answer' = [None EXCEPT !.status = 201, !.to = t]
        <5>1. answer' = [status |-> 201, to |-> t, token |-> NoToken, found |-> {}]
          BY <4>4 DEF None
        <5> HIDE DEF t
        <5> QED
          BY <4>2, <5>1, DefaultTypes DEF Answers
      <4> QED
        BY <4>1, <4>3, <4>4
    <3> QED
      BY <3>1, <3>3, <3>4 DEF TaskInv, FoundAreOwn
  <2>8. RowsInv'
    BY <1>3, RowsStay DEF IInv
  <2> QED
    BY <2>3, <2>4, <2>7, <2>8 DEF IInv
<1> QED
  BY <1>6, <1>7

LEMMA LoadInvoiceKeeps ==
    ASSUME IInv, NEW r \in Requests, LoadInvoice(r)
    PROVE  IInv'
<1> DEFINE i == req[r].invoice
           text == [invoice |-> i, version |-> invoices[i], readable |-> TRUE]
           q == [req[r] EXCEPT !.phase = "loaded", !.text = text]
<1>1. req[r] \in Request /\ RequestAgrees(req[r])
  BY DEF IInv, TaskInv, RequestsAgree
<1>2. /\ req[r].phase = "authorized"
      /\ UNCHANGED <<clock, invoices, rows, audit, hits, calls, lost, use>>
  BY DEF LoadInvoice
<1>3. CASE invoices[i] = 0
  BY <1>2, <1>3, RaiseKeepsIInv DEF LoadInvoice, InCall
<1>4. CASE invoices[i] # 0
  <2>1. Become(r, q)
    BY <1>4 DEF LoadInvoice
  <2>2. invoices[i] \in 1 .. MaxVersion
    BY <1>1, <1>4, RequestsAssumption DEF IInv, RowsInv, Request
  <2>3. q \in Request
    BY <1>1, <2>2 DEF Request, Texts, Phases
  <2>4. q.phase = "loaded" /\ q.tenant = req[r].tenant
    BY <1>1 DEF Request
  <2>5. RequestAgrees(q)
    BY <1>1, <1>2, <2>4 DEF RequestAgrees, InCall
  <2> HIDE DEF q
  <2> QED
    BY <1>2, <2>1, <2>3, <2>4, <2>5, BecomeKeepsIInv DEF InCall
<1> QED
  BY <1>3, <1>4

LEMMA CheckExistingKeeps ==
    ASSUME IInv, NEW r \in Requests, CheckExisting(r)
    PROVE  IInv'
<1> DEFINE q == [req[r] EXCEPT !.phase = "checked", !.text = Mask(req[r].text)]
<1>1. req[r] \in Request /\ RequestAgrees(req[r])
  BY DEF IInv, TaskInv, RequestsAgree
<1>2. /\ req[r].phase = "loaded" /\ req[r].op = "embed"
      /\ UNCHANGED <<clock, invoices, rows, audit, hits, calls, lost, use>>
      /\ \/ Raise(r, "MultipleResultsFound")
         \/ Raise(r, "HTTP 409")
         \/ Become(r, q)
  BY DEF CheckExisting
<1>3. CASE Raise(r, "MultipleResultsFound") \/ Raise(r, "HTTP 409")
  BY <1>2, <1>3, RaiseKeepsIInv DEF InCall
<1>4. CASE Become(r, q)
  <2>1. Mask(req[r].text) \in Texts /\ ~Mask(req[r].text).readable
    BY <1>1 DEF Mask, Texts, Request
  <2>2. q \in Request /\ q.phase = "checked" /\ q.tenant = req[r].tenant /\ q.op = "embed"
        /\ ~q.text.readable
    BY <1>1, <1>2, <2>1 DEF Request, Phases
  <2>3. RequestAgrees(q)
    BY <1>1, <1>2, <2>2 DEF RequestAgrees, InCall
  <2> HIDE DEF q
  <2> QED
    BY <1>2, <1>4, <2>2, <2>3, BecomeKeepsIInv DEF InCall
<1> QED
  BY <1>2, <1>3, <1>4

LEMMA ProviderReturnsKeeps ==
    ASSUME IInv, NEW r \in Requests, ProviderReturns(r)
    PROVE  IInv'
<1>1. req[r] \in Request /\ RequestAgrees(req[r])
  BY DEF IInv, TaskInv, RequestsAgree
<1>2. PICK ok \in BOOLEAN : Become(r, [req[r] EXCEPT !.phase = "returned", !.ok = ok])
  BY DEF ProviderReturns
<1>3. /\ req[r].phase = "calling"
      /\ UNCHANGED <<clock, invoices, rows, audit, hits, calls, lost, use>>
  BY DEF ProviderReturns
<1> DEFINE q == [req[r] EXCEPT !.phase = "returned", !.ok = ok]
<1>4. /\ q \in Request /\ q.phase = "returned" /\ q.tenant = req[r].tenant
      /\ q.op = req[r].op /\ q.text = req[r].text /\ q.sent = req[r].sent
  BY <1>1 DEF Request, Phases
<1> HIDE DEF q
<1>5. RequestAgrees(q)
  BY <1>1, <1>3, <1>4 DEF RequestAgrees, InCall
<1>6. Become(r, q)
  BY <1>2 DEF q
<1> QED
  BY <1>3, <1>4, <1>5, <1>6, BecomeKeepsIInv DEF InCall

\* The entry that ends a call is saved, or lost, under the tenant of its token.
LEMMA RecordKeepsLedger ==
    ASSUME IInv, NEW r \in Requests, req[r].phase = "returned", Save(ctx[r]),
           NEW q, q.phase \notin InCall, req' = [req EXCEPT ![r] = q], UNCHANGED calls
    PROVE  LedgerInv'
<1>1. TypeOK
  BY PartsGiveTypes
<1>2. ctx[r] = req[r].tenant /\ ctx[r] \in Contexts
  BY DEF IInv, TaskInv, ContextIsOwn
<1>3. \A t \in Contexts : /\ ~IsCalling(q, t)
                          /\ IsCalling(req[r], t) <=> t = ctx[r]
  BY <1>2 DEF IsCalling, InCall
<1>4. audit' \in [Contexts -> Nat] /\ lost' \in [Contexts -> Nat]
  BY <1>1, <1>2 DEF Save, TypeOK
<1>5. AuditAccountsForCalls'
  <2> SUFFICES ASSUME NEW t \in Contexts
               PROVE  audit'[t] + lost'[t] + Cardinality(Calling(t))' = calls[t]
    BY DEF AuditAccountsForCalls
  <2>1. Cardinality(Calling(t))' = Cardinality(Calling(t))
          + (IF IsCalling(q, t) THEN 1 ELSE 0) - (IF IsCalling(req[r], t) THEN 1 ELSE 0)
    BY <1>1, CallingChanges
  <2>2. Cardinality(Calling(t)) \in Nat /\ audit[t] \in Nat /\ lost[t] \in Nat /\ calls[t] \in Nat
    BY <1>1, CallingIsFinite DEF TypeOK
  <2>3. audit[t] + lost[t] + Cardinality(Calling(t)) = calls[t]
    BY DEF IInv, LedgerInv, AuditAccountsForCalls
  <2>4. audit'[t] + lost'[t] = IF t = ctx[r] THEN audit[t] + lost[t] + 1 ELSE audit[t] + lost[t]
    BY <1>1, <1>2, <2>2 DEF Save, TypeOK
  <2>5. Cardinality(Calling(t))' =
          IF t = ctx[r] THEN Cardinality(Calling(t)) - 1 ELSE Cardinality(Calling(t))
    BY <1>3, <2>1, <2>2
  <2>6. audit'[t] \in Nat /\ lost'[t] \in Nat
    BY <1>4
  <2> QED
    BY <2>2, <2>3, <2>4, <2>5, <2>6
<1> QED
  BY <1>1, <1>4, <1>5 DEF LedgerInv, TypeOK

LEMMA RecordKeeps ==
    ASSUME IInv, NEW r \in Requests, Record(r)
    PROVE  IInv'
<1>1. TypeOK
  BY PartsGiveTypes
<1>2. req[r] \in Request /\ RequestAgrees(req[r])
  BY DEF IInv, TaskInv, RequestsAgree
<1>3. /\ req[r].phase = "returned" /\ Save(ctx[r])
      /\ UNCHANGED <<clock, invoices, rows, hits, calls, use>>
  BY DEF Record
<1>4. RowsInv' /\ LimiterInv'
  BY <1>3, RowsStay, LimiterStays DEF IInv
<1>5. req[r].op \in {"embed", "extract", "upload"}
  BY <1>2, <1>3 DEF RequestAgrees, InCall, Limited
<1>6. CASE req[r].op = "embed" /\ req[r].ok
  <2> DEFINE q == [req[r] EXCEPT !.phase = "recorded"]
  <2>1. Become(r, q)
    BY <1>6 DEF Record, Advance
  <2>2. /\ q \in Request /\ q.phase = "recorded" /\ q.tenant = req[r].tenant
        /\ q.op = req[r].op /\ q.text = req[r].text /\ q.sent = req[r].sent
    BY <1>2 DEF Request, Phases
  <2> HIDE DEF q
  <2>3. RequestAgrees(q)
    BY <1>2, <1>3, <1>6, <2>2 DEF RequestAgrees, InCall
  <2>4. TaskInv'
    BY <1>3, <2>1, <2>2, <2>3, BecomeKeepsTasks DEF IInv, Become
  <2>5. LedgerInv'
    BY <1>3, <2>1, <2>2, RecordKeepsLedger DEF Become, InCall
  <2> QED
    BY <1>4, <2>4, <2>5 DEF IInv
<1>7. CASE ~(req[r].op = "embed" /\ req[r].ok)
  <2>1. req' = [req EXCEPT ![r] = Idle]
    BY <1>5, <1>7 DEF Record, Answer, Raise
  <2>2. LedgerInv'
    BY <1>3, <2>1, RecordKeepsLedger, DefaultTypes DEF InCall
  <2>3. CASE req[r].op = "embed"
    <3>1. Raise(r, "RuntimeError")
      BY <1>7, <2>3 DEF Record
    <3> QED
      BY <1>1, <1>4, <2>2, <3>1, RaiseKeepsTasks DEF IInv
  <2>4. CASE req[r].op = "extract"
    <3>1. Answer(r, 200, {})
      BY <2>4 DEF Record
    <3>2. TaskInv'
      BY <1>1, <3>1, AnswerKeepsTasks DEF IInv, Statuses
    <3> QED
      BY <1>4, <2>2, <3>2 DEF IInv
  <2>5. CASE req[r].op = "upload"
    <3>1. ctx' = [ctx EXCEPT ![r] = System] /\ answer' = None
      BY <2>5 DEF Record, SetContext
    <3>2. req' \in [Requests -> Request] /\ ctx' \in [Requests -> Contexts]
      BY <1>1, <2>1, <3>1, DefaultTypes DEF TypeOK, Contexts
    <3>3. answer' \in Answers /\ FoundAreOwn'
      BY <3>1, DefaultTypes DEF FoundAreOwn
    <3>4. RequestsAgree' /\ ContextIsOwn'
      BY <2>1, <3>1, IdleAgrees, DefaultTypes DEF IInv, TaskInv, RequestsAgree, ContextIsOwn
    <3>5. TaskInv'
      BY <3>2, <3>3, <3>4 DEF TaskInv
    <3> QED
      BY <1>4, <2>2, <3>5 DEF IInv
  <2> QED
    BY <1>5, <2>3, <2>4, <2>5
<1> QED
  BY <1>6, <1>7

LEMMA InsertEmbeddingKeeps ==
    ASSUME IInv, NEW r \in Requests, InsertEmbedding(r)
    PROVE  IInv'
<1>1. TypeOK
  BY PartsGiveTypes
<1>2. req[r] \in Request /\ RequestAgrees(req[r])
  BY DEF IInv, TaskInv, RequestsAgree
<1>3. /\ req[r].phase = "recorded"
      /\ UNCHANGED <<clock, invoices, audit, hits, calls, lost, use>>
  BY DEF InsertEmbedding
<1>4. CASE invoices[req[r].invoice] = 0
  <2>1. Raise(r, "IntegrityError") /\ UNCHANGED rows
    BY <1>4 DEF InsertEmbedding
  <2> QED
    BY <1>3, <2>1, RaiseKeepsIInv DEF InCall
<1>5. CASE invoices[req[r].invoice] # 0
  <2> DEFINE q == [req[r] EXCEPT !.phase = "committed"]
  <2>1. rows' = rows \cup {NewRow(r)} /\ Become(r, q)
    BY <1>5 DEF InsertEmbedding, Advance
  <2>2. q \in Request /\ q.phase = "committed" /\ q.tenant = req[r].tenant
    BY <1>2 DEF Request, Phases
  <2> HIDE DEF q
  <2>3. RequestAgrees(q)
    BY <1>2, <1>3, <2>2 DEF RequestAgrees, InCall
  <2>4. TaskInv'
    BY <1>3, <2>1, <2>2, <2>3, BecomeKeepsTasks DEF IInv, Become
  <2>5. LedgerInv'
    <3>1. \A t \in Contexts : ~IsCalling(q, t) /\ ~IsCalling(req[r], t)
      BY <1>3, <2>2 DEF IsCalling, InCall
    <3> QED
      BY <1>1, <1>3, <2>1, <3>1, LedgerStays DEF IInv, Become
  <2>6. LimiterInv'
    BY <1>3, LimiterStays DEF IInv
  <2>7. RowsInv'
    <3>1. NewRow(r) \in Embedding
      BY <1>1, <1>2, <1>3, NewRowIsEmbedding DEF RequestAgrees
    <3>2. NewRow(r).vector = NewRow(r).text /\ ~NewRow(r).text.readable
      BY <1>2, <1>3 DEF NewRow, RequestAgrees, InCall
    <3>3. IsFiniteSet(rows')
      BY <1>1, <2>1, FS_AddElement DEF TypeOK
    <3> QED
      BY <1>3, <2>1, <3>1, <3>2, <3>3 DEF IInv, RowsInv, VectorOfText
  <2> QED
    BY <2>4, <2>5, <2>6, <2>7 DEF IInv
<1> QED
  BY <1>4, <1>5

\* The steps that only read, and answer with rows of the tenant of the task.
LEMMA RefreshEmbeddingKeeps ==
    ASSUME IInv, NEW r \in Requests, RefreshEmbedding(r)
    PROVE  IInv'
<1>1. Existing(r) \in SUBSET OwnRows(r) /\ 201 \in Statuses
  BY DEF Existing, Statuses
<1>2. \/ Raise(r, "InvalidRequestError")
     \/ Answer(r, 201, Existing(r))
  BY DEF RefreshEmbedding
<1> QED
  BY <1>1, <1>2, RaiseKeepsIInv, AnswerKeepsIInv DEF RefreshEmbedding, InCall

LEMMA LoadSourceKeeps ==
    ASSUME IInv, NEW r \in Requests, LoadSource(r)
    PROVE  IInv'
<1> DEFINE q == [req[r] EXCEPT !.phase = "loaded"]
<1>1. req[r] \in Request /\ RequestAgrees(req[r])
  BY DEF IInv, TaskInv, RequestsAgree
<1>2. /\ req[r].phase = "authorized"
      /\ UNCHANGED <<clock, invoices, rows, audit, hits, calls, lost, use>>
      /\ \/ Raise(r, "MultipleResultsFound")
         \/ Raise(r, "HTTP 404")
         \/ Become(r, q)
  BY DEF LoadSource, Advance
<1>3. CASE Raise(r, "MultipleResultsFound") \/ Raise(r, "HTTP 404")
  BY <1>2, <1>3, RaiseKeepsIInv DEF InCall
<1>4. CASE Become(r, q)
  <2>1. q \in Request /\ q.phase = "loaded" /\ q.tenant = req[r].tenant
    BY <1>1 DEF Request, Phases
  <2>2. RequestAgrees(q)
    BY <1>1, <1>2, <2>1 DEF RequestAgrees, InCall
  <2> HIDE DEF q
  <2> QED
    BY <1>2, <1>4, <2>1, <2>2, BecomeKeepsIInv DEF InCall
<1> QED
  BY <1>2, <1>3, <1>4

LEMMA FindSimilarKeeps ==
    ASSUME IInv, NEW r \in Requests, FindSimilar(r)
    PROVE  IInv'
<1>1. OwnRows(r) \in SUBSET OwnRows(r) /\ 200 \in Statuses
  BY DEF Statuses
<1> QED
  BY <1>1, AnswerKeepsIInv DEF FindSimilar, InCall

LEMMA ListAuditKeeps ==
    ASSUME IInv, NEW r \in Requests, ListAudit(r)
    PROVE  IInv'
<1>1. {} \in SUBSET OwnRows(r) /\ 200 \in Statuses
  BY DEF Statuses
<1> QED
  BY <1>1, AnswerKeepsIInv DEF ListAudit, InCall

-----------------------------------------------------------------------------
(* The world, and the whole *)

LEMMA TasksStay ==
    ASSUME IInv, UNCHANGED <<req, ctx>>, answer' = None
    PROVE  TaskInv'
BY DefaultTypes DEF IInv, TaskInv, RequestsAgree, ContextIsOwn, FoundAreOwn

LEMMA LedgerStaysWithTasks ==
    ASSUME IInv, UNCHANGED <<req, audit, calls, lost>>
    PROVE  LedgerInv'
<1>1. \A t \in Contexts : Calling(t)' = Calling(t)
  BY DEF Calling
<1> QED
  BY <1>1 DEF IInv, LedgerInv, AuditAccountsForCalls

LEMMA ChangeInvoiceKeeps ==
    ASSUME IInv, NEW i \in Invoices, ChangeInvoice(i)
    PROVE  IInv'
<1>1. TaskInv' /\ LedgerInv' /\ LimiterInv'
  BY TasksStay, LedgerStaysWithTasks, LimiterStays DEF IInv, ChangeInvoice
<1>2. invoices' \in [Invoices -> 0 .. MaxVersion]
  <2>1. invoices[i] \in 1 .. MaxVersion - 1 /\ invoices \in [Invoices -> 0 .. MaxVersion]
    BY DEF ChangeInvoice, IInv, RowsInv
  <2>2. invoices[i] + 1 \in 0 .. MaxVersion /\ 0 \in 0 .. MaxVersion
    BY <2>1, RequestsAssumption
  <2>3. \/ invoices' = [invoices EXCEPT ![i] = invoices[i] + 1]
       \/ invoices' = [invoices EXCEPT ![i] = 0]
    BY DEF ChangeInvoice
  <2> QED
    BY <2>1, <2>2, <2>3
<1>3. rows' \in SUBSET rows /\ clock' = clock
  BY DEF ChangeInvoice
<1>4. IsFiniteSet(rows')
  BY <1>3, FS_Subset DEF IInv, RowsInv
<1>5. RowsInv'
  BY <1>2, <1>3, <1>4 DEF IInv, RowsInv, VectorOfText
<1> QED
  BY <1>1, <1>5 DEF IInv

LEMMA TickKeeps ==
    ASSUME IInv, Tick
    PROVE  IInv'
<1>1. TaskInv' /\ LedgerInv' /\ LimiterInv'
  BY TasksStay, LedgerStaysWithTasks, LimiterStays DEF IInv, Tick
<1>2. clock' \in 0 .. MaxTime
  BY RequestsAssumption DEF IInv, RowsInv, Tick
<1>3. RowsInv'
  BY <1>2 DEF IInv, RowsInv, VectorOfText, Tick
<1> QED
  BY <1>1, <1>3 DEF IInv

LEMMA EmptyWindows ==
    ASSUME NEW windows, windows = [k \in Keys |-> [n |-> 0, until |-> 0]],
           NEW uses, uses = [t \in Contexts |-> [n |-> 0, until |-> 0]]
    PROVE  /\ windows \in [Keys -> Quota] /\ uses \in [Contexts -> Quota]
           /\ \A t \in Tenants : windows[t] = uses[t]
BY RequestsAssumption DEF Keys, Contexts, Quota

LEMMA CrashKeeps ==
    ASSUME IInv, Crash
    PROVE  IInv'
<1>1. TypeOK
  BY PartsGiveTypes
<1>2. req' = [r \in Requests |-> Idle] /\ ctx' = [r \in Requests |-> System] /\ answer' = None
  BY DEF Crash
<1>3. TaskInv'
  <2>1. req' \in [Requests -> Request] /\ ctx' \in [Requests -> Contexts]
    BY <1>2, DefaultTypes DEF Contexts
  <2>2. answer' \in Answers /\ FoundAreOwn'
    BY <1>2, DefaultTypes DEF FoundAreOwn
  <2>3. RequestsAgree' /\ ContextIsOwn'
    BY <1>2, IdleAgrees, DefaultTypes DEF RequestsAgree, ContextIsOwn
  <2> QED
    BY <2>1, <2>2, <2>3 DEF TaskInv
<1>4. LimiterInv'
  BY EmptyWindows DEF Crash, LimiterInv, WindowIsOwn
<1>5. RowsInv'
  BY RowsStay DEF IInv, Crash
<1>6. LedgerInv'
  <2>1. \A t \in Contexts : Cardinality(Calling(t)) \in Nat
    BY CallingIsFinite
  <2>2. lost' = [t \in Contexts |-> lost[t] + Cardinality(Calling(t))]
        /\ audit' = audit /\ calls' = calls
    BY DEF Crash
  <2>3. lost' \in [Contexts -> Nat]
    BY <1>1, <2>1, <2>2 DEF TypeOK
  <2>4. AuditAccountsForCalls'
    <3> SUFFICES ASSUME NEW t \in Contexts
                 PROVE  audit[t] + lost'[t] + Cardinality(Calling(t))' = calls[t]
      BY <2>2 DEF AuditAccountsForCalls
    <3>1. Calling(t)' = {}
      BY <1>2, DefaultTypes DEF Calling
    <3>2. Cardinality(Calling(t))' = 0
      BY <3>1, FS_EmptySet
    <3>3. lost'[t] = lost[t] + Cardinality(Calling(t))
      BY <2>2
    <3>4. audit[t] + lost[t] + Cardinality(Calling(t)) = calls[t]
      BY DEF IInv, LedgerInv, AuditAccountsForCalls
    <3>5. audit[t] \in Nat /\ lost[t] \in Nat
      BY <1>1 DEF TypeOK
    <3> QED
      BY <2>1, <3>2, <3>3, <3>4, <3>5
  <2> QED
    BY <1>1, <2>2, <2>3, <2>4 DEF LedgerInv, TypeOK
<1> QED
  BY <1>3, <1>4, <1>5, <1>6 DEF IInv

LEMMA InitHasIInv == Init => IInv
<1> SUFFICES ASSUME Init
             PROVE  IInv
  OBVIOUS
<1>1. TaskInv
  <2>1. req \in [Requests -> Request] /\ ctx \in [Requests -> Contexts] /\ answer \in Answers
    BY DefaultTypes DEF Init, Contexts
  <2>2. RequestsAgree /\ ContextIsOwn /\ FoundAreOwn
    BY IdleAgrees, DefaultTypes DEF Init, RequestsAgree, ContextIsOwn, FoundAreOwn
  <2> QED
    BY <2>1, <2>2 DEF TaskInv
<1>2. RowsInv
  BY RequestsAssumption, FS_EmptySet DEF Init, RowsInv, VectorOfText
<1>3. LedgerInv
  <2>1. audit \in [Contexts -> Nat] /\ calls \in [Contexts -> Nat] /\ lost \in [Contexts -> Nat]
    BY DEF Init
  <2>2. \A t \in Contexts : Calling(t) = {}
    BY DefaultTypes DEF Init, Calling
  <2>3. \A t \in Contexts : Cardinality(Calling(t)) = 0
    BY <2>2, FS_EmptySet
  <2>4. \A t \in Contexts : audit[t] = 0 /\ calls[t] = 0 /\ lost[t] = 0
    BY DEF Init
  <2> QED
    BY <2>1, <2>3, <2>4 DEF LedgerInv, AuditAccountsForCalls
<1>4. LimiterInv
  BY EmptyWindows DEF Init, LimiterInv, WindowIsOwn
<1> QED
  BY <1>1, <1>2, <1>3, <1>4 DEF IInv

LEMMA StepKeepsIInv == IInv /\ [Next]_vars => IInv'
<1> SUFFICES ASSUME IInv, [Next]_vars
             PROVE  IInv'
  OBVIOUS
<1>1. ASSUME NEW r \in Requests, Arrive(r) PROVE IInv'
  BY <1>1, ArriveKeeps
<1>2. ASSUME NEW r \in Requests, Progress(r) PROVE IInv'
  BY <1>2, ExtractKeeps, LoadInvoiceKeeps, CheckExistingKeeps, EmbedInvoiceKeeps,
     ProviderReturnsKeeps, RecordKeeps, InsertEmbeddingKeeps, RefreshEmbeddingKeeps,
     LoadSourceKeeps, FindSimilarKeeps, ListAuditKeeps DEF Progress
<1>3. ASSUME NEW i \in Invoices, ChangeInvoice(i) PROVE IInv'
  BY <1>3, ChangeInvoiceKeeps
<1>4. CASE Tick
  BY <1>4, TickKeeps
<1>5. CASE Crash
  BY <1>5, CrashKeeps
<1>6. CASE UNCHANGED vars
  <2>1. TaskInv'
    BY <1>6 DEF vars, IInv, TaskInv, RequestsAgree, ContextIsOwn, FoundAreOwn
  <2>2. RowsInv' /\ LedgerInv' /\ LimiterInv'
    BY <1>6, RowsStay, LedgerStaysWithTasks, LimiterStays DEF vars, IInv
  <2> QED
    BY <2>1, <2>2 DEF IInv
<1> QED
  BY <1>1, <1>2, <1>3, <1>4, <1>5, <1>6 DEF Next

\* Whatever the tasks, the edits of the invoices and the crashes do to one another,
\* the invariant of the module holds.
THEOREM RequestsInvariant == Spec => []IInv
<1> QED
  BY InitHasIInv, StepKeepsIInv, PTL DEF Spec

-----------------------------------------------------------------------------
(* What it says about the program *)

\* A stored vector was computed from the text stored with it, with no readable
\* personal data, though its invoice may be edited or deleted during the call, and a
\* request is answered with embeddings of the tenant of its token only
\* (embed_invoice, find_similar).
THEOREM EmbeddingsTheorem == Spec => []EmbeddingsAreSound
<1>1. IInv => EmbeddingsAreSound
  BY PartsGiveTypes DEF IInv, TaskInv, RowsInv, EmbeddingsAreSound
<1> QED
  BY <1>1, RequestsInvariant, PTL

\* Every call of the provider is in the audit of the tenant whose token asked for it,
\* under way, or its entry was lost with an error or a crash: no other task's context
\* reaches the finally that writes the entry (_record).
THEOREM AuditTheorem == Spec => []AuditAccountsForCalls
<1>1. IInv => AuditAccountsForCalls
  BY DEF IInv, LedgerInv
<1> QED
  BY <1>1, RequestsInvariant, PTL

\* What the steps raise, apart from the limiter's exception.
OtherErrors == {"HTTP 401", "HTTP 404", "HTTP 409", "MultipleResultsFound", "IntegrityError",
                "InvalidRequestError", "RuntimeError"}

\* While a token is valid, only what its own tenant used of the window refuses it
\* (tenant_key): no other tenant and no anonymous client at the same address does.
THEOREM QuotaTheorem == Spec => QuotaPerTenant
<1>1. ASSUME IInv, [Next]_vars
      PROVE  [answer'.status = 429 /\ Decodes(answer'.token)
              => Current(use[answer'.to]).n = Limit]_vars
  <2> SUFFICES ASSUME Next, answer'.status = 429, Decodes(answer'.token)
               PROVE  Current(use[answer'.to]).n = Limit
    BY <1>1
  <2>1. None.status # 429
    BY DefaultTypes
  <2>2. \A error \in OtherErrors : StatusOf(error) # 429
    <3> SUFFICES ASSUME NEW error \in OtherErrors
                 PROVE  StatusOf(error) # 429
      OBVIOUS
    <3>1. error # "RateLimitExceeded"
      BY DEF OtherErrors
    <3>2. StatusOf(error) \in {401, 404, 409, 500}
      BY <3>1 DEF StatusOf
    <3> QED
      BY <3>2
  <2>3. PICK r \in Requests : Extract(r)
    <3>1. ASSUME NEW r \in Requests, Arrive(r) PROVE FALSE
      <4>1. \/ answer' = [None EXCEPT !.status = StatusOf("HTTP 401")]
           \/ answer' = None
        BY <3>1 DEF Arrive
      <4>2. CASE answer' = [None EXCEPT !.status = StatusOf("HTTP 401")]
        <5>1. answer'.status = StatusOf("HTTP 401")
          BY <4>2 DEF None
        <5>2. StatusOf("HTTP 401") # 429
          BY <2>2 DEF OtherErrors
        <5> QED
          BY <5>1, <5>2
      <4>3. CASE answer' = None
        BY <2>1, <4>3
      <4> QED
        BY <4>1, <4>2, <4>3
    <3>2. ASSUME NEW r \in Requests, Progress(r), ~Extract(r) PROVE FALSE
      <4>1. ASSUME NEW error \in OtherErrors PROVE ~Raise(r, error)
        BY <2>2, <4>1 DEF Raise, Answer
      <4>2. ASSUME NEW found, Answer(r, 200, found) \/ Answer(r, 201, found) PROVE FALSE
        BY <4>2 DEF Answer
      <4>3. answer' # None
        BY <2>1
      <4>4. req[r].phase = "returned" => req[r].op \in Limited \cup {"embed"}
        BY <1>1 DEF IInv, TaskInv, RequestsAgree, RequestAgrees, InCall
      <4>5. CASE LoadInvoice(r) \/ CheckExisting(r) \/ EmbedInvoice(r) \/ InsertEmbedding(r)
        BY <4>1, <4>3, <4>5 DEF LoadInvoice, CheckExisting, EmbedInvoice, InsertEmbedding,
           OtherErrors, Become, Advance
      <4>6. CASE ProviderReturns(r) \/ Record(r)
        BY <4>1, <4>2, <4>3, <4>4, <4>6 DEF ProviderReturns, Record, OtherErrors, Become,
           Advance, Limited
      <4>7. CASE RefreshEmbedding(r) \/ LoadSource(r) \/ FindSimilar(r) \/ ListAudit(r)
        BY <4>1, <4>2, <4>3, <4>7 DEF RefreshEmbedding, LoadSource, FindSimilar, ListAudit,
           OtherErrors, Become, Advance
      <4> QED
        BY <3>2, <4>5, <4>6, <4>7 DEF Progress
    <3>3. ASSUME (\E i \in Invoices : ChangeInvoice(i)) \/ Tick \/ Crash PROVE FALSE
      BY <2>1, <3>3 DEF ChangeInvoice, Tick, Crash
    <3> QED
      BY <3>1, <3>2, <3>3 DEF Next
  <2> DEFINE key == TenantKey(req[r].token, req[r].ip)
             t   == req[r].tenant
  <2>4. req[r] \in Request /\ RequestAgrees(req[r]) /\ TypeOK
    BY <1>1, PartsGiveTypes DEF IInv, TaskInv, RequestsAgree
  <2>5. /\ req[r].phase = "authorized" /\ req[r].op \in Limited
        /\ Current(hits[key]).n >= Limit /\ Raise(r, "RateLimitExceeded")
    <3>1. req[r].phase = "authorized" /\ req[r].op \in Limited
      BY <2>3 DEF Extract
    <3>2. CASE Current(hits[key]).n >= Limit
      BY <2>3, <3>1, <3>2 DEF Extract
    <3>3. CASE ~(Current(hits[key]).n >= Limit)
      <4>1. answer' = [None EXCEPT !.status = 201, !.to = t] \/ answer' = None
        BY <2>3, <3>3 DEF Extract
      <4>2. CASE answer' = None
        BY <2>1, <4>2
      <4>3. CASE answer' = [None EXCEPT !.status = 201, !.to = t]
        <5>1. answer'.status = 201
          BY <4>3 DEF None
        <5> QED
          BY <5>1
      <4> QED
        BY <4>1, <4>2, <4>3
    <3> QED
      BY <3>2, <3>3
  <2>6. answer'.to = t /\ Decodes(req[r].token)
    BY <2>5 DEF Raise, Answer
  <2>7. t \in Tenants /\ key = t
    BY <2>4, <2>5, <2>6 DEF RequestAgrees, TenantKey
  <2>8. Current(use[t]) = Current(hits[key])
    BY <1>1, <2>7 DEF IInv, LimiterInv, WindowIsOwn
  <2>9. Current(use[t]).n \in 0 .. Limit
    <3>1. use[t] \in Quota
      BY <2>4, <2>7 DEF TypeOK, Contexts
    <3>2. Current(use[t]) \in Quota
      BY <2>4, <3>1, QuotaTypes
    <3> QED
      BY <3>2 DEF Quota
  <2> QED
    BY <2>5, <2>6, <2>8, <2>9, RequestsAssumption
<1> QED
  BY <1>1, RequestsInvariant, PTL DEF Spec, QuotaPerTenant
=============================================================================
