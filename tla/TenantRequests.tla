--------------------------- MODULE TenantRequests ---------------------------
(***************************************************************************)
(* Requests of several tenants in one worker: the bearer token, the tenant *)
(* held in a context variable of the task, the rate limiter, the audited   *)
(* calls of the AI provider, the embeddings they produce and the mapping   *)
(* of errors to answers.  A step runs from one await to the next.          *)
(*                                                                         *)
(* A text is what its invoice said when it was read: the invoice, the      *)
(* version of its fields, and whether personal data is still readable.     *)
(* The vector of a text stands for itself: a vector is the text it was     *)
(* computed from.                                                          *)
(***************************************************************************)
EXTENDS Naturals, FiniteSets, FiniteSetsExt

CONSTANTS
    Requests,     \* tasks of the event loop, each serving one request at a time
    Tenants,      \* tenants with users
    System,       \* the default of the context variable
    Ips,          \* addresses requests come from
    Invoices,     \* invoice ids
    Ttl,          \* jwt_ttl_minutes, in units of the clock
    Window,       \* length of the limiter's window
    Limit,        \* rate_limit_default_per_tenant
    MaxTime,      \* bound of the clock
    MaxVersion,   \* bound of the edits of an invoice
    MaxCalls      \* bound of the calls of the provider

ASSUME RequestsAssumption ==
    /\ System \notin Tenants /\ Tenants \cap Ips = {}
    /\ IsFiniteSet(Requests) /\ Ips # {} /\ Invoices # {}
    /\ Ttl \in Nat \ {0} /\ Window \in Nat \ {0} /\ Limit \in Nat \ {0}
    /\ MaxTime \in Nat /\ MaxVersion \in Nat \ {0} /\ MaxCalls \in Nat

VARIABLES
    clock,     \* the wall clock
    invoices,  \* the version of each invoice row; 0 once it is deleted
    rows,      \* invoice_embeddings
    audit,     \* llm_audit_entries: how many of each tenant
    hits,      \* the limiter: accepted requests of each key in its window
    req,       \* what each task is doing
    ctx,       \* current_tenant_var, as each task sees it
    answer,    \* the answer that this step sent, if it sent one
    calls,     \* history: provider calls made for the tenant of the token
    lost,      \* history: audit entries that were not saved
    use        \* history: limited requests accepted for each tenant

vars == <<clock, invoices, rows, audit, hits, req, ctx, answer, calls, lost, use>>

Contexts == Tenants \cup {System}
Keys     == Tenants \cup Ips
Ops      == {"embed", "similar", "llm-calls", "extract", "upload"}
Limited  == {"extract", "upload"}   \* endpoints decorated with the limiter
Texts    == [invoice : Invoices, version : 1 .. MaxVersion, readable : BOOLEAN]
NoToken  == [tenant |-> System, exp |-> 0]   \* missing, forged or malformed
NoText   == [invoice |-> CHOOSE i \in Invoices : TRUE, version |-> 1, readable |-> FALSE]
Idle     == [phase |-> "idle", op |-> "embed", tenant |-> System, token |-> NoToken,
             ip |-> CHOOSE i \in Ips : TRUE, invoice |-> CHOOSE i \in Invoices : TRUE,
             text |-> NoText, sent |-> NoText, ok |-> TRUE]

Token     == [tenant : Contexts, exp : 0 .. MaxTime + Ttl]
Embedding == [id : Nat, tenant : Tenants, invoice : Invoices, text : Texts, vector : Texts]
Quota     == [n : 0 .. Limit, until : 0 .. MaxTime + Window]
Phases    == {"idle", "authorized", "loaded", "checked", "calling", "returned", "recorded",
              "committed"}
Request   == [phase : Phases, op : Ops, tenant : Contexts, token : Token, ip : Ips,
              invoice : Invoices, text : Texts, sent : Texts, ok : BOOLEAN]
None      == [status |-> 0, to |-> System, token |-> NoToken, found |-> {}]
Answers   == [status : {0, 200, 201, 401, 404, 409, 429, 500},
              to : Contexts, token : Token, found : SUBSET Embedding]

Calling(t) == {r \in Requests : req[r].phase \in {"calling", "returned"} /\ req[r].tenant = t}

TypeOK ==
    /\ clock \in 0 .. MaxTime
    /\ invoices \in [Invoices -> 0 .. MaxVersion]
    /\ rows \subseteq Embedding /\ IsFiniteSet(rows)
    /\ audit \in [Contexts -> Nat] /\ calls \in [Contexts -> Nat] /\ lost \in [Contexts -> Nat]
    /\ hits \in [Keys -> Quota] /\ use \in [Contexts -> Quota]
    /\ ctx \in [Requests -> Contexts]
    /\ answer \in Answers
    /\ req \in [Requests -> Request]

Init ==
    /\ clock = 0 /\ rows = {}
    /\ invoices = [i \in Invoices |-> 1]
    /\ audit = [t \in Contexts |-> 0] /\ calls = audit /\ lost = audit
    /\ hits = [k \in Keys |-> [n |-> 0, until |-> 0]]
    /\ use  = [t \in Contexts |-> [n |-> 0, until |-> 0]]
    /\ req = [r \in Requests |-> Idle]
    /\ ctx = [r \in Requests |-> System]
    /\ answer = None

-----------------------------------------------------------------------------
(* Tokens, the context variable, errors and the limiter                   *)

EncodeToken(t, now) == [tenant |-> t, exp |-> now + Ttl]

\* What clients may hold: whatever some login has issued so far.
Issued == {EncodeToken(t, now) : t \in Tenants, now \in 0 .. clock}

\* decode_token raises TokenError unless this holds.
Decodes(token) == token.tenant \in Tenants /\ clock < token.exp

\* What if the tenant were a variable of the module?
SetContextOfAll(r, t) == [x \in Requests |-> t]

SetContext(r, t) == [ctx EXCEPT ![r] = t]

\* What an exception is answered with: the handlers of domain and HTTP errors,
\* and the middleware's catch-all for everything else.
StatusOf(error) ==
    CASE error \in {"HTTP 401", "UnauthorizedError"} -> 401
      [] error \in {"HTTP 404", "NotFoundError"}     -> 404
      [] error \in {"HTTP 409", "ConflictError"}     -> 409
      [] error = "RateLimitExceeded"                 -> 429
      [] OTHER                                       -> 500

\* The answer is sent, the dependency's finally resets the variable.
Answer(r, status, found) ==
    /\ answer' = [status |-> status, to |-> req[r].tenant, token |-> req[r].token,
                  found |-> found]
    /\ req' = [req EXCEPT ![r] = Idle]
    /\ ctx' = SetContext(r, System)

Raise(r, error) == Answer(r, StatusOf(error), {})

Become(r, request) == /\ req' = [req EXCEPT ![r] = request]
                      /\ UNCHANGED ctx /\ answer' = None

Advance(r, phase) == Become(r, [req[r] EXCEPT !.phase = phase])

\* What if every endpoint were limited by address?
AddressKey(token, ip) == ip

TenantKey(token, ip) == IF Decodes(token) THEN token.tenant ELSE ip

\* The fixed window of the limiter's storage.
Current(quota) == IF clock < quota.until THEN quota ELSE [n |-> 0, until |-> clock + Window]
Hit(quota)     == [Current(quota) EXCEPT !.n = @ + 1]

-----------------------------------------------------------------------------
(* The provider behind its audit decorator                                 *)

Mask(text) == [text EXCEPT !.readable = FALSE]

\* embed and chat send the masked text, extract_structured the text it was given.
SentText(op, text) == IF op = "embed" THEN Mask(text) ELSE text

CallProvider(r, text) ==
    /\ req' = [req EXCEPT ![r].phase = "calling", ![r].sent = SentText(req[r].op, text),
                          ![r].token = NoToken]
    /\ calls' = [calls EXCEPT ![req[r].tenant] = @ + 1]

\* The client answers, or raises: an error of the service, its own timeout, an
\* empty text, an answer without content or without valid JSON.
ProviderReturns(r) ==
    /\ req[r].phase = "calling"
    /\ \E ok \in BOOLEAN : Become(r, [req[r] EXCEPT !.phase = "returned", !.ok = ok])
    /\ UNCHANGED <<clock, invoices, rows, audit, hits, calls, lost, use>>

\* AuditRepository.save: a session of its own, whose errors are only logged.
Save(t) ==
    \/ audit' = [audit EXCEPT ![t] = @ + 1] /\ UNCHANGED lost
    \/ lost' = [lost EXCEPT ![t] = @ + 1] /\ UNCHANGED audit

\* What if an exception of the provider got lost?
RecordResult(r) ==
    /\ req[r].phase = "returned" /\ req[r].ok
    /\ Save(ctx[r])
    /\ IF req[r].op = "embed" THEN Advance(r, "recorded") ELSE Answer(r, 200, {})
    /\ UNCHANGED <<clock, invoices, rows, hits, calls, use>>

\* The entry is written in the finally of the call, under the tenant that the
\* context variable holds now; then the result or the exception reaches the caller.
Record(r) ==
    /\ req[r].phase = "returned"
    /\ Save(ctx[r])
    /\ CASE req[r].op = "embed" /\ req[r].ok  -> Advance(r, "recorded")
         [] req[r].op = "embed" /\ ~req[r].ok -> Raise(r, "RuntimeError")
         [] req[r].op = "extract"             -> Answer(r, 200, {})
         [] req[r].op = "upload"              -> /\ req' = [req EXCEPT ![r] = Idle]
                                                 /\ ctx' = SetContext(r, System)
                                                 /\ answer' = None
    /\ UNCHANGED <<clock, invoices, rows, hits, calls, use>>

-----------------------------------------------------------------------------
(* Requests                                                                *)

\* Bound: no request arrives once the calls made and possibly to come reach MaxCalls.
Admitted(op) ==
    LET busy == {r \in Requests : req[r].phase \in {"authorized", "loaded", "checked"}}
    IN  op \in Limited \cup {"embed"}
        => MapThenSumSet(LAMBDA t : calls[t], Tenants) + Cardinality(busy) < MaxCalls

\* get_token_payload and get_tenant; the limiter will read the token once more.
Arrive(r) ==
    /\ req[r].phase = "idle"
    /\ \E op \in {o \in Ops : Admitted(o)}, token \in Issued \cup {NoToken}, ip \in Ips,
          i \in Invoices :
         IF ~Decodes(token)
         THEN /\ answer' = [None EXCEPT !.status = StatusOf("HTTP 401")]
              /\ UNCHANGED <<req, ctx>>
         ELSE /\ req' = [req EXCEPT ![r] =
                       [Idle EXCEPT !.phase = "authorized", !.op = op, !.tenant = token.tenant,
                                    !.ip = ip, !.invoice = i,
                                    !.token = IF op \in Limited THEN token ELSE NoToken]]
              /\ ctx' = SetContext(r, token.tenant)
              /\ answer' = None
    /\ UNCHANGED <<clock, invoices, rows, audit, hits, calls, lost, use>>

\* A decorated endpoint: the limiter counts the request or refuses it.  Then the
\* extraction calls the provider, for an upload in a background task of the
\* request, after its 201 and under the tenant the task sets once more.
Extract(r) ==
    LET key == TenantKey(req[r].token, req[r].ip)
        t   == req[r].tenant
    IN  /\ req[r].phase = "authorized" /\ req[r].op \in Limited
        /\ IF Current(hits[key]).n >= Limit
           THEN Raise(r, "RateLimitExceeded") /\ UNCHANGED <<hits, calls, use>>
           ELSE /\ hits' = [hits EXCEPT ![key] = Hit(@)]
                /\ use' = IF Decodes(req[r].token) THEN [use EXCEPT ![t] = Hit(@)] ELSE use
                /\ CallProvider(r, NoText)
                /\ IF req[r].op = "upload"
                   THEN /\ answer' = [None EXCEPT !.status = 201, !.to = t]
                        /\ ctx' = SetContext(r, t)
                   ELSE answer' = None /\ UNCHANGED ctx
    /\ UNCHANGED <<clock, invoices, rows, audit, lost>>

\* session.get(Invoice, invoice_id)
LoadInvoice(r) ==
    LET i == req[r].invoice
    IN  /\ req[r].phase = "authorized" /\ req[r].op = "embed"
        /\ IF invoices[i] = 0
           THEN Raise(r, "HTTP 404")
           ELSE Become(r, [req[r] EXCEPT !.phase = "loaded",
                             !.text = [invoice |-> i, version |-> invoices[i], readable |-> TRUE]])
    /\ UNCHANGED <<clock, invoices, rows, audit, hits, calls, lost, use>>

\* What if the tenant filter were forgotten?
AllRows(r) == rows

OwnRows(r) == {x \in rows : x.tenant = req[r].tenant}
Existing(r) == {x \in OwnRows(r) : x.invoice = req[r].invoice}

\* scalar_one_or_none: the row, none, or MultipleResultsFound
CheckExisting(r) ==
    /\ req[r].phase = "loaded" /\ req[r].op = "embed"
    /\ CASE Cardinality(Existing(r)) > 1 -> Raise(r, "MultipleResultsFound")
         [] Cardinality(Existing(r)) = 1 -> Raise(r, "HTTP 409")
         [] OTHER -> Become(r, [req[r] EXCEPT !.phase = "checked", !.text = Mask(req[r].text)])
    /\ UNCHANGED <<clock, invoices, rows, audit, hits, calls, lost, use>>

\* embed_invoice: the text of the loaded invoice, masked, goes to the provider.
EmbedInvoice(r) ==
    /\ req[r].phase = "checked"
    /\ CallProvider(r, req[r].text) /\ answer' = None
    /\ UNCHANGED <<clock, invoices, rows, audit, hits, ctx, lost, use>>

NewRow(r) ==
    [id |-> CHOOSE n \in 1 .. Cardinality(rows) + 1 : \A x \in rows : x.id # n,
     tenant |-> req[r].tenant, invoice |-> req[r].invoice,
     text |-> req[r].text, vector |-> req[r].sent]

\* add flushes, the handler commits; the foreign key needs the invoice.
InsertEmbedding(r) ==
    /\ req[r].phase = "recorded"
    /\ IF invoices[req[r].invoice] = 0
       THEN Raise(r, "IntegrityError") /\ UNCHANGED rows
       ELSE rows' = rows \cup {NewRow(r)} /\ Advance(r, "committed")
    /\ UNCHANGED <<clock, invoices, audit, hits, calls, lost, use>>

\* The refresh of the entry finds it gone when its invoice was deleted meanwhile.
RefreshEmbedding(r) ==
    /\ req[r].phase = "committed"
    /\ IF Existing(r) = {} THEN Raise(r, "InvalidRequestError") ELSE Answer(r, 201, Existing(r))
    /\ UNCHANGED <<clock, invoices, rows, audit, hits, calls, lost, use>>

\* find_similar_invoices reads the embedding of the invoice ...
LoadSource(r) ==
    /\ req[r].phase = "authorized" /\ req[r].op = "similar"
    /\ CASE Cardinality(Existing(r)) > 1 -> Raise(r, "MultipleResultsFound")
         [] Existing(r) = {}             -> Raise(r, "HTTP 404")
         [] OTHER -> Advance(r, "loaded")
    /\ UNCHANGED <<clock, invoices, rows, audit, hits, calls, lost, use>>

\* ... and then the nearest rows of the tenant, as the context names it.
FindSimilar(r) ==
    /\ req[r].phase = "loaded" /\ req[r].op = "similar"
    /\ Answer(r, 200, OwnRows(r))
    /\ UNCHANGED <<clock, invoices, rows, audit, hits, calls, lost, use>>

\* GET /audit/llm-calls only reads.
ListAudit(r) ==
    /\ req[r].phase = "authorized" /\ req[r].op = "llm-calls"
    /\ Answer(r, 200, {})
    /\ UNCHANGED <<clock, invoices, rows, audit, hits, calls, lost, use>>

-----------------------------------------------------------------------------
(* The world                                                               *)

\* Another handler edits the invoice or removes it, with its embeddings (CASCADE).
ChangeInvoice(i) ==
    /\ invoices[i] \in 1 .. MaxVersion - 1
    /\ \/ invoices' = [invoices EXCEPT ![i] = @ + 1] /\ UNCHANGED rows
       \/ invoices' = [invoices EXCEPT ![i] = 0] /\ rows' = {x \in rows : x.invoice # i}
    /\ answer' = None
    /\ UNCHANGED <<clock, audit, hits, req, ctx, calls, lost, use>>

Tick ==
    /\ clock < MaxTime /\ clock' = clock + 1 /\ answer' = None
    /\ UNCHANGED <<invoices, rows, audit, hits, req, ctx, calls, lost, use>>

\* The process dies: tasks, context variables and the limiter's memory are gone,
\* and so is the entry of every call that was under way.
Crash ==
    /\ \E r \in Requests : req[r].phase # "idle"
    /\ req' = [r \in Requests |-> Idle] /\ ctx' = [r \in Requests |-> System]
    /\ answer' = None
    /\ hits' = [k \in Keys |-> [n |-> 0, until |-> 0]]
    /\ use'  = [t \in Contexts |-> [n |-> 0, until |-> 0]]
    /\ lost' = [t \in Contexts |-> lost[t] + Cardinality(Calling(t))]
    /\ UNCHANGED <<clock, invoices, rows, audit, calls>>

Progress(r) ==
    \/ Extract(r) \/ LoadInvoice(r) \/ CheckExisting(r) \/ EmbedInvoice(r)
    \/ ProviderReturns(r) \/ Record(r) \/ InsertEmbedding(r) \/ RefreshEmbedding(r)
    \/ LoadSource(r) \/ FindSimilar(r) \/ ListAudit(r)

Next ==
    \/ \E r \in Requests : Arrive(r) \/ Progress(r)
    \/ \E i \in Invoices : ChangeInvoice(i)
    \/ Tick \/ Crash

Spec     == Init /\ [][Next]_vars
FairSpec == Spec /\ \A r \in Requests : WF_vars(Progress(r))
-----------------------------------------------------------------------------
(* Properties                                                              *)

\* Every call of the provider is accounted for under the tenant whose token asked
\* for it, whatever the other tasks of the worker do meanwhile: it is under way, in
\* the audit of that tenant, or its entry was lost with an error or a crash
\* (_record reads the tenant from the context variable after the call).
AuditAccountsForCalls ==
    \A t \in Contexts : audit[t] + lost[t] + Cardinality(Calling(t)) = calls[t]

\* A stored vector was computed from the text stored with it, without readable
\* personal data, though the invoice may change during the call (embed_invoice).
VectorOfText == \A x \in rows : x.vector = x.text /\ ~x.text.readable

\* While a token is valid, only what its own tenant used of the window refuses it,
\* from whatever address it comes (tenant_key).
QuotaPerTenant ==
    [][answer'.status = 429 /\ Decodes(answer'.token)
       => Current(use[answer'.to]).n = Limit]_vars

\* The embeddings a request is answered with are of the tenant of its token
\* (find_similar, get_by_invoice).
FoundAreOwn == \A x \in answer.found : x.tenant = answer.to

\* What is stored and what is found: types, vectors, tenants.
EmbeddingsAreSound == TypeOK /\ VectorOfText /\ FoundAreOwn

\* At most one embedding of an invoice in a tenant, as the handler's comment and
\* its 409 promise (v1/embeddings.py:54).
OneEmbedding ==
    \A x, y \in rows : x.tenant = y.tenant /\ x.invoice = y.invoice => x = y

\* Every request that was let in ends, whatever the provider answers (the catch-all
\* of the middleware, the except of the extraction).
EveryRequestEnds ==
    \A r \in Requests : req[r].phase # "idle" ~> req[r].phase = "idle"
=============================================================================
