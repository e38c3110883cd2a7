--------------------------- MODULE VendorMappings ---------------------------
(***************************************************************************)
(* The accounts a tenant's vendors are booked on, as the service learns    *)
(* them: one row of vendor_account_mappings per normalised vendor name,    *)
(* written by PUT /vendor-mappings (and by the PATCH of an invoice, see    *)
(* InvoiceEditing), removed by DELETE, read by the DATEV export.           *)
(*                                                                         *)
(* A recording is a SELECT followed by an INSERT or UPDATE in the same     *)
(* transaction; other handlers run in between.  The flush and the commit   *)
(* are one action: the row stays locked and invisible from one to the      *)
(* other.  An UPDATE writes the columns that were changed in memory over   *)
(* whatever the row holds by then, and fails when the row is gone.         *)
(***************************************************************************)
EXTENDS Naturals, Sequences, FiniteSets

CONSTANTS
    Tasks,        \* request handlers in flight at the same time
    Keys,         \* normalised vendor names
    Accounts,     \* creditor account numbers clients send
    Default,      \* settings.datev_default_creditor_account
    Batches,      \* vendors of the invoices in an exported period, in order
    MaxRequests,  \* bound: requests
    NoMapping

ASSUME MappingConstantsOK ==
    /\ Keys # {}
    /\ Accounts # {}
    /\ Batches \subseteq Seq(Keys)
    /\ MaxRequests \in Nat

VARIABLES
    mapping,   \* [Keys -> row of vendor_account_mappings, or NoMapping]
    ids,       \* [Keys -> primary keys used up for the vendor]
    pc,        \* [Tasks -> where the handler is]
    session,   \* [Tasks -> the handler's locals and the row it loaded]
    booked,    \* history: [Keys -> accounts recorded for the vendor, in commit order]
    requests   \* requests so far

vars == <<mapping, ids, pc, session, booked, requests>>

-----------------------------------------------------------------------------
(* Types *)

Row == [id : Nat, account : Accounts, usage_count : Nat \ {0}]

ASSUME NoMappingIsNoRow == NoMapping \notin Row

Session == [key     : Keys,
            account : Accounts,
            found   : Row \cup {NoMapping},  \* what the SELECT returned
            left    : Seq(Keys),             \* export: invoices still to resolve
            lines   : SUBSET (Keys \X (Accounts \cup {Default}))]

Steps == {"idle", "lookup", "store", "delete", "export"}

TypeOK ==
    /\ mapping \in [Keys -> Row \cup {NoMapping}]
    /\ ids \in [Keys -> Nat]
    /\ pc \in [Tasks -> Steps]
    /\ session \in [Tasks -> Session]
    /\ booked \in [Keys -> Seq(Accounts)]
    /\ requests \in Nat

Fresh(k, a, batch) ==
    [key |-> k, account |-> a, found |-> NoMapping, left |-> batch, lines |-> {}]

Closed == Fresh(CHOOSE k \in Keys : TRUE, CHOOSE a \in Accounts : TRUE, <<>>)

-----------------------------------------------------------------------------
(* Confidence and resolution *)

\* calculate_confidence, in fifths.
Confidence(usage_count) == IF usage_count >= 5 THEN 5 ELSE usage_count

\* _AUTO_APPLY_THRESHOLD = 0.8
AutoApplies(r) == Confidence(r.usage_count) >= 4

\* What if a suggestion were exported whatever its confidence?
ResolvedUnchecked(k) == IF mapping[k] # NoMapping THEN mapping[k].account ELSE Default

\* resolve_for_export.  A suggestion that is not exact has at most half the
\* confidence, so it is never applied.
Resolved(k) ==
    IF mapping[k] # NoMapping /\ AutoApplies(mapping[k])
    THEN mapping[k].account ELSE Default

-----------------------------------------------------------------------------
(* Recording an account for a vendor *)

\* What if every use counted twice?
UsedTwice(r, a) ==
    IF r.account = a THEN [r EXCEPT !.usage_count = @ + 2]
    ELSE [r EXCEPT !.account = a, !.usage_count = 1]

Inserted(k, a) == [id |-> ids[k] + 1, account |-> a, usage_count |-> 1]

\* The object in memory after upsert changed it.
Used(r, a) ==
    IF r.account = a THEN [r EXCEPT !.usage_count = @ + 1]
    ELSE [r EXCEPT !.account = a, !.usage_count = 1]

\* The row after the flush: only columns that changed in memory are written.
Flushed(cur, old, new) ==
    [cur EXCEPT
        !.account = IF new.account # old.account THEN new.account ELSE @,
        !.usage_count = IF new.usage_count # old.usage_count THEN new.usage_count ELSE @]

\* The row the handler loaded is still there.
Present(t) ==
    LET k == session[t].key IN
    mapping[k] # NoMapping /\ mapping[k].id = session[t].found.id

StartRecord(t, k, a) ==
    /\ pc[t] = "idle"
    /\ requests < MaxRequests
    /\ pc' = [pc EXCEPT ![t] = "lookup"]
    /\ session' = [session EXCEPT ![t] = Fresh(k, a, <<>>)]
    /\ requests' = requests + 1
    /\ UNCHANGED <<mapping, ids, booked>>

\* get_exact
Lookup(t) ==
    /\ pc[t] = "lookup"
    /\ pc' = [pc EXCEPT ![t] = "store"]
    /\ session' = [session EXCEPT ![t].found = mapping[session[t].key]]
    /\ UNCHANGED <<mapping, ids, booked, requests>>

Finish(t) ==
    /\ pc' = [pc EXCEPT ![t] = "idle"]
    /\ session' = [session EXCEPT ![t] = Closed]

StoreNew(t) ==
    LET s == session[t] IN
    /\ pc[t] = "store"
    /\ s.found = NoMapping
    /\ mapping[s.key] = NoMapping
    /\ mapping' = [mapping EXCEPT ![s.key] = Inserted(s.key, s.account)]
    /\ ids' = [ids EXCEPT ![s.key] = @ + 1]
    /\ booked' = [booked EXCEPT ![s.key] = Append(@, s.account)]
    /\ Finish(t)
    /\ UNCHANGED requests

StoreUse(t) ==
    LET s == session[t] IN
    /\ pc[t] = "store"
    /\ s.found # NoMapping
    /\ Present(t)
    /\ mapping' = [mapping EXCEPT ![s.key] = Flushed(@, s.found, Used(s.found, s.account))]
    /\ booked' = [booked EXCEPT ![s.key] = Append(@, s.account)]
    /\ Finish(t)
    /\ UNCHANGED <<ids, requests>>

\* The INSERT meets a row that was inserted since the SELECT, or the UPDATE
\* meets none: the transaction is rolled back and the request fails.
StoreFails(t) ==
    /\ pc[t] = "store"
    /\ IF session[t].found = NoMapping THEN mapping[session[t].key] # NoMapping
                                       ELSE ~Present(t)
    /\ Finish(t)
    /\ UNCHANGED <<mapping, ids, booked, requests>>

-----------------------------------------------------------------------------
(* DELETE /vendor-mappings/{id} *)

StartDelete(t, k) ==
    /\ pc[t] = "idle"
    /\ requests < MaxRequests
    /\ mapping[k] # NoMapping
    /\ pc' = [pc EXCEPT ![t] = "delete"]
    /\ session' = [session EXCEPT ![t] =
                      [Fresh(k, Closed.account, <<>>) EXCEPT !.found = mapping[k]]]
    /\ requests' = requests + 1
    /\ UNCHANGED <<mapping, ids, booked>>

\* The DELETE goes by primary key: a row that came later is left alone.
Delete(t) ==
    /\ pc[t] = "delete"
    /\ mapping' = [mapping EXCEPT ![session[t].key] =
                      IF Present(t) THEN NoMapping ELSE @]
    /\ Finish(t)
    /\ UNCHANGED <<ids, booked, requests>>

-----------------------------------------------------------------------------
(* DATEV export: one resolution per invoice, each a SELECT of its own *)

StartExport(t, batch) ==
    /\ pc[t] = "idle"
    /\ requests < MaxRequests
    /\ pc' = [pc EXCEPT ![t] = "export"]
    /\ session' = [session EXCEPT ![t] = Fresh(Closed.key, Closed.account, batch)]
    /\ requests' = requests + 1
    /\ UNCHANGED <<mapping, ids, booked>>

ResolveNext(t) ==
    LET k == Head(session[t].left) IN
    /\ pc[t] = "export"
    /\ session[t].left # <<>>
    /\ session' = [session EXCEPT ![t].left = Tail(@),
                                  ![t].lines = @ \cup {<<k, Resolved(k)>>}]
    /\ UNCHANGED <<mapping, ids, pc, booked, requests>>

EndExport(t) ==
    /\ pc[t] = "export"
    /\ session[t].left = <<>>
    /\ Finish(t)
    /\ UNCHANGED <<mapping, ids, booked, requests>>

-----------------------------------------------------------------------------
(* The specification *)

Init ==
    /\ mapping = [k \in Keys |-> NoMapping]
    /\ ids = [k \in Keys |-> 0]
    /\ pc = [t \in Tasks |-> "idle"]
    /\ session = [t \in Tasks |-> Closed]
    /\ booked = [k \in Keys |-> <<>>]
    /\ requests = 0

Request(t) ==
    \/ \E k \in Keys, a \in Accounts : StartRecord(t, k, a)
    \/ \E k \in Keys : StartDelete(t, k)
    \/ \E batch \in Batches : StartExport(t, batch)

Step(t) ==
    \/ Lookup(t) \/ StoreNew(t) \/ StoreUse(t) \/ StoreFails(t)
    \/ Delete(t)
    \/ ResolveNext(t) \/ EndExport(t)

Next == \E t \in Tasks : Request(t) \/ Step(t)

Spec == Init /\ [][Next]_vars

-----------------------------------------------------------------------------
(* Safety *)

Recordings(k) == Len(booked[k])

Recorded(k, a) == \E n \in 1..Recordings(k) : booked[k][n] = a

\* However recordings and deletions of a vendor interleave, each writing the
\* columns it changed over the others', its usage count never exceeds the number
\* of recordings, and its account is one that was recorded: an account is not
\* applied automatically before the vendor was booked four times.
CountIsEarned ==
    \A k \in Keys : mapping[k] # NoMapping =>
        /\ mapping[k].usage_count <= Recordings(k)
        /\ Recorded(k, mapping[k].account)

\* An export running beside recordings and deletions puts a learned account on
\* an invoice only if that account was recorded for the vendor, which had been
\* booked four times by then.
ExportIsEarned ==
    \A t \in Tasks : \A line \in session[t].lines :
        line[2] # Default => Recordings(line[1]) >= 4 /\ Recorded(line[1], line[2])

=============================================================================
