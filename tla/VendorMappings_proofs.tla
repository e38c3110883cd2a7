----------------------- MODULE VendorMappings_proofs -----------------------
(***************************************************************************)
(* Proofs about VendorMappings, for any number of vendors, accounts,       *)
(* handlers and requests.                                                  *)
(***************************************************************************)
EXTENDS VendorMappings, TLAPS

-----------------------------------------------------------------------------
(* Types *)

LEMMA ClosedType ==
    /\ Closed \in Session
    /\ \A k \in Keys, a \in Accounts, batch \in Seq(Keys) : Fresh(k, a, batch) \in Session
<1>1. \A k \in Keys, a \in Accounts, batch \in Seq(Keys) : Fresh(k, a, batch) \in Session
  BY DEF Fresh, Session
<1>2. /\ (CHOOSE k \in Keys : TRUE) \in Keys
      /\ (CHOOSE a \in Accounts : TRUE) \in Accounts
      /\ <<>> \in Seq(Keys)
  BY MappingConstantsOK
<1>3. QED
  BY <1>1, <1>2 DEF Closed

\* The rows that upsert builds in memory, and what its flush leaves behind.
LEMMA RowTypes ==
    ASSUME NEW r \in Row, NEW cur \in Row, NEW a \in Accounts
    PROVE  Used(r, a) \in Row /\ Flushed(cur, r, Used(r, a)) \in Row
<1>1. /\ r.id \in Nat /\ r.account \in Accounts /\ r.usage_count \in Nat \ {0}
      /\ cur.id \in Nat /\ cur.account \in Accounts /\ cur.usage_count \in Nat \ {0}
      /\ r.usage_count + 1 \in Nat \ {0}
      /\ 1 \in Nat \ {0}
  BY DEF Row
<1>2. Used(r, a) \in Row
  BY <1>1 DEF Used, Row
<1>3. QED
  BY <1>1, <1>2 DEF Flushed, Row

LEMMA FinishType ==
    ASSUME TypeOK, NEW t \in Tasks, Finish(t)
    PROVE  pc' \in [Tasks -> Steps] /\ session' \in [Tasks -> Session]
BY ClosedType DEF TypeOK, Finish, Steps

\* Every handler keeps the shape of the rows and of the sessions, whatever it
\* finds when it writes.
THEOREM TypeCorrect == Spec => []TypeOK
<1>1. Init => TypeOK
  BY ClosedType DEF Init, TypeOK, Steps
<1>2. TypeOK /\ [Next]_vars => TypeOK'
  <2> SUFFICES ASSUME TypeOK, [Next]_vars
               PROVE  TypeOK'
    OBVIOUS
  <2>1. CASE UNCHANGED vars
    BY <2>1 DEF vars, TypeOK
  <2> SUFFICES ASSUME NEW t \in Tasks, Request(t) \/ Step(t)
               PROVE  TypeOK'
    BY <2>1 DEF Next
  <2>2. ASSUME NEW k \in Keys, NEW a \in Accounts, StartRecord(t, k, a)
        PROVE  TypeOK'
    <3>1. <<>> \in Seq(Keys) /\ Fresh(k, a, <<>>) \in Session
      BY ClosedType, <<>> \in Seq(Keys)
    <3>2. QED
      BY <2>2, <3>1 DEF TypeOK, StartRecord, Steps
  <2>3. ASSUME NEW k \in Keys, StartDelete(t, k)
        PROVE  TypeOK'
    <3>1. Closed.account \in Accounts /\ <<>> \in Seq(Keys)
      BY ClosedType DEF Session
    <3>2. Fresh(k, Closed.account, <<>>) \in Session
      BY <3>1, ClosedType
    <3>3. mapping[k] \in Row
      BY <2>3 DEF StartDelete, TypeOK
    <3>4. [Fresh(k, Closed.account, <<>>) EXCEPT !.found = mapping[k]] \in Session
      BY <3>2, <3>3 DEF Session
    <3>5. QED
      BY <2>3, <3>4 DEF TypeOK, StartDelete, Steps
  <2>4. ASSUME NEW batch \in Batches, StartExport(t, batch)
        PROVE  TypeOK'
    <3>1. Fresh(Closed.key, Closed.account, batch) \in Session
      BY ClosedType, MappingConstantsOK DEF Session
    <3>2. QED
      BY <2>4, <3>1 DEF TypeOK, StartExport, Steps
  <2>5. CASE Lookup(t)
    <3>1. mapping[session[t].key] \in Row \cup {NoMapping}
      BY DEF TypeOK, Session
    <3>2. [session[t] EXCEPT !.found = mapping[session[t].key]] \in Session
      BY <3>1 DEF TypeOK, Session
    <3>3. session' = [session EXCEPT ![t] =
              [session[t] EXCEPT !.found = mapping[session[t].key]]]
      BY <2>5 DEF Lookup, TypeOK
    <3>4. QED
      BY <2>5, <3>2, <3>3 DEF Lookup, TypeOK, Steps
  <2>6. CASE StoreNew(t)
    <3> DEFINE k == session[t].key  a == session[t].account
    <3>1. k \in Keys /\ a \in Accounts /\ ids[k] \in Nat /\ booked[k] \in Seq(Accounts)
      BY DEF TypeOK, Session
    <3>2. Inserted(k, a) \in Row
      BY <3>1 DEF Inserted, Row
    <3>3. Append(booked[k], a) \in Seq(Accounts)
      BY <3>1
    <3>4. mapping' \in [Keys -> Row \cup {NoMapping}] /\ ids' \in [Keys -> Nat]
      BY <2>6, <3>1, <3>2 DEF StoreNew, TypeOK
    <3>5. booked' \in [Keys -> Seq(Accounts)]
      BY <2>6, <3>1, <3>3 DEF StoreNew, TypeOK
    <3>6. QED
      BY <2>6, <3>4, <3>5, FinishType DEF StoreNew, TypeOK
  <2>7. CASE StoreUse(t)
    <3> DEFINE s == session[t]  k == s.key  a == s.account
    <3>1. /\ k \in Keys /\ a \in Accounts /\ booked[k] \in Seq(Accounts)
          /\ s.found \in Row /\ mapping[k] \in Row
      BY <2>7 DEF StoreUse, Present, TypeOK, Session
    <3>2. Flushed(mapping[k], s.found, Used(s.found, a)) \in Row
      BY <3>1, RowTypes
    <3>3. Append(booked[k], a) \in Seq(Accounts)
      BY <3>1
    <3>4. mapping' \in [Keys -> Row \cup {NoMapping}]
      BY <2>7, <3>1, <3>2 DEF StoreUse, TypeOK
    <3>5. booked' \in [Keys -> Seq(Accounts)]
      BY <2>7, <3>1, <3>3 DEF StoreUse, TypeOK
    <3>6. QED
      BY <2>7, <3>4, <3>5, FinishType DEF StoreUse, TypeOK
  <2>8. CASE StoreFails(t)
    BY <2>8, FinishType DEF StoreFails, TypeOK
  <2>9. CASE Delete(t)
    <3>1. mapping' \in [Keys -> Row \cup {NoMapping}]
      BY <2>9 DEF Delete, TypeOK
    <3>2. QED
      BY <2>9, <3>1, FinishType DEF Delete, TypeOK
  <2>10. CASE ResolveNext(t)
    <3> DEFINE s == session[t]  k == Head(s.left)
    <3>1. s \in Session /\ s.left \in Seq(Keys) /\ s.left # <<>>
      BY <2>10 DEF ResolveNext, TypeOK, Session
    <3>2. k \in Keys /\ Tail(s.left) \in Seq(Keys)
      BY <3>1
    <3>3. Resolved(k) \in Accounts \cup {Default}
      BY <3>2 DEF Resolved, TypeOK, Row
    <3>4. s.lines \cup {<<k, Resolved(k)>>} \in SUBSET (Keys \X (Accounts \cup {Default}))
      BY <3>1, <3>2, <3>3 DEF Session
    <3>5. [s EXCEPT !.left = Tail(@), !.lines = @ \cup {<<k, Resolved(k)>>}] \in Session
      BY <3>1, <3>2, <3>4 DEF Session
    <3>6. session' = [session EXCEPT ![t] =
              [s EXCEPT !.left = Tail(@), !.lines = @ \cup {<<k, Resolved(k)>>}]]
      BY <2>10 DEF ResolveNext, TypeOK
    <3>7. QED
      BY <2>10, <3>5, <3>6 DEF ResolveNext, TypeOK
  <2>11. CASE EndExport(t)
    BY <2>11, FinishType DEF EndExport, TypeOK
  <2>12. QED
    BY <2>2, <2>3, <2>4, <2>5, <2>6, <2>7, <2>8, <2>9, <2>10, <2>11 DEF Request, Step
<1>3. QED
  BY <1>1, <1>2, PTL DEF Spec

-----------------------------------------------------------------------------
(* Counts and accounts are earned *)

\* A row of vendor k shows no more uses than there were recordings, and an
\* account that was recorded.
Backed(k, r) == r.usage_count <= Recordings(k) /\ Recorded(k, r.account)

\* The same after the step.
BackedAfter(k, r) ==
    /\ r.usage_count <= Len(booked'[k])
    /\ \E n \in 1..Len(booked'[k]) : booked'[k][n] = r.account

\* What a handler loaded may be out of date, but it was earned: recordings are
\* never taken back.
FoundIsEarned ==
    \A t \in Tasks : session[t].found # NoMapping =>
        Backed(session[t].key, session[t].found)

IInv == TypeOK /\ CountIsEarned /\ FoundIsEarned /\ ExportIsEarned

\* What a step may do to the history, to a row, to a loaded row, to an export.
HistoryGrows ==
    \A k \in Keys :
        /\ Recordings(k) <= Len(booked'[k])
        /\ \A n \in 1..Recordings(k) : booked'[k][n] = booked[k][n]

RowEarned(k) ==
    \/ mapping'[k] = NoMapping
    \/ mapping'[k] = mapping[k]
    \/ BackedAfter(k, mapping'[k])

FoundLoaded(t) ==
    \/ session'[t].found = NoMapping
    \/ session'[t].found = session[t].found /\ session'[t].key = session[t].key
    \/ session'[t].found = mapping[session'[t].key]

LinesResolved(t) ==
    \A line \in session'[t].lines :
        line \in session[t].lines \/ line[2] = Resolved(line[1])

StepEffects ==
    /\ HistoryGrows
    /\ \A k \in Keys : RowEarned(k)
    /\ \A t \in Tasks : FoundLoaded(t) /\ LinesResolved(t)

\* What was backed stays backed.
LEMMA BackedStays ==
    ASSUME TypeOK, TypeOK', HistoryGrows, NEW k \in Keys
    PROVE  /\ Recordings(k) \in Nat /\ Len(booked'[k]) \in Nat
           /\ Recordings(k) <= Len(booked'[k])
           /\ \A a : Recorded(k, a) => \E n \in 1..Len(booked'[k]) : booked'[k][n] = a
           /\ \A r \in Row : Backed(k, r) => BackedAfter(k, r)
<1>1. /\ Recordings(k) \in Nat /\ Len(booked'[k]) \in Nat
      /\ Recordings(k) <= Len(booked'[k])
  BY DEF TypeOK, HistoryGrows, Recordings
<1>2. ASSUME NEW a, Recorded(k, a)
      PROVE  \E n \in 1..Len(booked'[k]) : booked'[k][n] = a
  <2>1. PICK n \in 1..Recordings(k) : booked[k][n] = a
    BY <1>2 DEF Recorded
  <2>2. n \in 1..Len(booked'[k]) /\ booked'[k][n] = a
    BY <1>1, <2>1 DEF HistoryGrows
  <2>3. QED
    BY <2>2
<1>3. ASSUME NEW r \in Row, Backed(k, r) PROVE BackedAfter(k, r)
  <2>1. r.usage_count \in Nat
    BY DEF Row
  <2>2. QED
    BY <1>1, <1>2, <1>3, <2>1 DEF Backed, BackedAfter
<1>4. QED
  BY <1>1, <1>2, <1>3

\* A step with these effects keeps the invariant.
LEMMA EffectsKeepInvariant ==
    ASSUME IInv, TypeOK', StepEffects
    PROVE  IInv'
<1> USE DEF IInv
<1>1. ASSUME NEW k \in Keys, mapping'[k] # NoMapping PROVE BackedAfter(k, mapping'[k])
  <2>1. CASE mapping'[k] = mapping[k]
    <3>1. mapping[k] \in Row /\ Backed(k, mapping[k])
      BY <1>1, <2>1 DEF TypeOK, CountIsEarned, Backed
    <3>2. QED
      BY <2>1, <3>1, BackedStays DEF StepEffects
  <2>2. QED
    BY <1>1, <2>1 DEF StepEffects, RowEarned
<1>2. CountIsEarned'
  BY <1>1 DEF CountIsEarned, BackedAfter, Recordings, Recorded
<1>3. FoundIsEarned'
  <2>1. ASSUME NEW t \in Tasks, session'[t].found # NoMapping
        PROVE  BackedAfter(session'[t].key, session'[t].found)
    <3> DEFINE k == session'[t].key  r == session'[t].found
    <3>1. k \in Keys /\ r \in Row
      BY <2>1 DEF TypeOK, Session
    <3>2. Backed(k, r)
      BY <2>1, <3>1 DEF StepEffects, FoundLoaded, FoundIsEarned, CountIsEarned, Backed
    <3>3. \A q \in Keys, x \in Row : Backed(q, x) => BackedAfter(q, x)
      BY BackedStays DEF StepEffects
    <3>4. QED
      BY <3>1, <3>2, <3>3
  <2>2. QED
    BY <2>1 DEF FoundIsEarned, Backed, BackedAfter, Recordings, Recorded
<1>4. ExportIsEarned'
  <2> SUFFICES ASSUME NEW t \in Tasks, NEW line \in session'[t].lines, line[2] # Default
               PROVE  /\ Len(booked'[line[1]]) >= 4
                      /\ \E n \in 1..Len(booked'[line[1]]) : booked'[line[1]][n] = line[2]
    BY DEF ExportIsEarned, Recordings, Recorded
  <2>1. line[1] \in Keys
    BY DEF TypeOK, Session
  <2>2. Recordings(line[1]) >= 4 /\ Recorded(line[1], line[2])
    <3>1. CASE line \in session[t].lines
      BY <3>1 DEF ExportIsEarned
    <3>2. CASE line[2] = Resolved(line[1])
      <4> DEFINE r == mapping[line[1]]
      <4>1. r # NoMapping /\ AutoApplies(r) /\ line[2] = r.account
        BY <3>2 DEF Resolved
      <4>2. r \in Row /\ Backed(line[1], r)
        BY <2>1, <4>1 DEF TypeOK, CountIsEarned, Backed
      <4>3. r.usage_count >= 4 /\ r.usage_count \in Nat
        BY <4>1, <4>2 DEF AutoApplies, Confidence, Row
      <4>4. Recordings(line[1]) \in Nat
        BY <2>1 DEF Recordings, TypeOK
      <4>5. QED
        BY <4>1, <4>2, <4>3, <4>4 DEF Backed
    <3>3. QED
      BY <3>1, <3>2 DEF StepEffects, LinesResolved
  <2>3. QED
    BY <2>1, <2>2, BackedStays DEF StepEffects
<1>5. QED
  BY <1>2, <1>3, <1>4

\* A step that records nothing and inserts nothing.
LEMMA HistoryUnchanged ==
    ASSUME TypeOK, booked' = booked
    PROVE  HistoryGrows
BY DEF TypeOK, HistoryGrows, Recordings

\* A committed recording appends its account, which backs any row whose count
\* is one more than a backed count, or one.
LEMMA Recording ==
    ASSUME TypeOK, NEW t \in Tasks,
           booked' = [booked EXCEPT ![session[t].key] = Append(@, session[t].account)]
    PROVE  /\ HistoryGrows
           /\ Recordings(session[t].key) \in Nat
           /\ Len(booked'[session[t].key]) = Recordings(session[t].key) + 1
           /\ \E n \in 1..Len(booked'[session[t].key]) :
                 booked'[session[t].key][n] = session[t].account
<1> DEFINE k == session[t].key  a == session[t].account
<1>1. k \in Keys /\ a \in Accounts /\ booked \in [Keys -> Seq(Accounts)]
  BY DEF TypeOK, Session
<1>2. /\ booked[k] \in Seq(Accounts)
      /\ booked'[k] = Append(booked[k], a)
      /\ \A q \in Keys \ {k} : booked'[q] = booked[q]
  BY <1>1
<1>3. /\ Len(booked'[k]) = Len(booked[k]) + 1
      /\ booked'[k][Len(booked[k]) + 1] = a
      /\ \A n \in 1..Len(booked[k]) : booked'[k][n] = booked[k][n]
      /\ Len(booked[k]) \in Nat
  BY <1>2
<1>4. HistoryGrows
  <2> SUFFICES ASSUME NEW q \in Keys
               PROVE  /\ Len(booked[q]) <= Len(booked'[q])
                      /\ \A n \in 1..Len(booked[q]) : booked'[q][n] = booked[q][n]
    BY DEF HistoryGrows, Recordings
  <2>1. CASE q = k
    BY <2>1, <1>3
  <2>2. CASE q # k
    <3>1. booked[q] \in Seq(Accounts)
      BY <1>1
    <3>2. QED
      BY <2>2, <3>1, <1>2
  <2>3. QED
    BY <2>1, <2>2
<1>5. QED
  BY <1>3, <1>4 DEF Recordings

\* A finishing handler forgets what it loaded and resolved.
LEMMA Finished ==
    ASSUME TypeOK, NEW t \in Tasks, Finish(t), NEW u \in Tasks
    PROVE  FoundLoaded(u) /\ LinesResolved(u)
<1>1. Closed.found = NoMapping /\ Closed.lines = {}
  BY DEF Closed, Fresh
<1>2. session'[u] = IF u = t THEN Closed ELSE session[u]
  BY DEF Finish, TypeOK
<1>3. QED
  BY <1>1, <1>2 DEF FoundLoaded, LinesResolved

\* A starting handler has resolved nothing; it may already have loaded a row.
LEMMA Started ==
    ASSUME TypeOK, NEW t \in Tasks, NEW s, NEW u \in Tasks,
           s.found = NoMapping \/ s.found = mapping[s.key],
           s.lines = {},
           session' = [session EXCEPT ![t] = s]
    PROVE  FoundLoaded(u) /\ LinesResolved(u)
<1>1. session'[u] = IF u = t THEN s ELSE session[u]
  BY DEF TypeOK
<1>2. QED
  BY <1>1 DEF FoundLoaded, LinesResolved

LEMMA StepHasEffects ==
    ASSUME IInv, TypeOK', [Next]_vars
    PROVE  StepEffects
<1> USE DEF IInv
<1>1. CASE UNCHANGED vars
  BY <1>1, HistoryUnchanged DEF vars, StepEffects, RowEarned, FoundLoaded, LinesResolved
<1> SUFFICES ASSUME NEW t \in Tasks, Request(t) \/ Step(t)
             PROVE  StepEffects
  BY <1>1 DEF Next
<1>2. ASSUME NEW k \in Keys, NEW a \in Accounts, StartRecord(t, k, a)
      PROVE  StepEffects
  <2>1. Fresh(k, a, <<>>).found = NoMapping /\ Fresh(k, a, <<>>).lines = {}
    BY DEF Fresh
  <2>2. QED
    BY <1>2, <2>1, Started, HistoryUnchanged DEF StartRecord, StepEffects, RowEarned
<1>3. ASSUME NEW k \in Keys, StartDelete(t, k)
      PROVE  StepEffects
  <2> DEFINE s == [Fresh(k, Closed.account, <<>>) EXCEPT !.found = mapping[k]]
  <2>1. s.found = mapping[s.key] /\ s.lines = {}
    BY DEF Fresh
  <2>2. QED
    BY <1>3, <2>1, Started, HistoryUnchanged DEF StartDelete, StepEffects, RowEarned
<1>4. ASSUME NEW batch \in Batches, StartExport(t, batch)
      PROVE  StepEffects
  <2> DEFINE s == Fresh(Closed.key, Closed.account, batch)
  <2>1. s.found = NoMapping /\ s.lines = {}
    BY DEF Fresh
  <2>2. QED
    BY <1>4, <2>1, Started, HistoryUnchanged DEF StartExport, StepEffects, RowEarned
<1>5. CASE Lookup(t)
  <2>1. \A u \in Tasks : FoundLoaded(u) /\ LinesResolved(u)
    BY <1>5 DEF Lookup, TypeOK, Session, FoundLoaded, LinesResolved
  <2>2. QED
    BY <1>5, <2>1, HistoryUnchanged DEF Lookup, StepEffects, RowEarned
<1>6. CASE StoreNew(t)
  <2> DEFINE k == session[t].key  a == session[t].account
  <2>1. k \in Keys /\ mapping'[k] = Inserted(k, a)
    BY <1>6 DEF StoreNew, TypeOK, Session
  <2>2. \A q \in Keys \ {k} : mapping'[q] = mapping[q]
    BY <1>6 DEF StoreNew, TypeOK
  <2>3. Inserted(k, a).usage_count = 1 /\ Inserted(k, a).account = a
    BY DEF Inserted
  <2>4. BackedAfter(k, mapping'[k])
    <3>1. /\ Recordings(k) \in Nat /\ Len(booked'[k]) = Recordings(k) + 1
          /\ \E n \in 1..Len(booked'[k]) : booked'[k][n] = a
      BY <1>6, Recording DEF StoreNew
    <3>2. 1 <= Len(booked'[k])
      BY <3>1
    <3>3. QED
      BY <2>1, <2>3, <3>1, <3>2 DEF BackedAfter
  <2>5. QED
    BY <1>6, <2>2, <2>4, Recording, Finished DEF StoreNew, StepEffects, RowEarned
<1>7. CASE StoreUse(t)
  <2> DEFINE s == session[t]  k == s.key  a == s.account  new == Used(s.found, a)
  <2>1. /\ k \in Keys /\ a \in Accounts /\ s.found \in Row /\ mapping[k] \in Row
        /\ mapping'[k] = Flushed(mapping[k], s.found, new)
    BY <1>7 DEF StoreUse, Present, TypeOK, Session
  <2>2. \A q \in Keys \ {k} : mapping'[q] = mapping[q]
    BY <1>7 DEF StoreUse, TypeOK
  <2>3. Backed(k, s.found) /\ Backed(k, mapping[k])
    BY <1>7, <2>1 DEF StoreUse, Present, FoundIsEarned, CountIsEarned, Backed
  <2>4. \A r \in Row : Backed(k, r) => BackedAfter(k, r)
    BY <1>7, <2>1, BackedStays, Recording DEF StoreUse
  <2>5. mapping'[k].usage_count <= Len(booked'[k])
    <3>1. Recordings(k) \in Nat /\ Len(booked'[k]) = Recordings(k) + 1
      BY <1>7, Recording DEF StoreUse
    <3>2. /\ s.found.usage_count \in Nat /\ s.found.usage_count <= Recordings(k)
          /\ mapping[k].usage_count \in Nat /\ mapping[k].usage_count <= Recordings(k)
      BY <2>1, <2>3 DEF Backed, Row
    <3>3. new.usage_count \in {s.found.usage_count + 1, 1}
      BY <2>1 DEF Used, Row
    <3>4. mapping'[k].usage_count \in {new.usage_count, mapping[k].usage_count}
      BY <2>1 DEF Flushed, Row
    <3>5. QED
      BY <3>1, <3>2, <3>3, <3>4
  <2>6. mapping'[k].account \in {a, mapping[k].account}
    BY <2>1 DEF Flushed, Used, Row
  <2>7. \E n \in 1..Len(booked'[k]) : booked'[k][n] = mapping'[k].account
    <3>1. CASE mapping'[k].account = a
      BY <1>7, <3>1, Recording DEF StoreUse
    <3>2. CASE mapping'[k].account = mapping[k].account
      BY <2>1, <2>3, <2>4, <3>2 DEF BackedAfter
    <3>3. QED
      BY <2>6, <3>1, <3>2
  <2>8. BackedAfter(k, mapping'[k])
    BY <2>5, <2>7 DEF BackedAfter
  <2>9. QED
    BY <1>7, <2>2, <2>8, Recording, Finished DEF StoreUse, StepEffects, RowEarned
<1>8. CASE StoreFails(t)
  BY <1>8, HistoryUnchanged, Finished DEF StoreFails, StepEffects, RowEarned
<1>9. CASE Delete(t)
  <2>1. \A k \in Keys : RowEarned(k)
    BY <1>9 DEF Delete, TypeOK, RowEarned
  <2>2. QED
    BY <1>9, <2>1, HistoryUnchanged, Finished DEF Delete, StepEffects
<1>10. CASE ResolveNext(t)
  <2> DEFINE k == Head(session[t].left)
  <2>1. session'[t].lines = session[t].lines \cup {<<k, Resolved(k)>>}
    BY <1>10 DEF ResolveNext, TypeOK, Session
  <2>2. session'[t].found = session[t].found /\ session'[t].key = session[t].key
    BY <1>10 DEF ResolveNext, TypeOK, Session
  <2>3. \A u \in Tasks \ {t} : session'[u] = session[u]
    BY <1>10 DEF ResolveNext, TypeOK
  <2>4. \A u \in Tasks : FoundLoaded(u) /\ LinesResolved(u)
    BY <2>1, <2>2, <2>3 DEF FoundLoaded, LinesResolved
  <2>5. QED
    BY <1>10, <2>4, HistoryUnchanged DEF ResolveNext, StepEffects, RowEarned
<1>11. CASE EndExport(t)
  BY <1>11, HistoryUnchanged, Finished DEF EndExport, StepEffects, RowEarned
<1>12. QED
  BY <1>2, <1>3, <1>4, <1>5, <1>6, <1>7, <1>8, <1>9, <1>10, <1>11 DEF Request, Step

\* The initial state has neither rows nor exports, and every step keeps what it
\* loads, writes and exports earned.
THEOREM Earned == Spec => []IInv
<1>1. Init => IInv
  <2> SUFFICES ASSUME Init PROVE CountIsEarned /\ FoundIsEarned /\ ExportIsEarned
    BY ClosedType DEF IInv, Init, TypeOK, Steps
  <2>1. Closed.found = NoMapping /\ Closed.lines = {}
    BY DEF Closed, Fresh
  <2>2. QED
    BY <2>1 DEF Init, CountIsEarned, FoundIsEarned, ExportIsEarned
<1>2. IInv /\ TypeOK' /\ [Next]_vars => IInv'
  BY StepHasEffects, EffectsKeepInvariant
<1>3. QED
  BY <1>1, <1>2, TypeCorrect, PTL DEF Spec

\* An account is not applied automatically before its vendor was booked four
\* times: the usage count never exceeds the recordings (upsert).
THEOREM CountEarned == Spec => []CountIsEarned
BY Earned, PTL DEF IInv

\* Whatever an export (resolve_for_export) puts on an invoice was learned.
THEOREM ExportEarned == Spec => []ExportIsEarned
BY Earned, PTL DEF IInv

=============================================================================
