-------------------------- MODULE Migrations_proofs --------------------------
(***************************************************************************)
(* Proofs about Migrations, for every set of tables that the application   *)
(* fills and any number of rows, commands and broken runs.                 *)
(***************************************************************************)
EXTENDS Migrations, WellFoundedInduction, TLAPS

-----------------------------------------------------------------------------
(* Induction over numbers.                                                 *)

Smaller == {p \in Nat \X Nat : p[1] < p[2]}

\* A set of numbers that is not empty has a least element.
LEMMA Least ==
    ASSUME NEW T, T \subseteq Nat, T # {}
    PROVE  \E n \in T : \A m \in T : n <= m
<1>0. IsWellFoundedOn(Smaller, Nat)
  BY NatLessThanWellFounded DEF OpToRel, Smaller
<1>1. PICK x \in T : \A y \in T : ~(<<y, x>> \in Smaller)
  BY <1>0, WFMin
<1>2. ASSUME NEW y \in T PROVE x <= y
  <2>1. <<y, x>> \in Nat \X Nat /\ x \in Nat /\ y \in Nat
    OBVIOUS
  <2>2. ~(y < x)
    BY <1>1, <2>1 DEF Smaller
  <2>3. QED
    BY <2>1, <2>2
<1>3. QED
  BY <1>2

\* What holds of 0, and of k + 1 if of k, holds of every number up to n.
LEMMA UpTo ==
    ASSUME NEW n \in Nat, NEW S, 0 \in S, \A k \in 0..(n - 1) : k \in S => k + 1 \in S
    PROVE  0..n \subseteq S
<1>1. SUFFICES ASSUME (0..n) \ S # {} PROVE FALSE
  OBVIOUS
<1>2. (0..n) \ S \subseteq Nat
  OBVIOUS
<1>3. PICK k \in (0..n) \ S : \A m \in (0..n) \ S : k <= m
  BY <1>1, <1>2, Least
<1>4. k # 0 /\ k - 1 \in 0..(n - 1)
  BY <1>3
<1>5. k - 1 \in S
  <2>1. k - 1 \in 0..n /\ ~(k <= k - 1)
    BY <1>3, <1>4
  <2>2. QED
    BY <1>3, <2>1
<1>6. QED
  BY <1>3, <1>4, <1>5

-----------------------------------------------------------------------------
(* The fields of objects, statements and databases.                        *)

\* A database, whatever its objects and rows are.
IsDatabase(d) ==
    /\ d = [schema |-> d.schema, rows |-> d.rows, rev |-> d.rev, ok |-> d.ok]
    /\ d.rows = [t \in Tables |-> d.rows[t]]
    /\ d.ok \in BOOLEAN

\* What the constructors put into the fields of an object.
LEMMA Fields ==
    ASSUME NEW kind, NEW on, NEW cols, NEW to
    PROVE  /\ Object(kind, on, cols, to).kind = kind
           /\ Object(kind, on, cols, to).on = on
           /\ Object(kind, on, cols, to).cols = cols
           /\ Object(kind, on, cols, to).to = to
BY DEF Object

\* The fields of a statement.
Does(s, new, ensured, gone, removed, filled, bare) ==
    /\ s.new = new /\ s.ensured = ensured /\ s.gone = gone /\ s.removed = removed
    /\ s.filled = filled /\ s.bare = bare

\* What the constructors of statements put into them.
LEMMA StatementFields ==
    /\ \A X : Does(Create(X), X, {}, {}, {}, {}, {}) /\ Does(Ensure(X), {}, X, {}, {}, {}, {})
    /\ \A g : Does(Drop(g), {}, {}, {g}, {}, {}, {}) /\ Does(DropIfExists(g), {}, {}, {}, {g}, {}, {})
    /\ \A t, c : /\ Does(AddColumn(t, c), Optional(t, {c}), {}, {}, {}, {}, {})
                 /\ Does(AddWithDefault(t, c), Needed(t, {c}), {}, {}, {}, {<<t, c>>}, {})
                 /\ Does(AddBare(t, c), Needed(t, {c}), {}, {}, {}, {}, {<<t, c>>})
                 /\ Does(Update(t, c), {}, {}, {}, {}, {<<t, c>>}, {})
                 /\ Does(SetNotNull(t, c), {NotNull(t, c)}, {}, {}, {}, {}, {<<t, c>>})
BY DEF Does, Statement, Create, Ensure, Drop, DropIfExists, AddColumn, AddWithDefault, AddBare,
       Update, SetNotNull

-----------------------------------------------------------------------------
(* One statement, and several in a row.                                    *)

\* The values that a statement fills in, and the rows of a table after it.
Values(s, t) == {f[2] : f \in {x \in s.filled : x[1] = t}}
RowsAfter(d, s, t) == UNION {Lost(Gone(d.schema, s), t, r \cup Values(s, t)) : r \in d.rows[t]}

\* A statement leads from a database to one with the same revision.
LEMMA ExecuteType ==
    ASSUME NEW d, IsDatabase(d), NEW s
    PROVE  /\ IsDatabase(Execute(d, s))
           /\ Execute(d, s).rev = d.rev
           /\ Execute(d, s).ok <=> d.ok /\ Possible(d, s)
           /\ Execute(d, s).ok =>
                /\ Execute(d, s).schema = ((d.schema \ Gone(d.schema, s)) \cup s.new) \cup s.ensured
                /\ \A t \in Tables : Execute(d, s).rows[t] = RowsAfter(d, s, t)
<1> DEFINE schema == ((d.schema \ Gone(d.schema, s)) \cup s.new) \cup s.ensured
           rows == [t \in Tables |-> RowsAfter(d, s, t)]
<1>1. Effect(d, s) = [d EXCEPT !.schema = schema, !.rows = rows]
  BY DEF Effect, RowsAfter, Values
<1>0. rows = [t \in Tables |-> rows[t]]
  OBVIOUS
<1> HIDE DEF schema, rows
<1>2. /\ IsDatabase(Effect(d, s)) /\ Effect(d, s).rev = d.rev /\ Effect(d, s).ok = d.ok
      /\ Effect(d, s).schema = schema /\ Effect(d, s).rows = rows
  BY <1>0, <1>1 DEF IsDatabase
<1>3. IsDatabase([d EXCEPT !.ok = FALSE]) /\ [d EXCEPT !.ok = FALSE].rev = d.rev
      /\ [d EXCEPT !.ok = FALSE].ok = FALSE
  <2>1. ASSUME NEW b \in BOOLEAN
        PROVE  /\ IsDatabase([d EXCEPT !.ok = b]) /\ [d EXCEPT !.ok = b].rev = d.rev
               /\ [d EXCEPT !.ok = b].ok = b
    BY DEF IsDatabase
  <2>2. QED
    BY <2>1
<1>4. IsDatabase(Execute(d, s)) /\ Execute(d, s).rev = d.rev
  BY <1>2, <1>3 DEF Execute
<1>5. d.ok \in BOOLEAN
  BY DEF IsDatabase
<1>6. Execute(d, s).ok <=> d.ok /\ Possible(d, s)
  BY <1>2, <1>3, <1>5 DEF Execute
<1>7. ASSUME Execute(d, s).ok
      PROVE  Execute(d, s).schema = schema /\ Execute(d, s).rows = rows
  BY <1>2, <1>6, <1>7 DEF Execute
<1>8. \A t \in Tables : rows[t] = RowsAfter(d, s, t)
  BY DEF rows
<1>9. QED
  BY <1>4, <1>6, <1>7, <1>8 DEF schema

\* The databases that the first n statements lead through.
Steps(d, S, h, n) ==
    /\ h = [k \in 0..n |-> h[k]]
    /\ h[0] = d
    /\ \A k \in 0..n : IsDatabase(h[k]) /\ h[k].rev = d.rev
    /\ \A k \in 1..n : h[k] = Execute(h[k - 1], S[k])

\* Statements lead through databases.
LEMMA Through ==
    ASSUME NEW d, IsDatabase(d), NEW S, Len(S) \in Nat
    PROVE  /\ IsDatabase(Executed(d, S)) /\ Executed(d, S).rev = d.rev
           /\ \E h : Steps(d, S, h, Len(S)) /\ Executed(d, S) = h[Len(S)]
<1> DEFINE n == Len(S)
           Good == {k \in Nat : \E h : Steps(d, S, h, k)}
<1>1. 0 \in Good
  <2> DEFINE h == [k \in 0..0 |-> d]
  <2>1. Steps(d, S, h, 0)
    BY DEF Steps
  <2>2. QED
    BY <2>1
<1>2. ASSUME NEW k \in 0..(n - 1), k \in Good PROVE k + 1 \in Good
  <2>1. PICK h : Steps(d, S, h, k)
    BY <1>2
  <2> DEFINE g == [j \in 0..(k + 1) |-> IF j = k + 1 THEN Execute(h[k], S[k + 1]) ELSE h[j]]
  <2>2. IsDatabase(h[k]) /\ h[k].rev = d.rev
    BY <2>1 DEF Steps
  <2>3. IsDatabase(Execute(h[k], S[k + 1])) /\ Execute(h[k], S[k + 1]).rev = d.rev
    BY <2>2, ExecuteType
  <2>4. g[0] = d /\ \A j \in 1..(k + 1) : g[j] = Execute(g[j - 1], S[j])
    <3>1. h[0] = d /\ \A j \in 1..k : h[j] = Execute(h[j - 1], S[j])
      BY <2>1 DEF Steps
    <3>2. ASSUME NEW j \in 1..(k + 1) PROVE g[j] = Execute(g[j - 1], S[j])
      <4>1. j - 1 \in 0..(k + 1) /\ j - 1 # k + 1 /\ g[j - 1] = h[j - 1]
        OBVIOUS
      <4>2. CASE j = k + 1
        BY <4>1, <4>2
      <4>3. CASE j # k + 1
        BY <3>1, <4>1, <4>3
      <4>4. QED
        BY <4>2, <4>3
    <3>3. QED
      BY <3>1, <3>2
  <2>5. ASSUME NEW j \in 0..(k + 1) PROVE IsDatabase(g[j]) /\ g[j].rev = d.rev
    BY <2>1, <2>3 DEF Steps
  <2>6. g = [j \in 0..(k + 1) |-> g[j]]
    OBVIOUS
  <2>7. Steps(d, S, g, k + 1)
    <3> HIDE DEF g
    <3> QED BY <2>4, <2>5, <2>6 DEF Steps
  <2>8. QED
    BY <2>7
<1>3. n \in Good
  <2> HIDE DEF Good
  <2>1. 0..n \subseteq Good
    BY <1>1, <1>2, UpTo
  <2>2. QED
    BY <2>1
<1> DEFINE After(f) == f = [k \in 0..n |-> IF k = 0 THEN d ELSE Execute(f[k - 1], S[k])]
<1>4. PICK h : Steps(d, S, h, n)
  BY <1>3
<1>5. After(h)
  <2>1. h = [k \in 0..n |-> h[k]]
    BY <1>4 DEF Steps
  <2>2. h[0] = d /\ \A k \in 1..n : h[k] = Execute(h[k - 1], S[k])
    BY <1>4 DEF Steps
  <2>3. \A k \in 0..n : h[k] = IF k = 0 THEN d ELSE Execute(h[k - 1], S[k])
    BY <2>2
  <2>4. QED
    BY <2>1, <2>3
<1>6. Executed(d, S) = (CHOOSE f : After(f))[n]
  BY DEF Executed
<1>7. PICK f : After(f) /\ Executed(d, S) = f[n]
  <2> HIDE DEF After
  <2> QED BY <1>5, <1>6
<1>8. f[0] = d /\ \A k \in 1..n : f[k] = Execute(f[k - 1], S[k])
  <2>1. \A k \in 0..n : f[k] = IF k = 0 THEN d ELSE Execute(f[k - 1], S[k])
    BY <1>7
  <2>2. QED
    BY <2>1
<1>9. \A k \in 0..n : IsDatabase(f[k]) /\ f[k].rev = d.rev
  <2> DEFINE Fine == {k \in Nat : IsDatabase(f[k]) /\ f[k].rev = d.rev}
  <2>1. 0 \in Fine
    BY <1>8
  <2>2. ASSUME NEW k \in 0..(n - 1), k \in Fine PROVE k + 1 \in Fine
    <3>1. k + 1 \in 1..n /\ (k + 1) - 1 = k
      OBVIOUS
    <3>2. f[k + 1] = Execute(f[k], S[k + 1])
      BY <1>8, <3>1
    <3>3. IsDatabase(f[k]) /\ f[k].rev = d.rev
      BY <2>2
    <3>4. IsDatabase(Execute(f[k], S[k + 1])) /\ Execute(f[k], S[k + 1]).rev = d.rev
      BY <3>3, ExecuteType
    <3>5. QED
      BY <3>2, <3>4
  <2>3. 0..n \subseteq Fine
    <3> HIDE DEF Fine
    <3> QED BY <2>1, <2>2, UpTo
  <2>4. QED
    BY <2>3
<1>10. Steps(d, S, f, n)
  <2>1. f = [k \in 0..n |-> f[k]]
    BY <1>7
  <2>2. QED
    BY <1>8, <1>9, <2>1 DEF Steps
<1>11. QED
  BY <1>7, <1>9, <1>10

\* The rows of a table have values in columns of the table only.
RowsFit(d) == \A t \in Tables : d.rows[t] \subseteq SUBSET Names(d.schema, "column", t)

\* What belongs to a table names columns that the table has.
Grounded(schema) ==
    \A o \in schema : o.kind \in Attached => \A c \in o.cols : Column(o.on, c) \in schema

\* Rows fit and objects are grounded after a statement if they were before.
LEMMA StatementKeeps ==
    ASSUME NEW d, IsDatabase(d), NEW s, Execute(d, s).ok,
           RowsFit(d), Grounded(d.schema), \A o \in s.ensured : o.kind \notin Attached
    PROVE  RowsFit(Execute(d, s)) /\ Grounded(Execute(d, s).schema)
<1> DEFINE e == Execute(d, s)
           gone == Gone(d.schema, s)
           values(t) == Values(s, t)
<1>1. Possible(d, s)
  BY ExecuteType
<1>2. e.schema = ((d.schema \ gone) \cup s.new) \cup s.ensured
  BY ExecuteType
<1>3. \A t \in Tables : e.rows[t] = UNION {Lost(gone, t, r \cup values(t)) : r \in d.rows[t]}
  BY ExecuteType DEF RowsAfter
<1> HIDE DEF e, values
<1>4. ASSUME NEW t \in Tables, NEW x \in e.rows[t], NEW c \in x
      PROVE  c \in Names(e.schema, "column", t)
  <2>0. e.rows[t] = UNION {Lost(gone, t, r \cup values(t)) : r \in d.rows[t]}
    BY <1>3
  <2>1. PICK r \in d.rows[t] : x \in Lost(gone, t, r \cup values(t))
    BY <2>0, <1>4
  <2>2. /\ c \in r \cup values(t)
        /\ \A o \in gone : o.kind = "column" /\ o.on = t => c \notin o.cols
    BY <1>4, <2>1 DEF Lost
  <2>3. CASE c \in r
    <3>1. c \in Names(d.schema, "column", t)
      BY <2>3 DEF RowsFit
    <3>2. PICK o \in d.schema : o.kind = "column" /\ o.on = t /\ c \in o.cols
      BY <3>1 DEF Names
    <3>3. o \in e.schema
      BY <1>2, <2>2, <3>2
    <3>4. QED
      BY <3>2, <3>3 DEF Names
  <2>4. CASE c \in values(t)
    <3>1. PICK f \in s.filled : f[1] = t /\ f[2] = c
      BY <2>4 DEF values, Values
    <3>2. Column(t, c) \in (d.schema \ gone) \cup s.new
      BY <1>1, <3>1 DEF Possible
    <3>3. Column(t, c).kind = "column" /\ Column(t, c).on = t /\ Column(t, c).cols = {c}
      BY Fields DEF Column
    <3>4. QED
      BY <1>2, <3>2, <3>3 DEF Names
  <2>5. QED
    BY <2>2, <2>3, <2>4
<1>5. ASSUME NEW o \in e.schema, o.kind \in Attached, NEW c \in o.cols
      PROVE  Column(o.on, c) \in e.schema
  <2> DEFINE g == Column(o.on, c)
  <2>1. g.kind = "column" /\ g.on = o.on /\ g.cols = {c}
    BY Fields DEF Column
  <2> HIDE DEF g
  <2>2. CASE o \in s.new
    <3>1. g \in (d.schema \ gone) \cup s.new
      BY <1>1, <1>5, <2>2 DEF Possible, g
    <3>2. QED
      BY <1>2, <3>1 DEF g
  <2>3. CASE o \notin s.new
    <3>1. o \in d.schema \ gone
      BY <1>2, <1>5, <2>3
    <3>2. g \in d.schema
      BY <1>5, <3>1 DEF Grounded, g
    <3>3. g \notin gone
      <4>1. SUFFICES ASSUME NEW x \in s.gone \cup s.removed, FallsWith(g, x)
                     PROVE  FallsWith(o, x)
        BY <3>1, <3>2 DEF Gone
      <4>2. CASE g = x
        BY <2>1, <4>2 DEF FallsWith
      <4>3. CASE g # x
        BY <2>1, <4>1, <4>3 DEF FallsWith
      <4>4. QED
        BY <4>2, <4>3
    <3>4. QED
      BY <1>2, <3>2, <3>3 DEF g
  <2>4. QED
    BY <2>2, <2>3
<1>6. QED
  <2>1. RowsFit(e)
    BY <1>4 DEF RowsFit
  <2>2. Grounded(e.schema)
    BY <1>5 DEF Grounded
  <2>3. QED
    BY <2>1, <2>2 DEF e

\* Statements that succeed together succeed one by one.
LEMMA AllSucceed ==
    ASSUME NEW d, IsDatabase(d), NEW S, Len(S) \in Nat, NEW h, Steps(d, S, h, Len(S)),
           h[Len(S)].ok
    PROVE  \A k \in 0..Len(S) : h[k].ok
<1> DEFINE n == Len(S)
           Good == {j \in Nat : j <= n => h[n - j].ok}
<1>0. n \in Nat
  OBVIOUS
<1>1. 0 \in Good
  OBVIOUS
<1>2. ASSUME NEW j \in 0..(n - 1), j \in Good PROVE j + 1 \in Good
  <2>1. h[n - j].ok /\ n - j \in 1..n /\ n - (j + 1) = (n - j) - 1
    BY <1>2
  <2>2. h[n - j] = Execute(h[(n - j) - 1], S[n - j])
    BY <2>1 DEF Steps
  <2>3. IsDatabase(h[(n - j) - 1])
    BY <2>1 DEF Steps
  <2>4. h[(n - j) - 1].ok
    <3>1. \A d1, s : IsDatabase(d1) /\ Execute(d1, s).ok => d1.ok
      BY ExecuteType
    <3>2. QED
      BY <2>1, <2>2, <2>3, <3>1
  <2>5. QED
    BY <2>1, <2>4
<1>3. 0..n \subseteq Good
  <2> HIDE DEF Good
  <2> QED BY <1>0, <1>1, <1>2, UpTo
<1>4. ASSUME NEW k \in 0..n PROVE h[k].ok
  <2>1. n - k \in 0..n /\ n - (n - k) = k /\ n - k <= n
    OBVIOUS
  <2>2. n - k \in Good
    BY <1>3, <2>1
  <2>3. h[n - (n - k)].ok
    BY <2>1, <2>2
  <2>4. QED
    BY <2>1, <2>3
<1>5. QED
  BY <1>4

\* What statements that succeed leave as it should be.
LEMMA ExecutedKeeps ==
    ASSUME NEW d, IsDatabase(d), NEW S, Len(S) \in Nat, Executed(d, S).ok,
           RowsFit(d), Grounded(d.schema),
           \A k \in 1..Len(S) : \A o \in S[k].ensured : o.kind \notin Attached
    PROVE  /\ RowsFit(Executed(d, S)) /\ Grounded(Executed(d, S).schema)
           /\ Len(S) > 0 => Possible(d, S[1])
<1> DEFINE n == Len(S)
           Good(h) == {k \in Nat : RowsFit(h[k]) /\ Grounded(h[k].schema)}
<1>0. n \in Nat
  OBVIOUS
<1>1. PICK h : Steps(d, S, h, n) /\ Executed(d, S) = h[n]
  BY Through
<1>2. \A k \in 0..n : h[k].ok
  BY <1>1, AllSucceed
<1>3. ASSUME NEW k \in 0..(n - 1)
      PROVE  /\ IsDatabase(h[k])
             /\ h[k + 1] = Execute(h[k], S[k + 1]) /\ h[k + 1].ok
             /\ \A o \in S[k + 1].ensured : o.kind \notin Attached
  <2>1. k + 1 \in 1..n /\ (k + 1) - 1 = k /\ k \in 0..n /\ k + 1 \in 0..n
    OBVIOUS
  <2>2. QED
    BY <1>1, <1>2, <2>1 DEF Steps
<1>4. 0 \in Good(h)
  BY <1>1 DEF Steps
<1>5. ASSUME NEW k \in 0..(n - 1), k \in Good(h) PROVE k + 1 \in Good(h)
  BY <1>3, <1>5, StatementKeeps
<1>6. 0..n \subseteq Good(h)
  <2> HIDE DEF Good
  <2> QED BY <1>0, <1>4, <1>5, UpTo
<1>7. ASSUME n > 0 PROVE Possible(d, S[1])
  <2>1. h[0] = d
    BY <1>1 DEF Steps
  <2>2. 0 \in 0..(n - 1) /\ 0 + 1 = 1
    BY <1>0, <1>7
  <2>3. Execute(d, S[1]).ok
    BY <1>3, <2>1, <2>2
  <2>4. QED
    BY <2>3, ExecuteType
<1>8. QED
  BY <1>0, <1>1, <1>6, <1>7

-----------------------------------------------------------------------------
(* Upgrades add objects, and drop nothing but indexes.                     *)

\* What the statements up to the k-th create, and what they drop.
Created(S, k) == UNION {S[j].new \cup S[j].ensured : j \in 1..k}
Dropped(S, k) == UNION {S[j].gone : j \in 1..k}

\* What a statement creates finds what it refers to.
Supported(s, objects) ==
    /\ \A o \in s.new :
         /\ o.kind \in Attached
              => Table(o.on) \in objects /\ \A c \in o.cols : Column(o.on, c) \in objects
         /\ o.kind = "reference" => Table(o.to[1]) \in objects
         /\ o.kind = "typed" => {Type(o.to[1]), Extension(o.to[1])} \cap objects # {}
    /\ \A f \in s.filled : Column(f[1], f[2]) \in objects

\* No row is lost or appears, and no row loses a value.
Grew(old, new) ==
    \A t \in Tables :
        /\ \A r \in old[t] : \E x \in new[t] : r \subseteq x
        /\ \A x \in new[t] : \E r \in old[t] : r \subseteq x

\* Every row of the tables has the values.
Filled(rows, values) == \A t \in Tables : \A x \in rows[t] : \A f \in values : f[1] = t => f[2] \in x

\* A statement of an upgrade can be executed, and what it does.
LEMMA AddStep ==
    ASSUME NEW d, IsDatabase(d), d.ok, NEW s, s.removed = {},
           \A g \in s.gone : g.kind = "index" /\ g \in d.schema,
           s.new \cap d.schema = {}, s.gone \cap s.new = {},
           Supported(s, d.schema \cup s.new), Filled(d.rows, s.bare),
           \A b \in s.bare : b[1] \in Tables
    PROVE  /\ Execute(d, s).ok
           /\ Execute(d, s).schema = ((d.schema \ s.gone) \cup s.new) \cup s.ensured
           /\ Grew(d.rows, Execute(d, s).rows)
           /\ Filled(Execute(d, s).rows, s.filled)
<1> DEFINE e == Execute(d, s)
           gone == Gone(d.schema, s)
           values(t) == Values(s, t)
<1>1. gone = s.gone
  <2>1. \A g \in s.gone : \A o : FallsWith(o, g) <=> o = g
    BY DEF FallsWith
  <2>2. QED
    BY <2>1 DEF Gone
<1>2. Supported(s, (d.schema \ gone) \cup s.new)
  <2>1. ASSUME NEW x \in d.schema, x.kind \in {"table", "column", "type", "extension"}
        PROVE  x \notin gone
    BY <1>1, <2>1
  <2>2. \A t, c : Table(t).kind = "table" /\ Column(t, c).kind = "column"
                  /\ Type(t).kind = "type" /\ Extension(t).kind = "extension"
    BY Fields DEF Table, Column, Type, Extension
  <2>3. /\ \A t : Table(t) \in d.schema \cup s.new => Table(t) \in (d.schema \ gone) \cup s.new
        /\ \A t, c : Column(t, c) \in d.schema \cup s.new => Column(t, c) \in (d.schema \ gone) \cup s.new
        /\ \A t : Type(t) \in d.schema \cup s.new => Type(t) \in (d.schema \ gone) \cup s.new
        /\ \A t : Extension(t) \in d.schema \cup s.new => Extension(t) \in (d.schema \ gone) \cup s.new
    BY <2>1, <2>2
  <2>4. ASSUME NEW n, {Type(n), Extension(n)} \cap (d.schema \cup s.new) # {}
        PROVE  {Type(n), Extension(n)} \cap ((d.schema \ gone) \cup s.new) # {}
    BY <2>3, <2>4
  <2>5. QED
    <3> HIDE DEF gone
    <3> QED BY <2>3, <2>4 DEF Supported
<1>3. Possible(d, s)
  <2>1. \A o \in d.schema, g \in s.gone \cup s.removed : ~Holds(o, g)
    BY DEF Holds
  <2>2. \A b \in s.bare : \A r \in d.rows[b[1]] : b[2] \in r
    BY DEF Filled
  <2>3. s.gone \subseteq d.schema
    OBVIOUS
  <2>4. QED
    BY <1>2, <2>1, <2>2, <2>3 DEF Possible, Supported
<1>4. /\ e.ok
      /\ e.schema = ((d.schema \ gone) \cup s.new) \cup s.ensured
      /\ \A t \in Tables : e.rows[t] = UNION {Lost(gone, t, r \cup values(t)) : r \in d.rows[t]}
  <2>1. e.ok
    BY <1>3, ExecuteType
  <2>2. e.schema = ((d.schema \ gone) \cup s.new) \cup s.ensured
    BY <2>1, ExecuteType
  <2>3. ASSUME NEW t \in Tables
        PROVE  e.rows[t] = UNION {Lost(gone, t, r \cup values(t)) : r \in d.rows[t]}
    <3>1. e.rows[t] = RowsAfter(d, s, t)
      BY <2>1, ExecuteType
    <3>2. QED
      BY <3>1 DEF RowsAfter
  <2>4. QED
    BY <2>1, <2>2, <2>3
<1> HIDE DEF e, gone
<1>5. ASSUME NEW t \in Tables, NEW r PROVE Lost(gone, t, r) = {r}
  <2>1. \A o \in gone : o.kind = "index"
    BY <1>1
  <2>2. Table(t) \notin gone
    BY <2>1, Fields DEF Table
  <2>3. {o \in gone : o.kind = "column" /\ o.on = t} = {}
    BY <2>1
  <2>4. QED
    BY <2>2, <2>3 DEF Lost
<1>6. ASSUME NEW t \in Tables PROVE e.rows[t] = {r \cup values(t) : r \in d.rows[t]}
  <2>1. e.rows[t] = UNION {Lost(gone, t, r \cup values(t)) : r \in d.rows[t]}
    BY <1>4
  <2>2. \A r \in d.rows[t] : Lost(gone, t, r \cup values(t)) = {r \cup values(t)}
    BY <1>5
  <2> HIDE DEF values
  <2>3. ASSUME NEW r \in d.rows[t], NEW x
        PROVE  x \in Lost(gone, t, r \cup values(t)) <=> x = r \cup values(t)
    BY <2>2
  <2>4. ASSUME NEW x
        PROVE  x \in e.rows[t] <=> \E r \in d.rows[t] : x \in Lost(gone, t, r \cup values(t))
    BY <2>1
  <2>5. \A x : x \in e.rows[t] <=> \E r \in d.rows[t] : x = r \cup values(t)
    BY <2>3, <2>4
  <2>6. QED
    BY <2>5
<1>7. Grew(d.rows, e.rows)
  <2> HIDE DEF values
  <2>1. SUFFICES ASSUME NEW t \in Tables
                 PROVE  /\ \A r \in d.rows[t] : \E x \in e.rows[t] : r \subseteq x
                        /\ \A x \in e.rows[t] : \E r \in d.rows[t] : r \subseteq x
    BY DEF Grew
  <2>2. e.rows[t] = {r \cup values(t) : r \in d.rows[t]}
    BY <1>6
  <2>3. \A r \in d.rows[t] : r \cup values(t) \in e.rows[t] /\ r \subseteq r \cup values(t)
    BY <2>2
  <2>4. QED
    BY <2>2, <2>3
<1>8. Filled(e.rows, s.filled)
  <2>1. ASSUME NEW t \in Tables, NEW x \in e.rows[t], NEW f \in s.filled, f[1] = t
        PROVE  f[2] \in x
    <3>1. f[2] \in values(t)
      BY <2>1 DEF Values
    <3> HIDE DEF values
    <3>2. QED
      BY <1>6, <2>1, <3>1
  <2>2. QED
    BY <2>1 DEF Filled
<1>9. QED
  BY <1>1, <1>4, <1>7, <1>8 DEF e

\* The statements of an upgrade fit a database.
Adds(S, d) ==
    \A k \in 1..Len(S) :
        LET s == S[k]
            before == (d.schema \cup Created(S, k - 1)) \ Dropped(S, k - 1)
        IN  /\ s.removed = {}
            /\ \A g \in s.gone : g.kind = "index" /\ g \in before /\ g \notin Created(S, Len(S))
            /\ s.new \cap before = {}
            /\ Supported(s, before \cup s.new)
            /\ \A b \in s.bare :
                 /\ b[1] \in Tables
                 /\ (\A r \in d.rows[b[1]] : b[2] \in r) \/ (\E j \in 1..(k - 1) : b \in S[j].filled)

\* What is created and dropped grows statement by statement.
LEMMA CreatedNext ==
    ASSUME NEW S, NEW k \in Nat
    PROVE  /\ Created(S, k + 1) = Created(S, k) \cup (S[k + 1].new \cup S[k + 1].ensured)
           /\ Dropped(S, k + 1) = Dropped(S, k) \cup S[k + 1].gone
           /\ Created(S, 0) = {} /\ Dropped(S, 0) = {}
           /\ \A n \in Nat : k <= n => Created(S, k) \subseteq Created(S, n)
<1>1. 1..(k + 1) = (1..k) \cup {k + 1} /\ 1..0 = {}
  OBVIOUS
<1>2. \A n \in Nat : k <= n => 1..k \subseteq 1..n
  OBVIOUS
<1>3. QED
  BY <1>1, <1>2 DEF Created, Dropped

\* Statements that fit are executed, one after the other.
LEMMA AddsApply ==
    ASSUME NEW d, IsDatabase(d), d.ok, NEW S, Len(S) \in Nat, Adds(S, d)
    PROVE  /\ Executed(d, S).ok
           /\ Executed(d, S).schema = (d.schema \cup Created(S, Len(S))) \ Dropped(S, Len(S))
           /\ Grew(d.rows, Executed(d, S).rows)
           /\ \A j \in 1..Len(S) : Filled(Executed(d, S).rows, S[j].filled)
<1> DEFINE n == Len(S)
           Fine(h, k) == /\ h[k].ok
                         /\ h[k].schema = (d.schema \cup Created(S, k)) \ Dropped(S, k)
                         /\ Grew(d.rows, h[k].rows)
                         /\ \A j \in 1..k : Filled(h[k].rows, S[j].filled)
           Good(h) == {k \in Nat : Fine(h, k)}
<1>0. n \in Nat
  OBVIOUS
<1>1. PICK h : Steps(d, S, h, n) /\ Executed(d, S) = h[n]
  BY Through
<1>2. 0 \in Good(h)
  <2>1. h[0] = d /\ Created(S, 0) = {} /\ Dropped(S, 0) = {}
    BY <1>1, CreatedNext DEF Steps
  <2>2. Grew(d.rows, d.rows)
    BY DEF Grew
  <2>3. QED
    BY <2>1, <2>2
<1>3. ASSUME NEW k \in 0..(n - 1), Fine(h, k) PROVE Fine(h, k + 1)
  <2> DEFINE s == S[k + 1]
             a == h[k]
             e == h[k + 1]
             before == (d.schema \cup Created(S, k)) \ Dropped(S, k)
  <2>1. k \in Nat /\ k + 1 \in 1..n /\ (k + 1) - 1 = k /\ k \in 0..n /\ k + 1 <= n /\ k + 1 \in Nat
    BY <1>0
  <2>2. IsDatabase(a) /\ e = Execute(a, s)
    BY <1>1, <2>1 DEF Steps
  <2>3. /\ s.removed = {}
        /\ \A g \in s.gone : g.kind = "index" /\ g \in before /\ g \notin Created(S, n)
        /\ s.new \cap before = {}
        /\ Supported(s, before \cup s.new)
        /\ \A b \in s.bare :
             /\ b[1] \in Tables
             /\ (\A r \in d.rows[b[1]] : b[2] \in r) \/ (\E j \in 1..k : b \in S[j].filled)
    BY <2>1 DEF Adds
  <2>4. a.schema = before /\ a.ok
    BY <1>3
  <2>5. /\ Created(S, k + 1) = Created(S, k) \cup (s.new \cup s.ensured)
        /\ Dropped(S, k + 1) = Dropped(S, k) \cup s.gone
        /\ Created(S, k + 1) \subseteq Created(S, n)
    BY <1>0, <2>1, CreatedNext
  <2>6. Filled(a.rows, s.bare)
    <3>1. SUFFICES ASSUME NEW t \in Tables, NEW x \in a.rows[t], NEW b \in s.bare, b[1] = t
                   PROVE  b[2] \in x
      BY DEF Filled
    <3>2. CASE \A r \in d.rows[t] : b[2] \in r
      <4>1. PICK r \in d.rows[t] : r \subseteq x
        BY <1>3, <3>1 DEF Grew
      <4>2. QED
        BY <3>2, <4>1
    <3>3. CASE \E j \in 1..k : b \in S[j].filled
      BY <1>3, <3>1, <3>3 DEF Filled
    <3>4. QED
      BY <2>3, <3>1, <3>2, <3>3
  <2>7. s.gone \cap s.new = {}
    BY <2>3, <2>5
  <2>8. /\ e.ok
        /\ e.schema = ((before \ s.gone) \cup s.new) \cup s.ensured
        /\ Grew(a.rows, e.rows)
        /\ Filled(e.rows, s.filled)
    <3> HIDE DEF a, s, e, before
    <3> QED BY <2>2, <2>3, <2>4, <2>6, <2>7, AddStep
  <2>9. ASSUME NEW g \in Dropped(S, k + 1) PROVE g \notin Created(S, n)
    <3>1. PICK j \in 1..(k + 1) : g \in S[j].gone
      BY <2>9 DEF Dropped
    <3>2. j \in 1..n
      BY <2>1
    <3>3. QED
      BY <3>1, <3>2 DEF Adds
  <2>10. e.schema = (d.schema \cup Created(S, k + 1)) \ Dropped(S, k + 1)
    <3>1. \A g \in Dropped(S, k + 1) : g \notin s.new \cup s.ensured
      BY <2>5, <2>9
    <3> HIDE DEF s, e
    <3>2. QED
      BY <2>5, <2>8, <3>1
  <2>11. Grew(d.rows, e.rows)
    <3> HIDE DEF a, e
    <3>1. Grew(d.rows, a.rows)
      BY <1>3 DEF a
    <3>2. QED
      BY <2>8, <3>1 DEF Grew
  <2>12. ASSUME NEW j \in 1..(k + 1) PROVE Filled(e.rows, S[j].filled)
    <3>1. CASE j = k + 1
      BY <2>8, <3>1
    <3>2. CASE j # k + 1
      <4>1. Filled(a.rows, S[j].filled)
        BY <1>3, <3>2
      <4> HIDE DEF a, e
      <4>2. QED
        BY <2>8, <4>1 DEF Grew, Filled
    <3>3. QED
      BY <3>1, <3>2
  <2>13. QED
    BY <2>8, <2>10, <2>11, <2>12
<1>4. 0..n \subseteq Good(h)
  <2>1. ASSUME NEW k \in 0..(n - 1), k \in Good(h) PROVE k + 1 \in Good(h)
    <3>1. Fine(h, k) /\ k + 1 \in Nat
      BY <2>1
    <3>2. Fine(h, k + 1)
      BY <1>3, <3>1
    <3> HIDE DEF Fine
    <3>3. QED
      BY <3>1, <3>2
  <2> HIDE DEF Good
  <2>2. QED
    BY <1>0, <1>2, <2>1, UpTo
<1>5. Fine(h, n)
  BY <1>0, <1>4
<1>6. QED
  BY <1>1, <1>5

-----------------------------------------------------------------------------
(* Downgrades drop objects, and one of them creates an index again.        *)

\* What the statements up to the k-th drop, IF EXISTS or not, and what stays.
Dropping(S, k) == UNION {S[j].gone \cup S[j].removed : j \in 1..k}
Staying(schema, S, k) == {o \in schema : \A g \in Dropping(S, k) : ~FallsWith(o, g)}

\* The statements of a downgrade fit a schema.
Removes(S, schema) ==
    /\ \A o \in Created(S, Len(S)) : \A g \in Dropping(S, Len(S)) : ~FallsWith(o, g)
    /\ \A k \in 1..Len(S) :
         /\ S[k].ensured = {} /\ S[k].filled = {} /\ S[k].bare = {}
         /\ S[k].new \cap (schema \cup Created(S, k - 1)) = {}
         /\ Supported(S[k], Staying(schema, S, k))
         /\ \A g \in S[k].gone : g \in Staying(schema, S, k - 1)
         /\ \A o \in schema \cup Created(S, k - 1), g \in S[k].gone \cup S[k].removed :
              g \in schema \cup Created(S, k - 1) /\ Holds(o, g) => o \notin Staying(schema, S, k - 1)
                                                                  /\ o \in schema

\* What is dropped grows statement by statement.
LEMMA DroppingNext ==
    ASSUME NEW S, NEW k \in Nat
    PROVE  /\ Dropping(S, k + 1) = Dropping(S, k) \cup (S[k + 1].gone \cup S[k + 1].removed)
           /\ Dropping(S, 0) = {}
           /\ \A n \in Nat : k <= n => Dropping(S, k) \subseteq Dropping(S, n)
<1>1. 1..(k + 1) = (1..k) \cup {k + 1} /\ 1..0 = {}
  OBVIOUS
<1>2. \A n \in Nat : k <= n => 1..k \subseteq 1..n
  OBVIOUS
<1>3. QED
  BY <1>1, <1>2 DEF Dropping

\* Statements that fit are executed, one after the other.
LEMMA RemovesApply ==
    ASSUME NEW d, IsDatabase(d), d.ok, NEW S, Len(S) \in Nat, Removes(S, d.schema)
    PROVE  /\ Executed(d, S).ok
           /\ Executed(d, S).schema
                = Staying(d.schema, S, Len(S)) \cup Created(S, Len(S))
<1> DEFINE n == Len(S)
           B == d.schema
           Fine(h, k) == h[k].ok /\ h[k].schema = Staying(B, S, k) \cup Created(S, k)
           Good(h) == {k \in Nat : Fine(h, k)}
<1>0. n \in Nat
  OBVIOUS
<1>1. PICK h : Steps(d, S, h, n) /\ Executed(d, S) = h[n]
  BY Through
<1>2. 0 \in Good(h)
  <2>1. h[0] = d /\ Created(S, 0) = {} /\ Dropping(S, 0) = {}
    BY <1>1, CreatedNext, DroppingNext DEF Steps
  <2>2. QED
    BY <2>1 DEF Staying
<1>3. ASSUME NEW k \in 0..(n - 1), Fine(h, k) PROVE Fine(h, k + 1)
  <2> DEFINE s == S[k + 1]
             a == h[k]
             e == h[k + 1]
             gone == Gone(a.schema, s)
  <2>1. /\ k \in Nat /\ k + 1 \in 1..n /\ (k + 1) - 1 = k /\ k \in 0..n /\ k + 1 <= n
        /\ k + 1 \in Nat /\ k <= n
    BY <1>0
  <2>2. IsDatabase(a) /\ e = Execute(a, s)
    BY <1>1, <2>1 DEF Steps
  <2>3. a.schema = Staying(B, S, k) \cup Created(S, k) /\ a.ok
    BY <1>3
  <2>4. /\ Created(S, k + 1) = Created(S, k) \cup (s.new \cup s.ensured)
        /\ Created(S, k) \subseteq Created(S, n)
        /\ Created(S, k + 1) \subseteq Created(S, n)
    BY <1>0, <2>1, CreatedNext
  <2>5. /\ Dropping(S, k + 1) = Dropping(S, k) \cup (s.gone \cup s.removed)
        /\ Dropping(S, k + 1) \subseteq Dropping(S, n)
    BY <1>0, <2>1, DroppingNext
  <2>6. \A o \in Created(S, n) : \A g \in Dropping(S, n) : ~FallsWith(o, g)
    BY DEF Removes
  <2>7. /\ s.ensured = {} /\ s.filled = {} /\ s.bare = {}
        /\ s.new \cap (B \cup Created(S, k)) = {}
        /\ Supported(s, Staying(B, S, k + 1))
        /\ \A g \in s.gone : g \in Staying(B, S, k)
        /\ \A o \in B \cup Created(S, k), g \in s.gone \cup s.removed :
             g \in B \cup Created(S, k) /\ Holds(o, g) => o \notin Staying(B, S, k) /\ o \in B
    BY <2>1 DEF Removes
  <2>8. a.schema \ gone = Staying(B, S, k + 1) \cup Created(S, k)
    <3>1. ASSUME NEW o \in Created(S, k) PROVE o \notin gone
      BY <2>4, <2>5, <2>6 DEF Gone
    <3>2. ASSUME NEW o \in B
          PROVE  o \in Staying(B, S, k + 1)
                    <=> o \in Staying(B, S, k) /\ \A g \in s.gone \cup s.removed : ~FallsWith(o, g)
      BY <2>5 DEF Staying
    <3>3. Staying(B, S, k + 1) \subseteq B /\ Staying(B, S, k) \subseteq B
      BY DEF Staying
    <3>4. ASSUME NEW o \in Staying(B, S, k)
          PROVE  o \in gone <=> \E g \in s.gone \cup s.removed : FallsWith(o, g)
      BY <2>3 DEF Gone
    <3> HIDE DEF B, s, a, gone
    <3>5. QED
      BY <2>3, <3>1, <3>2, <3>3, <3>4
  <2>9. Possible(a, s)
    <3>1. s.new \cap a.schema = {}
      <4>1. Staying(B, S, k) \subseteq B
        BY DEF Staying
      <4>2. QED
        BY <2>3, <2>7, <4>1
    <3>2. s.gone \subseteq a.schema
      BY <2>3, <2>7
    <3>3. \A o \in a.schema, g \in s.gone \cup s.removed : g \in a.schema => ~Holds(o, g)
      <4>1. SUFFICES ASSUME NEW o \in a.schema, NEW g \in s.gone \cup s.removed, g \in a.schema, Holds(o, g)
                     PROVE  FALSE
        OBVIOUS
      <4>2. g \in B \cup Created(S, k) /\ o \in B \cup Created(S, k)
        BY <2>3, <4>1 DEF Staying
      <4>3. o \in B /\ o \notin Staying(B, S, k) /\ o \in Created(S, k)
        BY <2>3, <2>7, <4>1, <4>2
      <4>4. o \in Staying(B, S, k)
        <5>1. Dropping(S, k) \subseteq Dropping(S, n)
          BY <1>0, <2>1, DroppingNext
        <5>2. \A g1 \in Dropping(S, k) : ~FallsWith(o, g1)
          BY <2>4, <2>6, <4>3, <5>1
        <5>3. QED
          BY <4>3, <5>2 DEF Staying
      <4>5. QED
        BY <4>3, <4>4
    <3>4. Staying(B, S, k + 1) \subseteq (a.schema \ gone) \cup s.new
      BY <2>8
    <3>5. Supported(s, (a.schema \ gone) \cup s.new)
      <4> DEFINE all == (a.schema \ gone) \cup s.new
                 part == Staying(B, S, k + 1)
      <4>1. part \subseteq all /\ Supported(s, part)
        BY <2>7, <3>4
      <4> HIDE DEF all, part, s, a
      <4>2. Supported(s, all)
        BY <4>1 DEF Supported
      <4>3. QED
        BY <4>2 DEF all
    <3>6. QED
      <4> HIDE DEF s, a
      <4>1. s.filled = {} /\ s.bare = {}
        BY <2>7
      <4>2. QED
        BY <3>1, <3>2, <3>3, <3>5, <4>1 DEF Possible, Supported
  <2>10. e.ok /\ e.schema = ((a.schema \ gone) \cup s.new) \cup s.ensured
    <3> HIDE DEF s, a, e
    <3> QED BY <2>2, <2>3, <2>9, ExecuteType
  <2>11. e.schema = Staying(B, S, k + 1) \cup Created(S, k + 1)
    <3> HIDE DEF s, a, e, gone
    <3> QED BY <2>4, <2>8, <2>10
  <2>12. QED
    BY <2>10, <2>11
<1>4. 0..n \subseteq Good(h)
  <2>1. ASSUME NEW k \in 0..(n - 1), k \in Good(h) PROVE k + 1 \in Good(h)
    <3>1. Fine(h, k) /\ k + 1 \in Nat
      BY <2>1
    <3>2. Fine(h, k + 1)
      BY <1>3, <3>1
    <3> HIDE DEF Fine
    <3>3. QED
      BY <3>1, <3>2
  <2> HIDE DEF Good
  <2>2. QED
    BY <1>0, <1>2, <2>1, UpTo
<1>5. Fine(h, n)
  BY <1>0, <1>4
<1>6. QED
  BY <1>1, <1>5

-----------------------------------------------------------------------------
(* The objects of the revisions.  No two statements of upgrades create the *)
(* same object: the table or type of an object, its kind and its columns   *)
(* tell the revision and the statement it comes from.                      *)

Changes == {"version", "is_reviewed", "reviewed_at", "reviewed_by_user_id", "line_items"}
Amounts == {"net_amount", "tax_amount"}
Verifications == {"email_verified_at", "email_verification_token_hash",
                  "email_verification_expires_at", "email_verification_sent_at"}
Extractions == {"extraction_status", "extraction_result", "extraction_error", "extracted_at",
                "extraction_attempts"}
NumberIndex == Index("invoices", {"invoice_number"})

\* The revision that creates an object, by its table or type and its columns.
Born(on, cols) ==
    CASE on = "invoices" -> IF cols \cap Changes # {} THEN 11
                            ELSE IF cols \cap Amounts # {} THEN 9
                            ELSE IF "tenant_id" \in cols THEN 5 ELSE 1
      [] on = "llm_audit_entries" -> IF "tenant_id" \in cols THEN 6 ELSE 3
      [] on = "invoice_embeddings" -> 4
      [] on = "tenants" -> 7
      [] on = "users" -> IF cols \cap Verifications # {} THEN 10 ELSE 7
      [] on = "invoice_files" -> IF "extraction_method" \in cols THEN 13
                                 ELSE IF cols \cap Extractions # {} THEN 9 ELSE 8
      [] on = "invoice_edits" -> 11
      [] on = "vendor_account_mappings" -> 12
      [] on = "invoice_status" -> 1
      [] on = "vector" -> 2
      [] on = "extraction_status" -> IF "not_an_invoice" \in cols THEN 14 ELSE 9
      [] on = "pgcrypto" -> 12
      [] on = "extraction_method" -> 13
      [] OTHER -> 15

\* The statement of that revision.
Turn(kind, on, cols) ==
    CASE on = "invoices" -> IF kind = "index" THEN IF "invoice_number" \in cols THEN 2
                                                   ELSE IF "status" \in cols THEN 3 ELSE 4
                            ELSE IF kind = "key" THEN 3
                            ELSE IF kind = "reference" THEN 5
                            ELSE IF "is_reviewed" \in cols THEN 2
                            ELSE IF "reviewed_at" \in cols THEN 3
                            ELSE IF "reviewed_by_user_id" \in cols THEN 4
                            ELSE IF "line_items" \in cols THEN 6
                            ELSE IF "net_amount" \in cols THEN 9
                            ELSE IF "tax_amount" \in cols THEN 10 ELSE 1
      [] on = "llm_audit_entries" -> IF kind = "index" THEN IF "tenant_id" \in cols THEN 4 ELSE 2
                                     ELSE IF kind = "not_null" /\ "tenant_id" \in cols THEN 3 ELSE 1
      [] on = "invoice_embeddings" -> IF kind # "index" THEN 1
                                      ELSE IF "embedding" \in cols THEN 3 ELSE 2
      [] on = "users" -> IF kind = "index" THEN 5
                         ELSE IF "email_verified_at" \in cols THEN 1
                         ELSE IF "email_verification_expires_at" \in cols THEN 3
                         ELSE IF "email_verification_sent_at" \in cols THEN 4 ELSE 2
      [] on = "invoice_files" -> IF kind = "index" THEN IF "sha256" \in cols THEN 2
                                                        ELSE IF "created_at" \in cols THEN 3 ELSE 8
                                 ELSE IF kind = "typed" THEN 3
                                 ELSE IF "extraction_status" \in cols THEN 2
                                 ELSE IF "extraction_result" \in cols THEN 4
                                 ELSE IF "extraction_error" \in cols THEN 5
                                 ELSE IF "extracted_at" \in cols THEN 6
                                 ELSE IF "extraction_attempts" \in cols THEN 7
                                 ELSE IF "extraction_method" \in cols THEN 2 ELSE 1
      [] on = "invoice_edits" -> IF kind = "index" THEN 10 ELSE 9
      [] on = "vendor_account_mappings" -> IF kind = "index" THEN 3 ELSE 2
      [] OTHER -> 1

\* References and types of columns, and what objects that no table has look like.
Links(o) ==
    /\ o.kind = "reference" => /\ o.to[1] \in {"users", "invoices"}
                               /\ o.to[1] = "users" => Born(o.on, o.cols) >= 8
                               /\ o.to[1] = "invoices" => Born(o.on, o.cols) >= 4
    /\ o.kind = "typed" => /\ o.to[1] = "vector" => Born(o.on, o.cols) = 4
                           /\ o.to[1] \in {"extraction_status", "extraction_method"}
                                => o.on = "invoice_files" /\ o.to[1] \in o.cols
    /\ o.kind = "type" => o = Type(o.on)
    /\ o.kind = "extension" <=> o.on \in {"vector", "pgcrypto"}
    /\ o.kind = "extension" => o = Extension(o.on)
    /\ o.kind = "label" => \E l : o = Label(o.on, l)
    /\ o.kind = "label" /\ o.on = "invoice_status" =>
         \E l \in {"RECEIVED", "PROCESSING", "BOOKED", "ERROR"} : o = Label("invoice_status", l)

\* An object of the k-th statement of revision r.
Dated(o, r, k) ==
    /\ IsObject(o) /\ Links(o)
    /\ Born(o.on, o.cols) = r /\ Turn(o.kind, o.on, o.cols) = k
AllDated(X, r, k) == \A o \in X : Dated(o, r, k)

\* What belongs at an object's place in the history.
Placed(kind, on, cols, r, k) == Born(on, cols) = r /\ Turn(kind, on, cols) = k

\* The constructors make objects.
LEMMA Made ==
    /\ \A t \in Tables : IsObject(Table(t))
    /\ \A t \in Tables : \A c : IsObject(Column(t, c)) /\ IsObject(NotNull(t, c))
    /\ \A t \in Tables : \A cols : IsObject(Key(t, cols)) /\ IsObject(Index(t, cols))
    /\ \A t \in Tables : \A cols, to : IsObject(Object("index", t, cols, to))
    /\ \A t \in Tables : \A c, n : IsObject(Typed(t, c, n))
    /\ \A t \in Tables : \A c, n, rule : IsObject(Reference(t, c, n, rule))
    /\ \A n \in TypeNames : IsObject(Type(n)) /\ IsObject(Extension(n))
    /\ \A n \in TypeNames : \A l : IsObject(Label(n, l))
<1>0. /\ {"column", "not_null", "key", "index", "reference", "typed"} \subseteq Attached
      /\ "type" \notin Attached \cup {"table"} /\ "extension" \notin Attached \cup {"table"}
      /\ "label" \notin Attached \cup {"table"}
  BY DEF Attached
<1>1. ASSUME NEW kind \in Attached \cup {"table"}, NEW t \in Tables, NEW cols, NEW to
      PROVE  IsObject(Object(kind, t, cols, to))
  BY Fields DEF IsObject, Kinds
<1>2. ASSUME NEW kind \in {"type", "extension", "label"}, NEW n \in TypeNames, NEW cols, NEW to
      PROVE  IsObject(Object(kind, n, cols, to))
  <2>1. kind \notin Attached \cup {"table"} /\ kind \in Kinds
    BY <1>0 DEF Kinds
  <2>2. QED
    BY <2>1, Fields DEF IsObject
<1>3. \A t \in Tables : IsObject(Table(t))
  BY <1>1 DEF Table
<1>4. \A t \in Tables : \A c : IsObject(Column(t, c)) /\ IsObject(NotNull(t, c))
  BY <1>0, <1>1 DEF Column, NotNull
<1>5. \A t \in Tables : \A cols : IsObject(Key(t, cols)) /\ IsObject(Index(t, cols))
  BY <1>0, <1>1 DEF Key, Index
<1>6. \A t \in Tables : \A c, n : IsObject(Typed(t, c, n))
  BY <1>0, <1>1 DEF Typed
<1>7. \A t \in Tables : \A c, n, rule : IsObject(Reference(t, c, n, rule))
  BY <1>0, <1>1 DEF Reference
<1>8. \A n \in TypeNames : IsObject(Type(n)) /\ IsObject(Extension(n))
  BY <1>2 DEF Type, Extension
<1>9. \A n \in TypeNames : \A l : IsObject(Label(n, l))
  BY <1>2 DEF Label
<1>10. \A t \in Tables : \A cols, to : IsObject(Object("index", t, cols, to))
  BY <1>0, <1>1
<1>11. QED
  BY <1>3, <1>4, <1>5, <1>6, <1>7, <1>8, <1>9, <1>10

\* An object of a table that is placed right is dated.
LEMMA DatedObject ==
    ASSUME NEW kind \in {"table", "column", "not_null", "key", "index"}, NEW on \in Tables,
           NEW cols, NEW to, NEW r, NEW k,
           IsObject(Object(kind, on, cols, to)), Placed(kind, on, cols, r, k)
    PROVE  Dated(Object(kind, on, cols, to), r, k)
<1>1. on \notin {"vector", "pgcrypto"}
  BY DEF Tables
<1> DEFINE o == Object(kind, on, cols, to)
<1>2. o.kind = kind /\ o.on = on /\ o.cols = cols
  BY DEF Object
<1> HIDE DEF o
<1>3. Links(o)
  BY <1>1, <1>2 DEF Links
<1>4. Dated(o, r, k)
  BY <1>2, <1>3 DEF Dated, Placed, o
<1>5. QED
  BY <1>4 DEF o

\* The same for the objects of types.
LEMMA DatedType ==
    ASSUME NEW r, NEW k
    PROVE  /\ \A n \in {"invoice_status", "extraction_status", "extraction_method"} :
                 Placed("type", n, {}, r, k) => Dated(Type(n), r, k)
           /\ \A n \in {"vector", "pgcrypto"} : Placed("extension", n, {}, r, k) => Dated(Extension(n), r, k)
           /\ \A n \in {"extraction_status", "extraction_method"} : \A l :
                 Placed("label", n, {l}, r, k) => Dated(Label(n, l), r, k)
           /\ \A l \in {"RECEIVED", "PROCESSING", "BOOKED", "ERROR"} :
                 Placed("label", "invoice_status", {l}, r, k) => Dated(Label("invoice_status", l), r, k)
<1>0. \A n \in {"invoice_status", "extraction_status", "extraction_method", "vector", "pgcrypto"} : n \in TypeNames
  BY DEF TypeNames
<1>1. ASSUME NEW n \in {"invoice_status", "extraction_status", "extraction_method"}, Placed("type", n, {}, r, k)
      PROVE  Dated(Type(n), r, k)
  <2>1. Type(n).kind = "type" /\ Type(n).on = n /\ Type(n).cols = {} /\ IsObject(Type(n))
    BY <1>0, Made, Fields DEF Type
  <2>2. QED
    BY <1>1, <2>1 DEF Dated, Links, Placed
<1>2. ASSUME NEW n \in {"vector", "pgcrypto"}, Placed("extension", n, {}, r, k)
      PROVE  Dated(Extension(n), r, k)
  <2>1. /\ Extension(n).kind = "extension" /\ Extension(n).on = n /\ Extension(n).cols = {}
        /\ IsObject(Extension(n))
    BY <1>0, Made, Fields DEF Extension
  <2>2. QED
    BY <1>2, <2>1 DEF Dated, Links, Placed
<1>3. ASSUME NEW n \in {"extraction_status", "extraction_method"}, NEW l, Placed("label", n, {l}, r, k)
      PROVE  Dated(Label(n, l), r, k)
  <2>1. Label(n, l).kind = "label" /\ Label(n, l).on = n /\ Label(n, l).cols = {l}
    BY Fields DEF Label
  <2>2. IsObject(Label(n, l))
    BY <1>0, Made
  <2>3. QED
    BY <1>3, <2>1, <2>2 DEF Dated, Links, Placed
<1>4. ASSUME NEW l \in {"RECEIVED", "PROCESSING", "BOOKED", "ERROR"},
             Placed("label", "invoice_status", {l}, r, k)
      PROVE  Dated(Label("invoice_status", l), r, k)
  <2> DEFINE n == "invoice_status"
  <2>1. Label(n, l).kind = "label" /\ Label(n, l).on = n /\ Label(n, l).cols = {l}
    BY Fields DEF Label
  <2>2. IsObject(Label(n, l))
    BY <1>0, Made
  <2>3. QED
    BY <1>4, <2>1, <2>2 DEF Dated, Links, Placed
<1>5. QED
  BY <1>1, <1>2, <1>3, <1>4

\* The objects of a table, and the sets that revisions build from them.
LEMMA DatedSets ==
    ASSUME NEW t \in Tables, NEW r, NEW k
    PROVE  /\ Placed("table", t, {}, r, k) => AllDated({Table(t)}, r, k)
           /\ \A cols : Placed("key", t, cols, r, k) => AllDated({Key(t, cols)}, r, k)
           /\ \A cols : Placed("index", t, cols, r, k) => AllDated({Index(t, cols)}, r, k)
           /\ \A c : Placed("not_null", t, {c}, r, k) => AllDated({NotNull(t, c)}, r, k)
           /\ \A names : (\A c \in names : Placed("column", t, {c}, r, k))
                => AllDated(Optional(t, names), r, k)
           /\ \A names : (\A c \in names : /\ Placed("column", t, {c}, r, k)
                                           /\ Placed("not_null", t, {c}, r, k))
                => AllDated(Needed(t, names), r, k)
<1>1. Placed("table", t, {}, r, k) => Dated(Table(t), r, k)
  BY DatedObject, Made DEF Table
<1>2. \A cols : Placed("key", t, cols, r, k) => Dated(Key(t, cols), r, k)
  BY DatedObject, Made DEF Key
<1>3. \A cols : Placed("index", t, cols, r, k) => Dated(Index(t, cols), r, k)
  BY DatedObject, Made DEF Index
<1>4. \A c : Placed("not_null", t, {c}, r, k) => Dated(NotNull(t, c), r, k)
  BY DatedObject, Made DEF NotNull
<1>5. \A c : Placed("column", t, {c}, r, k) => Dated(Column(t, c), r, k)
  BY DatedObject, Made DEF Column
<1>6. \A o : Dated(o, r, k) => AllDated({o}, r, k)
  BY DEF AllDated
<1>7. \A names : (\A c \in names : Placed("column", t, {c}, r, k)) => AllDated(Optional(t, names), r, k)
  BY <1>5 DEF AllDated, Optional
<1>8. \A names : (\A c \in names : /\ Placed("column", t, {c}, r, k) /\ Placed("not_null", t, {c}, r, k))
                => AllDated(Needed(t, names), r, k)
  BY <1>4, <1>5 DEF AllDated, Optional, Needed
<1>9. QED
  BY <1>1, <1>2, <1>3, <1>4, <1>6, <1>7, <1>8

\* Two sets whose objects are dated.
LEMMA DatedUnion ==
    ASSUME NEW r, NEW k
    PROVE  /\ \A X, Y : AllDated(X, r, k) /\ AllDated(Y, r, k) => AllDated(X \cup Y, r, k)
           /\ AllDated({}, r, k)
BY DEF AllDated

\* A statement of an upgrade: the index on the invoice number is all that is
\* dropped, and two columns are required without a value for the rows.
Planned(s, r, k) ==
    /\ AllDated(s.new, r, k) /\ AllDated(s.ensured, r, k)
    /\ \A o \in s.ensured : o.kind \notin Attached
    /\ s.removed = {}
    /\ \A g \in s.gone : r = 5 /\ k = 2 /\ g = NumberIndex
    /\ \A b \in s.bare : \/ r = 5 /\ b = <<"invoices", "tenant_id">>
                         \/ r = 6 /\ k = 3 /\ b = <<"llm_audit_entries", "tenant_id">>

\* Statements that the constructors make, when what they create is placed right.
LEMMA PlannedCreate ==
    ASSUME NEW r, NEW k, NEW X, AllDated(X, r, k)
    PROVE  Planned(Create(X), r, k)
<1>1. Does(Create(X), X, {}, {}, {}, {}, {})
  BY StatementFields
<1>2. QED
  BY <1>1, DatedUnion DEF Does, Planned

\* A statement of this kind is planned (Ensure), when what it creates is placed right.
LEMMA PlannedEnsure ==
    ASSUME NEW r, NEW k, NEW X, AllDated(X, r, k), \A o \in X : o.kind \notin Attached
    PROVE  Planned(Ensure(X), r, k)
<1>1. Does(Ensure(X), {}, X, {}, {}, {}, {})
  BY StatementFields
<1>2. QED
  BY <1>1, DatedUnion DEF Does, Planned

\* A statement that fills a column creates nothing.
LEMMA PlannedUpdate ==
    ASSUME NEW r, NEW k, NEW t, NEW c
    PROVE  Planned(Update(t, c), r, k)
<1>1. Does(Update(t, c), {}, {}, {}, {}, {<<t, c>>}, {})
  BY StatementFields
<1>2. QED
  BY <1>1, DatedUnion DEF Does, Planned

\* The statement that drops the index on the invoice number.
LEMMA PlannedDrop == Planned(Drop(NumberIndex), 5, 2)
<1>1. Does(Drop(NumberIndex), {}, {}, {NumberIndex}, {}, {}, {})
  BY StatementFields
<1>2. QED
  BY <1>1, DatedUnion DEF Does, Planned

\* A statement of this kind is planned (Column), when what it creates is placed right.
LEMMA PlannedColumn ==
    ASSUME NEW r, NEW k, NEW t \in Tables, NEW c, Placed("column", t, {c}, r, k)
    PROVE  Planned(AddColumn(t, c), r, k)
<1>1. AllDated(Optional(t, {c}), r, k)
  BY DatedSets
<1>2. Does(AddColumn(t, c), Optional(t, {c}), {}, {}, {}, {}, {})
  BY StatementFields
<1>3. QED
  BY <1>1, <1>2, DatedUnion DEF Does, Planned

\* A statement of this kind is planned (Needed), when what it creates is placed right.
LEMMA PlannedNeeded ==
    ASSUME NEW r, NEW k, NEW t \in Tables, NEW c, Placed("column", t, {c}, r, k),
           Placed("not_null", t, {c}, r, k)
    PROVE  Planned(AddWithDefault(t, c), r, k)
<1>1. AllDated(Needed(t, {c}), r, k)
  BY DatedSets
<1>2. Does(AddWithDefault(t, c), Needed(t, {c}), {}, {}, {}, {<<t, c>>}, {})
  BY StatementFields
<1>3. QED
  BY <1>1, <1>2, DatedUnion DEF Does, Planned

\* A statement of this kind is planned (Bare), when what it creates is placed right.
LEMMA PlannedBare ==
    ASSUME NEW k, NEW t \in Tables, NEW c, t = "invoices", c = "tenant_id",
           Placed("column", t, {c}, 5, k), Placed("not_null", t, {c}, 5, k)
    PROVE  Planned(AddBare(t, c), 5, k)
<1>1. AllDated(Needed(t, {c}), 5, k)
  BY DatedSets
<1>2. Does(AddBare(t, c), Needed(t, {c}), {}, {}, {}, {}, {<<t, c>>})
  BY StatementFields
<1> DEFINE s == AddBare(t, c)
<1>3. /\ s.new = Needed(t, {c}) /\ s.ensured = {} /\ s.gone = {} /\ s.removed = {}
      /\ \A b \in s.bare : b = <<"invoices", "tenant_id">>
  BY <1>2 DEF Does
<1> HIDE DEF s
<1>4. Planned(s, 5, k)
  BY <1>1, <1>3, DatedUnion DEF Planned
<1>5. QED
  BY <1>4 DEF s

\* A statement of this kind is planned (NotNull), when what it creates is placed right.
LEMMA PlannedNotNull ==
    ASSUME NEW t \in Tables, NEW c, t = "llm_audit_entries", c = "tenant_id",
           Placed("not_null", t, {c}, 6, 3)
    PROVE  Planned(SetNotNull(t, c), 6, 3)
<1>1. AllDated({NotNull(t, c)}, 6, 3)
  BY DatedSets
<1>2. Does(SetNotNull(t, c), {NotNull(t, c)}, {}, {}, {}, {}, {<<t, c>>})
  BY StatementFields
<1> DEFINE s == SetNotNull(t, c)
<1>3. /\ s.new = {NotNull(t, c)} /\ s.ensured = {} /\ s.gone = {} /\ s.removed = {}
      /\ \A b \in s.bare : b = <<"llm_audit_entries", "tenant_id">>
  BY <1>2 DEF Does
<1> HIDE DEF s
<1>4. Planned(s, 6, 3)
  BY <1>1, <1>3, DatedUnion DEF Planned
<1>5. QED
  BY <1>4 DEF s

\* A statement of this kind is planned (Index), when what it creates is placed right.
LEMMA PlannedIndex ==
    ASSUME NEW r, NEW k, NEW t \in Tables, NEW cols, Placed("index", t, cols, r, k)
    PROVE  Planned(Create({Index(t, cols)}), r, k)
BY DatedSets, PlannedCreate

\* A statement of this kind is planned (Key), when what it creates is placed right.
LEMMA PlannedKey ==
    ASSUME NEW r, NEW k, NEW t \in Tables, NEW cols, Placed("key", t, cols, r, k)
    PROVE  Planned(Create({Key(t, cols)}), r, k)
BY DatedSets, PlannedCreate

\* Types and references of columns.
LEMMA DatedTyped ==
    ASSUME NEW r, NEW k, NEW t \in Tables, NEW c, NEW n, Placed("typed", t, {c}, r, k),
           n = "vector" => r = 4,
           n \in {"extraction_status", "extraction_method"} => t = "invoice_files" /\ n = c
    PROVE  AllDated({Typed(t, c, n)}, r, k) /\ Planned(Create({Typed(t, c, n)}), r, k)
<1> DEFINE o == Typed(t, c, n)
<1>1. o.kind = "typed" /\ o.on = t /\ o.cols = {c} /\ o.to = <<n>>
  BY Fields DEF Typed
<1>2. IsObject(o) /\ o.on \notin {"vector", "pgcrypto"}
  BY <1>1, Made DEF Tables
<1> HIDE DEF o
<1>3. o.to[1] = n
  BY <1>1
<1>4. Dated(o, r, k)
  BY <1>1, <1>2, <1>3 DEF Dated, Links, Placed
<1>5. QED
  BY <1>4, PlannedCreate DEF AllDated, o

\* References, when their column is placed right.
LEMMA DatedReference ==
    ASSUME NEW r \in Nat, NEW k, NEW t \in Tables, NEW c, NEW n \in {"users", "invoices"}, NEW rule,
           Placed("reference", t, {c}, r, k), n = "users" => r >= 8, n = "invoices" => r >= 4
    PROVE  /\ AllDated({Reference(t, c, n, rule)}, r, k)
           /\ Planned(Create({Reference(t, c, n, rule)}), r, k)
<1> DEFINE o == Reference(t, c, n, rule)
<1>1. o.kind = "reference" /\ o.on = t /\ o.cols = {c} /\ o.to = <<n, rule>>
  BY Fields DEF Reference
<1>2. IsObject(o) /\ o.on \notin {"vector", "pgcrypto"}
  BY <1>1, Made DEF Tables
<1> HIDE DEF o
<1>3. o.to[1] = n
  BY <1>1
<1>4. Dated(o, r, k)
  BY <1>1, <1>2, <1>3 DEF Dated, Links, Placed
<1>5. QED
  BY <1>4, PlannedCreate DEF AllDated, o

\* References to users are made once there are users.
LEMMA ToUsers ==
    ASSUME NEW r \in 8..14, NEW k, NEW t \in Tables, NEW c, Placed("reference", t, {c}, r, k)
    PROVE  /\ \A rule : AllDated({Reference(t, c, "users", rule)}, r, k)
           /\ \A rule : Planned(Create({Reference(t, c, "users", rule)}), r, k)
<1>1. r \in Nat /\ r >= 8 /\ r >= 4
  OBVIOUS
<1>2. QED
  BY <1>1, DatedReference

\* References to invoices are made once there are invoices.
LEMMA ToInvoices ==
    ASSUME NEW r \in 4..14, NEW k, NEW t \in Tables, NEW c, Placed("reference", t, {c}, r, k)
    PROVE  \A rule : AllDated({Reference(t, c, "invoices", rule)}, r, k)
<1>1. r \in Nat /\ r >= 4
  OBVIOUS
<1>2. QED
  BY <1>1, DatedReference

\* Types with their labels, when they are missing.
LEMMA PlannedTypes ==
    ASSUME NEW r, NEW k
    PROVE  /\ \A n \in {"vector", "pgcrypto"} :
                 Placed("extension", n, {}, r, k) => Planned(Ensure({Extension(n)}), r, k)
           /\ \A n \in {"extraction_status", "extraction_method"} : \A labels :
                 Placed("type", n, {}, r, k) /\ (\A l \in labels : Placed("label", n, {l}, r, k))
                   => Planned(Ensure(Enum(n, labels)), r, k)
           /\ \A n \in {"extraction_status", "extraction_method"} : \A l :
                 Placed("label", n, {l}, r, k) => Planned(Ensure({Label(n, l)}), r, k)
<1>1. \A n, l : /\ Type(n).kind \notin Attached /\ Extension(n).kind \notin Attached
               /\ Label(n, l).kind \notin Attached
  <2>1. \A n, l : Type(n).kind = "type" /\ Extension(n).kind = "extension" /\ Label(n, l).kind = "label"
    BY Fields DEF Type, Extension, Label
  <2>2. QED
    BY <2>1 DEF Attached
<1>2. ASSUME NEW n \in {"vector", "pgcrypto"}, Placed("extension", n, {}, r, k)
      PROVE  Planned(Ensure({Extension(n)}), r, k)
  <2>1. AllDated({Extension(n)}, r, k) /\ \A o \in {Extension(n)} : o.kind \notin Attached
    BY <1>1, <1>2, DatedType DEF AllDated
  <2>2. QED
    BY <2>1, PlannedEnsure
<1>3. ASSUME NEW n \in {"extraction_status", "extraction_method"}, NEW labels,
             Placed("type", n, {}, r, k), \A l \in labels : Placed("label", n, {l}, r, k)
      PROVE  Planned(Ensure(Enum(n, labels)), r, k)
  <2>1. AllDated(Enum(n, labels), r, k) /\ \A o \in Enum(n, labels) : o.kind \notin Attached
    BY <1>1, <1>3, DatedType DEF AllDated, Enum
  <2>2. QED
    BY <2>1, PlannedEnsure
<1>4. ASSUME NEW n \in {"extraction_status", "extraction_method"}, NEW l, Placed("label", n, {l}, r, k)
      PROVE  Planned(Ensure({Label(n, l)}), r, k)
  <2>1. AllDated({Label(n, l)}, r, k) /\ \A o \in {Label(n, l)} : o.kind \notin Attached
    BY <1>1, <1>4, DatedType DEF AllDated
  <2>2. QED
    BY <2>1, PlannedEnsure
<1>5. QED
  BY <1>2, <1>3, <1>4

\* The columns of a table that a statement creates.
LEMMA DatedColumns ==
    ASSUME NEW r, NEW k, NEW t \in Tables, NEW names,
           \A c \in names : Placed("column", t, {c}, r, k) /\ Placed("not_null", t, {c}, r, k)
    PROVE  AllDated(Optional(t, names), r, k) /\ AllDated(Needed(t, names), r, k)
BY DatedSets

\* The indexes of a table that a statement creates.
LEMMA PlannedIndexes ==
    ASSUME NEW r, NEW k, NEW t \in Tables, NEW C, \A cols \in C : Placed("index", t, cols, r, k)
    PROVE  Planned(Create({Index(t, cols) : cols \in C}), r, k)
<1>1. AllDated({Index(t, cols) : cols \in C}, r, k)
  BY DatedObject, Made DEF AllDated, Index
<1>2. QED
  BY <1>1, PlannedCreate

\* Every statement of every upgrade, in turn, creates what belongs there.
LEMMA CreateInvoicesPlanned == \A k \in 1..4 : Planned(CreateInvoices[k], 1, k)
<1>1. Planned(CreateInvoices[1], 1, 1)
  <2> DEFINE t == "invoices"
  <2>1. \A c \in {"id", "created_at", "updated_at", "invoice_number", "vendor_name",
                  "invoice_date", "total_amount", "currency", "status"} :
           Placed("column", t, {c}, 1, 1) /\ Placed("not_null", t, {c}, 1, 1)
    BY DEF Placed, Born, Turn, Changes, Amounts
  <2>2. t \in Tables /\ Placed("table", t, {}, 1, 1)
    BY DEF Placed, Born, Turn, Changes, Amounts, Tables
  <2>3. AllDated({Table(t)}, 1, 1)
    BY <2>2, DatedSets
  <2>4. /\ AllDated(Needed(t, {"id", "created_at", "updated_at"}), 1, 1)
        /\ AllDated(Needed(t, {"invoice_number", "vendor_name", "invoice_date", "total_amount",
                               "currency", "status"}), 1, 1)
    <3> HIDE DEF t
    <3> QED BY <2>1, <2>2, DatedColumns
  <2>5. AllDated({Typed(t, "status", "invoice_status")}, 1, 1)
    <3>1. Placed("typed", t, {"status"}, 1, 1)
      BY DEF Placed, Born, Turn, Changes, Amounts
    <3>2. QED
      BY <2>2, <3>1, DatedTyped
  <2>6. AllDated(Enum("invoice_status", {"RECEIVED", "PROCESSING", "BOOKED", "ERROR"}), 1, 1)
    <3>1. /\ Placed("type", "invoice_status", {}, 1, 1)
          /\ \A l : Placed("label", "invoice_status", {l}, 1, 1)
      BY DEF Placed, Born, Turn
    <3>2. QED
      BY <3>1, DatedType DEF AllDated, Enum
  <2>7. QED
    BY <2>3, <2>4, <2>5, <2>6, DatedUnion, PlannedCreate DEF CreateInvoices, CreateTable, Standard
<1>2. Planned(CreateInvoices[2], 1, 2)
  BY PlannedIndex DEF CreateInvoices, Placed, Born, Turn, Tables, Changes, Amounts
<1>3. Planned(CreateInvoices[3], 1, 3)
  BY PlannedIndex DEF CreateInvoices, Placed, Born, Turn, Tables, Changes, Amounts
<1>4. Planned(CreateInvoices[4], 1, 4)
  BY PlannedIndex DEF CreateInvoices, Placed, Born, Turn, Tables, Changes, Amounts
<1>5. QED
  BY <1>1, <1>2, <1>3, <1>4

\* What EnableVector creates is placed right.
LEMMA EnableVectorPlanned == \A k \in 1..1 : Planned(EnableVector[k], 2, k)
<1>1. Planned(EnableVector[1], 2, 1)
  BY PlannedTypes DEF EnableVector, Placed, Born, Turn, Tables
<1>2. QED
  BY <1>1

\* What CreateAudit creates is placed right.
LEMMA CreateAuditPlanned == \A k \in 1..2 : Planned(CreateAudit[k], 3, k)
<1>1. Planned(CreateAudit[1], 3, 1)
  <2> DEFINE t == "llm_audit_entries"
  <2>1. \A c \in {"id", "created_at", "updated_at", "provider_name", "operation", "model",
                  "prompt_text", "prompt_chars", "response_chars", "duration_ms", "success",
                  "error_message"} :
           Placed("column", t, {c}, 3, 1) /\ Placed("not_null", t, {c}, 3, 1)
    BY DEF Placed, Born, Turn
  <2>2. t \in Tables /\ Placed("table", t, {}, 3, 1)
    BY DEF Placed, Born, Turn, Tables
  <2>3. AllDated({Table(t)}, 3, 1)
    BY <2>2, DatedSets
  <2>4. /\ AllDated(Needed(t, {"id", "created_at", "updated_at"}), 3, 1)
        /\ AllDated(Needed(t, {"provider_name", "operation", "model", "prompt_text", "prompt_chars",
                               "response_chars", "duration_ms", "success"}), 3, 1)
        /\ AllDated(Optional(t, {"error_message"}), 3, 1)
    <3> HIDE DEF t
    <3> QED BY <2>1, <2>2, DatedColumns
  <2>5. QED
    BY <2>3, <2>4, DatedUnion, PlannedCreate DEF CreateAudit, CreateTable, Standard
<1>2. Planned(CreateAudit[2], 3, 2)
  <2> DEFINE t == "llm_audit_entries"
  <2>1. t \in Tables /\ \A c \in {"model", "operation", "provider_name", "success"} :
           Placed("index", t, {c}, 3, 2)
    BY DEF Placed, Born, Turn, Tables
  <2>2. AllDated({Index(t, {c}) : c \in {"model", "operation", "provider_name", "success"}}, 3, 2)
    BY <2>1, DatedObject, Made DEF AllDated, Index
  <2>3. QED
    BY <2>2, PlannedCreate DEF CreateAudit
<1>3. QED
  BY <1>1, <1>2

\* What CreateEmbeddings creates is placed right.
LEMMA CreateEmbeddingsPlanned == \A k \in 1..3 : Planned(CreateEmbeddings[k], 4, k)
<1>1. Planned(CreateEmbeddings[1], 4, 1)
  <2> DEFINE t == "invoice_embeddings"
  <2>1. \A c \in {"id", "created_at", "updated_at", "tenant_id", "invoice_id", "embedding",
                  "model", "source_text"} :
           Placed("column", t, {c}, 4, 1) /\ Placed("not_null", t, {c}, 4, 1)
    BY DEF Placed, Born, Turn
  <2>2. t \in Tables /\ Placed("table", t, {}, 4, 1)
    BY DEF Placed, Born, Turn, Tables
  <2>3. AllDated({Table(t)}, 4, 1)
    BY <2>2, DatedSets
  <2>4. /\ AllDated(Needed(t, {"id", "created_at", "updated_at"}), 4, 1)
        /\ AllDated(Needed(t, {"tenant_id", "invoice_id", "embedding", "model", "source_text"}), 4, 1)
    <3> HIDE DEF t
    <3> QED BY <2>1, <2>2, DatedColumns
  <2>5. AllDated({Typed(t, "embedding", "vector")}, 4, 1)
    <3>1. Placed("typed", t, {"embedding"}, 4, 1)
      BY DEF Placed, Born, Turn
    <3>2. QED
      BY <2>2, <3>1, DatedTyped
  <2>6. AllDated({Reference(t, "invoice_id", "invoices", "CASCADE")}, 4, 1)
    <3>1. Placed("reference", t, {"invoice_id"}, 4, 1)
      BY DEF Placed, Born, Turn
    <3> HIDE DEF t
    <3>2. QED
      BY <2>2, <3>1, 4 \in 4..14, ToInvoices
  <2>7. AllDated({Typed(t, "embedding", "vector"),
                  Reference(t, "invoice_id", "invoices", "CASCADE")}, 4, 1)
    BY <2>5, <2>6 DEF AllDated
  <2>8. QED
    BY <2>3, <2>4, <2>7, DatedUnion, PlannedCreate DEF CreateEmbeddings, CreateTable, Standard
<1>2. Planned(CreateEmbeddings[2], 4, 2)
  <2>1. /\ "invoice_embeddings" \in Tables
        /\ \A cols \in {{"invoice_id"}, {"tenant_id"}, {"tenant_id", "invoice_id"}} :
           Placed("index", "invoice_embeddings", cols, 4, 2)
    BY DEF Placed, Born, Turn, Tables
  <2>2. QED
    BY <2>1, PlannedIndexes DEF CreateEmbeddings
<1>3. Planned(CreateEmbeddings[3], 4, 3)
  <2> DEFINE t == "invoice_embeddings"
  <2>1. t \in Tables /\ Placed("index", t, {"embedding"}, 4, 3)
    BY DEF Placed, Born, Turn, Tables
  <2>2. IsObject(CosineIndex)
    BY <2>1, Made DEF CosineIndex
  <2>3. AllDated({CosineIndex}, 4, 3)
    BY <2>1, <2>2, DatedObject DEF AllDated, CosineIndex
  <2>4. QED
    BY <2>3, PlannedCreate DEF CreateEmbeddings
<1>4. QED
  BY <1>1, <1>2, <1>3

\* What AddTenantToInvoices creates is placed right.
LEMMA AddTenantToInvoicesPlanned == \A k \in 1..3 : Planned(AddTenantToInvoices[k], 5, k)
<1>1. Planned(AddTenantToInvoices[1], 5, 1)
  BY PlannedBare DEF AddTenantToInvoices, Placed, Born, Turn, Tables, Changes, Amounts
<1>2. Planned(AddTenantToInvoices[2], 5, 2)
  BY PlannedDrop DEF AddTenantToInvoices, NumberIndex
<1>3. Planned(AddTenantToInvoices[3], 5, 3)
  BY PlannedKey DEF AddTenantToInvoices, Placed, Born, Turn, Tables, Changes, Amounts
<1>4. QED
  BY <1>1, <1>2, <1>3

\* What AddTenantToAudit creates is placed right.
LEMMA AddTenantToAuditPlanned == \A k \in 1..4 : Planned(AddTenantToAudit[k], 6, k)
<1>1. Planned(AddTenantToAudit[1], 6, 1)
  BY PlannedColumn DEF AddTenantToAudit, Placed, Born, Turn, Tables
<1>2. Planned(AddTenantToAudit[2], 6, 2)
  BY PlannedUpdate DEF AddTenantToAudit
<1>3. Planned(AddTenantToAudit[3], 6, 3)
  BY PlannedNotNull DEF AddTenantToAudit, Placed, Born, Turn, Tables
<1>4. Planned(AddTenantToAudit[4], 6, 4)
  BY PlannedIndex DEF AddTenantToAudit, Placed, Born, Turn, Tables
<1>5. QED
  BY <1>1, <1>2, <1>3, <1>4

\* What CreateUsers creates is placed right.
LEMMA CreateUsersPlanned == \A k \in 1..2 : Planned(CreateUsers[k], 7, k)
<1>1. Planned(CreateUsers[1], 7, 1)
  <2> DEFINE t == "tenants"
  <2>1. \A c \in {"id", "created_at", "updated_at", "slug", "display_name"} :
           Placed("column", t, {c}, 7, 1) /\ Placed("not_null", t, {c}, 7, 1)
    BY DEF Placed, Born, Turn
  <2>2. t \in Tables /\ Placed("table", t, {}, 7, 1)
    BY DEF Placed, Born, Turn, Tables
  <2>3. AllDated({Table(t)}, 7, 1)
    BY <2>2, DatedSets
  <2>4. /\ AllDated(Needed(t, {"id", "created_at", "updated_at"}), 7, 1)
        /\ AllDated(Needed(t, {"slug", "display_name"}), 7, 1)
    <3> HIDE DEF t
    <3> QED BY <2>1, <2>2, DatedColumns
  <2>5. AllDated({Key(t, {"slug"})}, 7, 1)
    <3>1. Placed("key", t, {"slug"}, 7, 1)
      BY DEF Placed, Born, Turn
    <3>2. QED
      BY <2>2, <3>1, DatedSets
  <2>6. QED
    BY <2>3, <2>4, <2>5, DatedUnion, PlannedCreate DEF CreateUsers, CreateTable, Standard
<1>2. Planned(CreateUsers[2], 7, 2)
  <2> DEFINE t == "users"
  <2>1. \A c \in {"id", "created_at", "updated_at", "tenant_id", "email", "password_hash",
                  "full_name"} :
           Placed("column", t, {c}, 7, 2) /\ Placed("not_null", t, {c}, 7, 2)
    BY DEF Placed, Born, Turn, Verifications
  <2>2. t \in Tables /\ Placed("table", t, {}, 7, 2)
    BY DEF Placed, Born, Turn, Verifications, Tables
  <2>3. AllDated({Table(t)}, 7, 2)
    BY <2>2, DatedSets
  <2>4. /\ AllDated(Needed(t, {"id", "created_at", "updated_at"}), 7, 2)
        /\ AllDated(Needed(t, {"tenant_id", "email", "password_hash"}), 7, 2)
        /\ AllDated(Optional(t, {"full_name"}), 7, 2)
    <3> HIDE DEF t
    <3> QED BY <2>1, <2>2, DatedColumns
  <2>5. AllDated({Key(t, {"tenant_id", "email"})}, 7, 2)
    <3>1. Placed("key", t, {"tenant_id", "email"}, 7, 2)
      BY DEF Placed, Born, Turn, Verifications
    <3>2. QED
      BY <2>2, <3>1, DatedSets
  <2>6. QED
    BY <2>3, <2>4, <2>5, DatedUnion, PlannedCreate DEF CreateUsers, CreateTable, Standard
<1>3. QED
  BY <1>1, <1>2

\* What CreateFiles creates is placed right.
LEMMA CreateFilesPlanned == \A k \in 1..3 : Planned(CreateFiles[k], 8, k)
<1>1. Planned(CreateFiles[1], 8, 1)
  <2> DEFINE t == "invoice_files"
  <2>1. \A c \in {"id", "created_at", "updated_at", "tenant_id", "filename", "mime_type",
                  "size_bytes", "sha256", "storage_path", "uploaded_by_user_id", "invoice_id"} :
           Placed("column", t, {c}, 8, 1) /\ Placed("not_null", t, {c}, 8, 1)
    BY DEF Placed, Born, Turn, Extractions
  <2>2. t \in Tables /\ Placed("table", t, {}, 8, 1)
    BY DEF Placed, Born, Turn, Extractions, Tables
  <2>3. AllDated({Table(t)}, 8, 1)
    BY <2>2, DatedSets
  <2>4. /\ AllDated(Needed(t, {"id", "created_at", "updated_at"}), 8, 1)
        /\ AllDated(Needed(t, {"tenant_id", "filename", "mime_type", "size_bytes", "sha256",
                               "storage_path"}), 8, 1)
        /\ AllDated(Optional(t, {"uploaded_by_user_id", "invoice_id"}), 8, 1)
    <3> HIDE DEF t
    <3> QED BY <2>1, <2>2, DatedColumns
  <2>5. AllDated({Reference(t, "uploaded_by_user_id", "users", "SET_NULL")}, 8, 1)
    <3>1. Placed("reference", t, {"uploaded_by_user_id"}, 8, 1)
      BY DEF Placed, Born, Turn, Extractions
    <3> HIDE DEF t
    <3>2. QED
      BY <2>2, <3>1, 8 \in 8..14, ToUsers
  <2>6. AllDated({Reference(t, "invoice_id", "invoices", "SET_NULL")}, 8, 1)
    <3>1. Placed("reference", t, {"invoice_id"}, 8, 1)
      BY DEF Placed, Born, Turn, Extractions
    <3> HIDE DEF t
    <3>2. QED
      BY <2>2, <3>1, 8 \in 4..14, ToInvoices
  <2>7. AllDated({Key(t, {"tenant_id", "sha256"})}, 8, 1)
    <3>1. Placed("key", t, {"tenant_id", "sha256"}, 8, 1)
      BY DEF Placed, Born, Turn, Extractions
    <3>2. QED
      BY <2>2, <3>1, DatedSets
  <2>8. AllDated({Reference(t, "uploaded_by_user_id", "users", "SET_NULL"),
                  Reference(t, "invoice_id", "invoices", "SET_NULL"),
                  Key(t, {"tenant_id", "sha256"})}, 8, 1)
    BY <2>5, <2>6, <2>7 DEF AllDated
  <2>9. QED
    BY <2>3, <2>4, <2>8, DatedUnion, PlannedCreate DEF CreateFiles, CreateTable, Standard
<1>2. Planned(CreateFiles[2], 8, 2)
  BY PlannedIndex DEF CreateFiles, Placed, Born, Turn, Tables, Extractions
<1>3. Planned(CreateFiles[3], 8, 3)
  BY PlannedIndex DEF CreateFiles, Placed, Born, Turn, Tables, Extractions
<1>4. QED
  BY <1>1, <1>2, <1>3

\* What AddExtraction creates is placed right.
LEMMA AddExtractionPlanned == \A k \in 1..10 : Planned(AddExtraction[k], 9, k)
<1>1. Planned(AddExtraction[1], 9, 1)
  BY PlannedTypes DEF AddExtraction, Placed, Born, Turn, Tables
<1>2. Planned(AddExtraction[2], 9, 2)
  BY PlannedNeeded DEF AddExtraction, Placed, Born, Turn, Tables, Extractions
<1>3. Planned(AddExtraction[3], 9, 3)
  BY DatedTyped DEF AddExtraction, Placed, Born, Turn, Tables, Extractions
<1>4. Planned(AddExtraction[4], 9, 4)
  BY PlannedColumn DEF AddExtraction, Placed, Born, Turn, Tables, Extractions
<1>5. Planned(AddExtraction[5], 9, 5)
  BY PlannedColumn DEF AddExtraction, Placed, Born, Turn, Tables, Extractions
<1>6. Planned(AddExtraction[6], 9, 6)
  BY PlannedColumn DEF AddExtraction, Placed, Born, Turn, Tables, Extractions
<1>7. Planned(AddExtraction[7], 9, 7)
  BY PlannedNeeded DEF AddExtraction, Placed, Born, Turn, Tables, Extractions
<1>8. Planned(AddExtraction[8], 9, 8)
  BY PlannedIndex DEF AddExtraction, Placed, Born, Turn, Tables, Extractions
<1>9. Planned(AddExtraction[9], 9, 9)
  BY PlannedColumn DEF AddExtraction, Placed, Born, Turn, Tables, Changes, Amounts
<1>10. Planned(AddExtraction[10], 9, 10)
  BY PlannedColumn DEF AddExtraction, Placed, Born, Turn, Tables, Changes, Amounts
<1>11. QED
  BY <1>1, <1>2, <1>3, <1>4, <1>5, <1>6, <1>7, <1>8, <1>9, <1>10

\* What AddVerification creates is placed right.
LEMMA AddVerificationPlanned == \A k \in 1..6 : Planned(AddVerification[k], 10, k)
<1>1. Planned(AddVerification[1], 10, 1)
  BY PlannedColumn DEF AddVerification, Placed, Born, Turn, Tables, Verifications
<1>2. Planned(AddVerification[2], 10, 2)
  BY PlannedColumn DEF AddVerification, Placed, Born, Turn, Tables, Verifications
<1>3. Planned(AddVerification[3], 10, 3)
  BY PlannedColumn DEF AddVerification, Placed, Born, Turn, Tables, Verifications
<1>4. Planned(AddVerification[4], 10, 4)
  BY PlannedColumn DEF AddVerification, Placed, Born, Turn, Tables, Verifications
<1>5. Planned(AddVerification[5], 10, 5)
  BY PlannedIndex DEF AddVerification, Placed, Born, Turn, Tables, Verifications
<1>6. Planned(AddVerification[6], 10, 6)
  BY PlannedUpdate DEF AddVerification
<1>7. QED
  BY <1>1, <1>2, <1>3, <1>4, <1>5, <1>6

\* What AddEdits creates is placed right.
LEMMA AddEditsPlanned == \A k \in 1..10 : Planned(AddEdits[k], 11, k)
<1>1. Planned(AddEdits[1], 11, 1)
  BY PlannedNeeded DEF AddEdits, Placed, Born, Turn, Tables, Changes, Amounts
<1>2. Planned(AddEdits[2], 11, 2)
  BY PlannedNeeded DEF AddEdits, Placed, Born, Turn, Tables, Changes, Amounts
<1>3. Planned(AddEdits[3], 11, 3)
  BY PlannedColumn DEF AddEdits, Placed, Born, Turn, Tables, Changes, Amounts
<1>4. Planned(AddEdits[4], 11, 4)
  BY PlannedColumn DEF AddEdits, Placed, Born, Turn, Tables, Changes, Amounts
<1>5. Planned(AddEdits[5], 11, 5)
  <2>1. Placed("reference", "invoices", {"reviewed_by_user_id"}, 11, 5)
    BY DEF Placed, Born, Turn, Changes
  <2>2. "invoices" \in Tables
    BY DEF Tables
  <2>3. Planned(Create({Reference("invoices", "reviewed_by_user_id", "users", "SET_NULL")}), 11, 5)
    BY <2>1, <2>2, 11 \in 8..14, ToUsers
  <2>4. QED
    BY <2>3 DEF AddEdits
<1>6. Planned(AddEdits[6], 11, 6)
  BY PlannedColumn DEF AddEdits, Placed, Born, Turn, Tables, Changes, Amounts
<1>7. Planned(AddEdits[7], 11, 7)
  BY PlannedUpdate DEF AddEdits
<1>8. Planned(AddEdits[8], 11, 8)
  BY PlannedUpdate DEF AddEdits
<1>9. Planned(AddEdits[9], 11, 9)
  <2> DEFINE t == "invoice_edits"
  <2>1. \A c \in {"id", "tenant_id", "invoice_id", "field", "created_at", "user_id",
                  "old_value", "new_value"} :
           Placed("column", t, {c}, 11, 9) /\ Placed("not_null", t, {c}, 11, 9)
    BY DEF Placed, Born, Turn
  <2>2. t \in Tables /\ Placed("table", t, {}, 11, 9)
    BY DEF Placed, Born, Turn, Tables
  <2>3. AllDated({Table(t)}, 11, 9)
    BY <2>2, DatedSets
  <2>4. /\ AllDated(Needed(t, {"id", "tenant_id", "invoice_id", "field", "created_at"}), 11, 9)
        /\ AllDated(Optional(t, {"user_id", "old_value", "new_value"}), 11, 9)
    <3> HIDE DEF t
    <3> QED BY <2>1, <2>2, DatedColumns
  <2>5. AllDated({Reference(t, "invoice_id", "invoices", "CASCADE")}, 11, 9)
    <3>1. Placed("reference", t, {"invoice_id"}, 11, 9)
      BY DEF Placed, Born, Turn
    <3> HIDE DEF t
    <3>2. QED
      BY <2>2, <3>1, 11 \in 4..14, ToInvoices
  <2>6. AllDated({Reference(t, "user_id", "users", "SET_NULL")}, 11, 9)
    <3>1. Placed("reference", t, {"user_id"}, 11, 9)
      BY DEF Placed, Born, Turn
    <3> HIDE DEF t
    <3>2. QED
      BY <2>2, <3>1, 11 \in 8..14, ToUsers
  <2>7. AllDated({Reference(t, "invoice_id", "invoices", "CASCADE"),
                  Reference(t, "user_id", "users", "SET_NULL")}, 11, 9)
    BY <2>5, <2>6 DEF AllDated
  <2>8. QED
    BY <2>3, <2>4, <2>7, DatedUnion, PlannedCreate DEF AddEdits, CreateTable
<1>10. Planned(AddEdits[10], 11, 10)
  BY PlannedIndex DEF AddEdits, Placed, Born, Turn, Tables
<1>11. QED
  BY <1>1, <1>2, <1>3, <1>4, <1>5, <1>6, <1>7, <1>8, <1>9, <1>10

\* What CreateMappings creates is placed right.
LEMMA CreateMappingsPlanned == \A k \in 1..3 : Planned(CreateMappings[k], 12, k)
<1>1. Planned(CreateMappings[1], 12, 1)
  BY PlannedTypes DEF CreateMappings, Placed, Born, Turn, Tables
<1>2. Planned(CreateMappings[2], 12, 2)
  <2> DEFINE t == "vendor_account_mappings"
  <2>1. \A c \in {"id", "created_at", "updated_at", "tenant_id", "vendor_name_normalized",
                  "vendor_name_raw", "creditor_account_number", "usage_count", "last_used_at"} :
           Placed("column", t, {c}, 12, 2) /\ Placed("not_null", t, {c}, 12, 2)
    BY DEF Placed, Born, Turn
  <2>2. t \in Tables /\ Placed("table", t, {}, 12, 2)
    BY DEF Placed, Born, Turn, Tables
  <2>3. AllDated({Table(t)}, 12, 2)
    BY <2>2, DatedSets
  <2>4. /\ AllDated(Needed(t, {"id", "created_at", "updated_at"}), 12, 2)
        /\ AllDated(Needed(t, {"tenant_id", "vendor_name_normalized", "vendor_name_raw",
                               "creditor_account_number", "usage_count", "last_used_at"}), 12, 2)
    <3> HIDE DEF t
    <3> QED BY <2>1, <2>2, DatedColumns
  <2>5. AllDated({Key(t, {"tenant_id", "vendor_name_normalized"})}, 12, 2)
    <3>1. Placed("key", t, {"tenant_id", "vendor_name_normalized"}, 12, 2)
      BY DEF Placed, Born, Turn
    <3>2. QED
      BY <2>2, <3>1, DatedSets
  <2>6. QED
    BY <2>3, <2>4, <2>5, DatedUnion, PlannedCreate DEF CreateMappings, CreateTable, Standard
<1>3. Planned(CreateMappings[3], 12, 3)
  BY PlannedIndex DEF CreateMappings, Placed, Born, Turn, Tables
<1>4. QED
  BY <1>1, <1>2, <1>3

\* What AddMethod creates is placed right.
LEMMA AddMethodPlanned == \A k \in 1..3 : Planned(AddMethod[k], 13, k)
<1>1. Planned(AddMethod[1], 13, 1)
  BY PlannedTypes DEF AddMethod, Placed, Born, Turn, Tables
<1>2. Planned(AddMethod[2], 13, 2)
  BY PlannedColumn DEF AddMethod, Placed, Born, Turn, Tables
<1>3. Planned(AddMethod[3], 13, 3)
  BY DatedTyped DEF AddMethod, Placed, Born, Turn, Tables
<1>4. QED
  BY <1>1, <1>2, <1>3

\* What AddNotAnInvoice creates is placed right.
LEMMA AddNotAnInvoicePlanned == \A k \in 1..1 : Planned(AddNotAnInvoice[k], 14, k)
<1>1. Planned(AddNotAnInvoice[1], 14, 1)
  BY PlannedTypes DEF AddNotAnInvoice, Placed, Born, Turn, Tables
<1>2. QED
  BY <1>1

\* The statements of a revision and where what they create belongs.
Revision(r, S, n) == Upgrades[r] = S /\ Len(S) = n /\ \A k \in 1..n : Planned(S[k], r, k)

\* The fourteen revisions.
LEMMA Revisions ==
    /\ Revision(1, CreateInvoices, 4)
    /\ Revision(2, EnableVector, 1)
    /\ Revision(3, CreateAudit, 2)
    /\ Revision(4, CreateEmbeddings, 3)
    /\ Revision(5, AddTenantToInvoices, 3)
    /\ Revision(6, AddTenantToAudit, 4)
    /\ Revision(7, CreateUsers, 2)
    /\ Revision(8, CreateFiles, 3)
    /\ Revision(9, AddExtraction, 10)
    /\ Revision(10, AddVerification, 6)
    /\ Revision(11, AddEdits, 10)
    /\ Revision(12, CreateMappings, 3)
    /\ Revision(13, AddMethod, 3)
    /\ Revision(14, AddNotAnInvoice, 1)
<1>1. Revision(1, CreateInvoices, 4)
  <2>1. Upgrades[1] = CreateInvoices
    BY DEF Upgrades
  <2>2. Len(CreateInvoices) = 4
    BY DEF CreateInvoices
  <2>3. QED
    BY <2>1, <2>2, CreateInvoicesPlanned DEF Revision
<1>2. Revision(2, EnableVector, 1)
  <2>1. Upgrades[2] = EnableVector
    BY DEF Upgrades
  <2>2. Len(EnableVector) = 1
    BY DEF EnableVector
  <2>3. QED
    BY <2>1, <2>2, EnableVectorPlanned DEF Revision
<1>3. Revision(3, CreateAudit, 2)
  <2>1. Upgrades[3] = CreateAudit
    BY DEF Upgrades
  <2>2. Len(CreateAudit) = 2
    BY DEF CreateAudit
  <2>3. QED
    BY <2>1, <2>2, CreateAuditPlanned DEF Revision
<1>4. Revision(4, CreateEmbeddings, 3)
  <2>1. Upgrades[4] = CreateEmbeddings
    BY DEF Upgrades
  <2>2. Len(CreateEmbeddings) = 3
    BY DEF CreateEmbeddings
  <2>3. QED
    BY <2>1, <2>2, CreateEmbeddingsPlanned DEF Revision
<1>5. Revision(5, AddTenantToInvoices, 3)
  <2>1. Upgrades[5] = AddTenantToInvoices
    BY DEF Upgrades
  <2>2. Len(AddTenantToInvoices) = 3
    BY DEF AddTenantToInvoices
  <2>3. QED
    BY <2>1, <2>2, AddTenantToInvoicesPlanned DEF Revision
<1>6. Revision(6, AddTenantToAudit, 4)
  <2>1. Upgrades[6] = AddTenantToAudit
    BY DEF Upgrades
  <2>2. Len(AddTenantToAudit) = 4
    BY DEF AddTenantToAudit
  <2>3. QED
    BY <2>1, <2>2, AddTenantToAuditPlanned DEF Revision
<1>7. Revision(7, CreateUsers, 2)
  <2>1. Upgrades[7] = CreateUsers
    BY DEF Upgrades
  <2>2. Len(CreateUsers) = 2
    BY DEF CreateUsers
  <2>3. QED
    BY <2>1, <2>2, CreateUsersPlanned DEF Revision
<1>8. Revision(8, CreateFiles, 3)
  <2>1. Upgrades[8] = CreateFiles
    BY DEF Upgrades
  <2>2. Len(CreateFiles) = 3
    BY DEF CreateFiles
  <2>3. QED
    BY <2>1, <2>2, CreateFilesPlanned DEF Revision
<1>9. Revision(9, AddExtraction, 10)
  <2>1. Upgrades[9] = AddExtraction
    BY DEF Upgrades
  <2>2. Len(AddExtraction) = 10
    BY DEF AddExtraction
  <2>3. QED
    BY <2>1, <2>2, AddExtractionPlanned DEF Revision
<1>10. Revision(10, AddVerification, 6)
  <2>1. Upgrades[10] = AddVerification
    BY DEF Upgrades
  <2>2. Len(AddVerification) = 6
    BY DEF AddVerification
  <2>3. QED
    BY <2>1, <2>2, AddVerificationPlanned DEF Revision
<1>11. Revision(11, AddEdits, 10)
  <2>1. Upgrades[11] = AddEdits
    BY DEF Upgrades
  <2>2. Len(AddEdits) = 10
    BY DEF AddEdits
  <2>3. QED
    BY <2>1, <2>2, AddEditsPlanned DEF Revision
<1>12. Revision(12, CreateMappings, 3)
  <2>1. Upgrades[12] = CreateMappings
    BY DEF Upgrades
  <2>2. Len(CreateMappings) = 3
    BY DEF CreateMappings
  <2>3. QED
    BY <2>1, <2>2, CreateMappingsPlanned DEF Revision
<1>13. Revision(13, AddMethod, 3)
  <2>1. Upgrades[13] = AddMethod
    BY DEF Upgrades
  <2>2. Len(AddMethod) = 3
    BY DEF AddMethod
  <2>3. QED
    BY <2>1, <2>2, AddMethodPlanned DEF Revision
<1>14. Revision(14, AddNotAnInvoice, 1)
  <2>1. Upgrades[14] = AddNotAnInvoice
    BY DEF Upgrades
  <2>2. Len(AddNotAnInvoice) = 1
    BY DEF AddNotAnInvoice
  <2>3. QED
    BY <2>1, <2>2, AddNotAnInvoicePlanned DEF Revision
<1>15. QED
  BY <1>1, <1>2, <1>3, <1>4, <1>5, <1>6, <1>7, <1>8, <1>9, <1>10, <1>11, <1>12, <1>13, <1>14

\* What holds of the statements of every revision.
LEMMA History ==
    ASSUME NEW r \in 1..14
    PROVE  Len(Upgrades[r]) \in Nat /\ \A k \in 1..Len(Upgrades[r]) : Planned(Upgrades[r][k], r, k)
<1>1. \A S, n : Revision(r, S, n) /\ n \in Nat
        => Len(Upgrades[r]) \in Nat /\ \A k \in 1..Len(Upgrades[r]) : Planned(Upgrades[r][k], r, k)
  BY DEF Revision
<1>2. CASE r = 1
  BY <1>1, <1>2, Revisions
<1>3. CASE r = 2
  BY <1>1, <1>3, Revisions
<1>4. CASE r = 3
  BY <1>1, <1>4, Revisions
<1>5. CASE r = 4
  BY <1>1, <1>5, Revisions
<1>6. CASE r = 5
  BY <1>1, <1>6, Revisions
<1>7. CASE r = 6
  BY <1>1, <1>7, Revisions
<1>8. CASE r = 7
  BY <1>1, <1>8, Revisions
<1>9. CASE r = 8
  BY <1>1, <1>9, Revisions
<1>10. CASE r = 9
  BY <1>1, <1>10, Revisions
<1>11. CASE r = 10
  BY <1>1, <1>11, Revisions
<1>12. CASE r = 11
  BY <1>1, <1>12, Revisions
<1>13. CASE r = 12
  BY <1>1, <1>13, Revisions
<1>14. CASE r = 13
  BY <1>1, <1>14, Revisions
<1>15. CASE r = 14
  BY <1>1, <1>15, Revisions
<1>16. QED
  BY <1>2, <1>3, <1>4, <1>5, <1>6, <1>7, <1>8, <1>9, <1>10, <1>11, <1>12, <1>13, <1>14, <1>15

\* The objects that a revision creates, and the schema that upgrades build from nothing.
New(r) == Created(Upgrades[r], Len(Upgrades[r]))
Built(r) == {o \in UNION {New(q) : q \in 1..r} : r >= 5 => o # NumberIndex}

\* An object that belongs to the revisions up to r.
Known(o, r) == IsObject(o) /\ Links(o) /\ Born(o.on, o.cols) <= r

\* Objects are placed in the history once.
LEMMA NewDated ==
    ASSUME NEW r \in 1..14, NEW o \in New(r)
    PROVE  /\ \E k \in 1..Len(Upgrades[r]) : Dated(o, r, k)
           /\ Known(o, r) /\ Born(o.on, o.cols) = r
<1>1. PICK k \in 1..Len(Upgrades[r]) : o \in Upgrades[r][k].new \cup Upgrades[r][k].ensured
  BY DEF New, Created
<1>2. Planned(Upgrades[r][k], r, k)
  BY History
<1>3. Dated(o, r, k)
  BY <1>1, <1>2 DEF Planned, AllDated
<1>4. IsObject(o) /\ Links(o) /\ Born(o.on, o.cols) = r
  BY <1>3 DEF Dated
<1>5. r <= r
  OBVIOUS
<1>6. QED
  BY <1>3, <1>4, <1>5 DEF Known

\* The index on the invoice number belongs to the first revision.
LEMMA NumberIndexBorn ==
    /\ NumberIndex.kind = "index" /\ NumberIndex.on = "invoices"
    /\ NumberIndex.cols = {"invoice_number"}
    /\ Born(NumberIndex.on, NumberIndex.cols) = 1
<1>1. /\ NumberIndex.kind = "index" /\ NumberIndex.on = "invoices"
      /\ NumberIndex.cols = {"invoice_number"}
  BY Fields DEF NumberIndex, Index
<1>2. Born("invoices", {"invoice_number"}) = 1
  BY DEF Born, Changes, Amounts
<1>3. QED
  BY <1>1, <1>2

\* The schema of a revision is made from the one before.
LEMMA BuiltNext ==
    /\ Built(0) = {}
    /\ \A r \in 1..14 : Built(r) = {o \in Built(r - 1) \cup New(r) : r = 5 => o # NumberIndex}
<1>1. Built(0) = {}
  <2>1. 1..0 = {}
    OBVIOUS
  <2>2. QED
    BY <2>1 DEF Built
<1>2. ASSUME NEW r \in 1..14
      PROVE  Built(r) = {o \in Built(r - 1) \cup New(r) : r = 5 => o # NumberIndex}
  <2>1. 1..r = (1..(r - 1)) \cup {r}
    OBVIOUS
  <2> DEFINE old == UNION {New(q) : q \in 1..(r - 1)}
  <2>2. UNION {New(q) : q \in 1..r} = old \cup New(r)
    <3>1. \A x : (\E q \in 1..r : x \in New(q)) <=> (\E q \in 1..(r - 1) : x \in New(q)) \/ x \in New(r)
      BY <2>1
    <3>2. QED
      BY <3>1
  <2>3. r >= 6 => NumberIndex \notin New(r)
    <3>1. NumberIndex \in New(r) => Born(NumberIndex.on, NumberIndex.cols) = r
      BY NewDated
    <3>2. QED
      BY <3>1, NumberIndexBorn
  <2>4. (r >= 5 <=> r - 1 >= 5 \/ r = 5) /\ (r - 1 >= 5 => r >= 6) /\ (r - 1 >= 5 => r # 5)
    OBVIOUS
  <2>5. ASSUME NEW x
        PROVE  /\ x \in Built(r) <=> x \in old \cup New(r) /\ (r >= 5 => x # NumberIndex)
               /\ x \in Built(r - 1) <=> x \in old /\ (r - 1 >= 5 => x # NumberIndex)
    <3>1. x \in Built(r) <=> x \in UNION {New(q) : q \in 1..r} /\ (r >= 5 => x # NumberIndex)
      BY DEF Built
    <3>2. x \in Built(r - 1) <=> x \in old /\ (r - 1 >= 5 => x # NumberIndex)
      BY DEF Built
    <3> HIDE DEF old
    <3>3. QED
      BY <2>2, <3>1, <3>2
  <2> HIDE DEF old
  <2>6. ASSUME NEW x
        PROVE  x \in Built(r) <=> x \in Built(r - 1) \cup New(r) /\ (r = 5 => x # NumberIndex)
    BY <2>3, <2>4, <2>5
  <2>7. QED
    BY <2>6
<1>3. QED
  BY <1>1, <1>2

\* What is built up to a revision belongs there.
LEMMA BuiltKnown ==
    ASSUME NEW r \in 0..14, NEW o \in Built(r)
    PROVE  Known(o, r)
<1>1. PICK q \in 1..r : o \in New(q)
  BY DEF Built
<1>2. q \in 1..14 /\ q <= r
  OBVIOUS
<1>3. Known(o, q) /\ Born(o.on, o.cols) = q
  BY <1>1, <1>2, NewDated
<1>4. QED
  BY <1>2, <1>3 DEF Known

\* What downgrades leave has a place in the history, and belongs to no table.
LEMMA LeftoversDated ==
    ASSUME NEW o \in Leftovers
    PROVE  /\ IsObject(o) /\ Links(o) /\ o.kind \in {"type", "label", "extension"}
           /\ o.kind \notin Attached \cup {"table"}
           /\ Dated(o, 1, 1) \/ Dated(o, 12, 1) \/ Dated(o, 14, 1)
           /\ Dated(o, 1, 1) <=> o \in Enum("invoice_status", {"RECEIVED", "PROCESSING", "BOOKED", "ERROR"})
<1> DEFINE X == Enum("invoice_status", {"RECEIVED", "PROCESSING", "BOOKED", "ERROR"})
<1>1. Dated(Extension("pgcrypto"), 12, 1)
  <2>1. Placed("extension", "pgcrypto", {}, 12, 1)
    BY DEF Placed, Born, Turn
  <2>2. QED
    BY <2>1, DatedType
<1>2. Dated(Label("extraction_status", "not_an_invoice"), 14, 1)
  <2>1. Placed("label", "extraction_status", {"not_an_invoice"}, 14, 1)
    BY DEF Placed, Born, Turn
  <2>2. QED
    BY <2>1, DatedType
<1>3. AllDated(X, 1, 1)
  <2>1. /\ Placed("type", "invoice_status", {}, 1, 1)
        /\ \A l : Placed("label", "invoice_status", {l}, 1, 1)
    BY DEF Placed, Born, Turn
  <2>2. QED
    BY <2>1, DatedType DEF AllDated, Enum
<1>4. o \in X \/ o = Extension("pgcrypto") \/ o = Label("extraction_status", "not_an_invoice")
  BY DEF Leftovers
<1>5. \A n, l : Type(n).kind = "type" /\ Extension(n).kind = "extension" /\ Label(n, l).kind = "label"
  BY Fields DEF Type, Extension, Label
<1>6. o.kind \in {"type", "label", "extension"}
  BY <1>4, <1>5 DEF Enum
<1>7. o.kind \notin Attached \cup {"table"}
  BY <1>6 DEF Attached
<1>8. \A r, k, x : Dated(x, r, k) => IsObject(x) /\ Links(x) /\ Born(x.on, x.cols) = r
  BY DEF Dated
<1> HIDE DEF X
<1>9. Dated(o, 1, 1) \/ Dated(o, 12, 1) \/ Dated(o, 14, 1)
  BY <1>1, <1>2, <1>3, <1>4 DEF AllDated
<1>10. Dated(o, 1, 1) <=> o \in X
  <2>1. o \in X => Dated(o, 1, 1)
    BY <1>3 DEF AllDated
  <2>2. o \notin X => Born(o.on, o.cols) # 1
    BY <1>1, <1>2, <1>4, <1>8
  <2>3. QED
    BY <1>8, <2>1, <2>2
<1>11. QED
  BY <1>6, <1>7, <1>8, <1>9, <1>10 DEF X

-----------------------------------------------------------------------------
(* A revision can be applied to every schema that a history leads to.      *)

InvoiceStatuses == Enum("invoice_status", {"RECEIVED", "PROCESSING", "BOOKED", "ERROR"})

\* A schema of revision r: what upgrades build, and leftovers of downgrades,
\* never the labels of the status without the type.
Fits(B, r) ==
    /\ Built(r) \subseteq B
    /\ B \subseteq Built(r) \cup Leftovers
    /\ B \cap InvoiceStatuses # {} => Type("invoice_status") \in B

\* What a statement creates finds what it refers to, in what was built before it.
Ground(r, k) == (Built(r - 1) \cup Created(Upgrades[r], k - 1)) \cup Upgrades[r][k].new
Grounds(r, k) == Supported(Upgrades[r][k], Ground(r, k))

\* The two revisions that fill a column before they require it.
Backfills ==
    /\ <<"llm_audit_entries", "tenant_id">> \in Upgrades[6][2].filled
    /\ Upgrades[12][1].new = {} /\ Upgrades[14][1].new = {}

\* These statements are where they should be.
LEMMA BackfillsHold == Backfills
<1>1. /\ Upgrades[6] = AddTenantToAudit /\ Upgrades[12] = CreateMappings
      /\ Upgrades[14] = AddNotAnInvoice
  BY Revisions DEF Revision
<1>2. AddTenantToAudit[2] = Update("llm_audit_entries", "tenant_id")
  BY DEF AddTenantToAudit
<1>3. CreateMappings[1] = Ensure({Extension("pgcrypto")})
  BY DEF CreateMappings
<1>4. AddNotAnInvoice[1] = Ensure({Label("extraction_status", "not_an_invoice")})
  BY DEF AddNotAnInvoice
<1>5. /\ <<"llm_audit_entries", "tenant_id">> \in Update("llm_audit_entries", "tenant_id").filled
      /\ \A X : Ensure(X).new = {}
  BY StatementFields DEF Does
<1>6. QED
  BY <1>1, <1>2, <1>3, <1>4, <1>5 DEF Backfills

\* An upgrade fits every schema of the revision before it, but for the type that
\* is there already, and for invoices.
LEMMA UpgradeAdds ==
    ASSUME NEW r \in 1..14, NEW d, Fits(d.schema, r - 1),
           \A k \in 1..Len(Upgrades[r]) : Grounds(r, k),
           r = 1 => Type("invoice_status") \notin d.schema,
           r = 5 => d.rows["invoices"] = {}
    PROVE  Adds(Upgrades[r], d)
<1> DEFINE S == Upgrades[r]
           B == d.schema
<1>0. Len(S) \in Nat
  BY History
<1>1. SUFFICES ASSUME NEW k \in 1..Len(S)
               PROVE  LET s == S[k]
                          before == (B \cup Created(S, k - 1)) \ Dropped(S, k - 1)
                      IN  /\ s.removed = {}
                          /\ \A g \in s.gone : g.kind = "index" /\ g \in before /\ g \notin Created(S, Len(S))
                          /\ s.new \cap before = {}
                          /\ Supported(s, before \cup s.new)
                          /\ \A b \in s.bare :
                               /\ b[1] \in Tables
                               /\ (\A x \in d.rows[b[1]] : b[2] \in x) \/ (\E j \in 1..(k - 1) : b \in S[j].filled)
  BY DEF Adds
<1> DEFINE s == S[k]
           before == (B \cup Created(S, k - 1)) \ Dropped(S, k - 1)
<1>2. Planned(s, r, k)
  BY <1>1, History
<1>3. ASSUME NEW j \in 1..(k - 1) PROVE Planned(S[j], r, j) /\ j # k
  <2>1. j \in 1..Len(S) /\ j # k
    BY <1>0, <1>1
  <2>2. QED
    BY <2>1, History
<1>4. ASSUME NEW g \in Dropped(S, k - 1) PROVE g = NumberIndex /\ r = 5 /\ k # 2
  <2>1. PICK j \in 1..(k - 1) : g \in S[j].gone
    BY <1>4 DEF Dropped
  <2>2. Planned(S[j], r, j) /\ j # k
    BY <1>3, <2>1
  <2>3. g = NumberIndex /\ r = 5 /\ j = 2
    BY <2>1, <2>2 DEF Planned
  <2>4. QED
    BY <2>2, <2>3
<1>5. ASSUME NEW g \in s.gone PROVE g.kind = "index" /\ g \in before /\ g \notin Created(S, Len(S))
  <2>1. r = 5 /\ k = 2 /\ g = NumberIndex
    BY <1>2, <1>5 DEF Planned
  <2>2. g \notin New(5)
    <3>1. g \in New(5) => Born(g.on, g.cols) = 5
      BY NewDated
    <3>2. QED
      BY <2>1, <3>1, NumberIndexBorn
  <2>3. g \in Built(4)
    <3>1. g \in CreateInvoices[2].new
      <4>1. CreateInvoices[2] = Create({NumberIndex})
        BY DEF CreateInvoices, NumberIndex
      <4>2. QED
        BY <2>1, <4>1, StatementFields DEF Does
    <3>2. Upgrades[1] = CreateInvoices /\ Len(Upgrades[1]) = 4
      BY Revisions DEF Revision
    <3>3. g \in New(1)
      BY <3>1, <3>2 DEF New, Created
    <3>4. 1 \in 1..4
      OBVIOUS
    <3>5. QED
      BY <3>3, <3>4 DEF Built
  <2>4. g \in B /\ g \notin Dropped(S, k - 1)
    BY <1>4, <2>1, <2>3 DEF Fits
  <2>5. QED
    BY <2>1, <2>2, <2>4, NumberIndexBorn DEF New
<1>6. ASSUME NEW x \in s.new PROVE x \notin before
  <2>1. Dated(x, r, k)
    BY <1>2, <1>6 DEF Planned, AllDated
  <2>2. Born(x.on, x.cols) = r /\ Turn(x.kind, x.on, x.cols) = k
    BY <2>1 DEF Dated
  <2>3. x \notin Built(r - 1)
    <3>1. x \in Built(r - 1) => Known(x, r - 1)
      <4>1. r - 1 \in 0..14
        OBVIOUS
      <4>2. QED
        BY <4>1, BuiltKnown
    <3>2. ~(r <= r - 1)
      OBVIOUS
    <3>3. QED
      BY <2>2, <3>1, <3>2 DEF Known
  <2>4. x \notin Created(S, k - 1)
    <3>1. SUFFICES ASSUME NEW j \in 1..(k - 1), x \in S[j].new \cup S[j].ensured PROVE FALSE
      BY DEF Created
    <3>2. Planned(S[j], r, j) /\ j # k
      BY <1>3
    <3>3. Dated(x, r, j)
      BY <3>1, <3>2 DEF Planned, AllDated
    <3>4. QED
      BY <2>2, <3>2, <3>3 DEF Dated
  <2>5. ASSUME x \in B, x \in Leftovers PROVE FALSE
    <3>1. Dated(x, 1, 1) \/ Dated(x, 12, 1) \/ Dated(x, 14, 1)
      BY <2>5, LeftoversDated
    <3>2. k = 1 /\ r \in {1, 12, 14}
      BY <2>2, <3>1 DEF Dated
    <3>3. CASE r = 1
      <4>1. x \in InvoiceStatuses
        BY <2>1, <2>5, <3>2, <3>3, LeftoversDated DEF InvoiceStatuses
      <4>2. QED
        BY <2>5, <3>3, <4>1 DEF Fits
    <3>4. CASE r # 1
      BY <1>6, <3>2, <3>4, BackfillsHold DEF Backfills
    <3>5. QED
      BY <3>3, <3>4
  <2>6. QED
    BY <2>3, <2>4, <2>5 DEF Fits
<1>7. Supported(s, before \cup s.new)
  <2> DEFINE W == (Built(r - 1) \cup Created(S, k - 1)) \cup s.new
             V == before \cup s.new
  <2>1. Supported(s, W)
    BY <1>1 DEF Grounds, Ground
  <2>2. ASSUME NEW x \in W, x.kind # "index" PROVE x \in V
    BY <1>4, <2>2, NumberIndexBorn DEF Fits
  <2>3. \A t, c : Table(t).kind = "table" /\ Column(t, c).kind = "column"
                  /\ Type(t).kind = "type" /\ Extension(t).kind = "extension"
    BY Fields DEF Table, Column, Type, Extension
  <2> HIDE DEF W, V
  <2>4. /\ \A t : Table(t) \in W => Table(t) \in V
        /\ \A t, c : Column(t, c) \in W => Column(t, c) \in V
        /\ \A t : Type(t) \in W => Type(t) \in V
        /\ \A t : Extension(t) \in W => Extension(t) \in V
    BY <2>2, <2>3
  <2> HIDE DEF s
  <2>5. \A n : {Type(n), Extension(n)} \cap W # {} => {Type(n), Extension(n)} \cap V # {}
    BY <2>4
  <2>6. Supported(s, V)
    BY <2>1, <2>4, <2>5 DEF Supported
  <2>7. QED
    BY <2>6 DEF V
<1>8. ASSUME NEW b \in s.bare
      PROVE  /\ b[1] \in Tables
             /\ (\A x \in d.rows[b[1]] : b[2] \in x) \/ (\E j \in 1..(k - 1) : b \in S[j].filled)
  <2>1. \/ r = 5 /\ b = <<"invoices", "tenant_id">>
        \/ r = 6 /\ k = 3 /\ b = <<"llm_audit_entries", "tenant_id">>
    BY <1>2, <1>8 DEF Planned
  <2>2. CASE r = 5
    BY <2>1, <2>2 DEF Tables
  <2>3. CASE r = 6
    <3>1. k = 3 /\ b = <<"llm_audit_entries", "tenant_id">>
      BY <2>1, <2>3
    <3>2. 2 \in 1..(k - 1) /\ b \in S[2].filled
      BY <2>3, <3>1, BackfillsHold DEF Backfills
    <3>3. b[1] \in Tables
      BY <3>1 DEF Tables
    <3>4. QED
      BY <3>2, <3>3
  <2>4. QED
    BY <2>1, <2>2, <2>3
<1>9. s.removed = {}
  BY <1>2 DEF Planned
<1>10. QED
  BY <1>5, <1>6, <1>7, <1>8, <1>9

-----------------------------------------------------------------------------
(* What the statements of upgrades refer to is there.                      *)

\* A table with columns.
HasColumns(W, t, names) == Table(t) \in W /\ \A c \in names : Column(t, c) \in W

\* Objects find what they refer to.
Stands(X, W) ==
    \A o \in X :
        /\ o.kind \in Attached => Table(o.on) \in W /\ \A c \in o.cols : Column(o.on, c) \in W
        /\ o.kind = "reference" => Table(o.to[1]) \in W
        /\ o.kind = "typed" => {Type(o.to[1]), Extension(o.to[1])} \cap W # {}

\* A table has the columns that it has in a part of the schema.
LEMMA HasMore ==
    ASSUME NEW W, NEW V, W \subseteq V, NEW t, NEW names, HasColumns(W, t, names)
    PROVE  HasColumns(V, t, names) /\ \A some \in SUBSET names : HasColumns(V, t, some)
BY DEF HasColumns

\* The columns that one statement gives to a table.
LEMMA HasBoth ==
    ASSUME NEW W, NEW t, NEW A, NEW B, HasColumns(W, t, A), HasColumns(W, t, B)
    PROVE  HasColumns(W, t, A \cup B)
BY DEF HasColumns

\* Columns that a statement creates are there.
LEMMA HasThese ==
    ASSUME NEW W, NEW t, NEW A, Table(t) \in W, Optional(t, A) \subseteq W \/ Needed(t, A) \subseteq W
    PROVE  HasColumns(W, t, A)
BY DEF HasColumns, Optional, Needed

\* Sets that stand, one by one.
LEMMA StandsBoth ==
    ASSUME NEW W
    PROVE  /\ \A X, Y : Stands(X, W) /\ Stands(Y, W) => Stands(X \cup Y, W)
           /\ \A t : Stands({Table(t)}, W)
           /\ \A X : (\A o \in X : o.kind \in {"type", "extension", "label"}) => Stands(X, W)
<1>1. \A t : Stands({Table(t)}, W)
  <2>1. \A t : Table(t).kind = "table"
    BY Fields DEF Table
  <2>2. QED
    BY <2>1 DEF Stands, Attached
<1>2. \A X : (\A o \in X : o.kind \in {"type", "extension", "label"}) => Stands(X, W)
  BY DEF Stands, Attached
<1>3. \A X, Y : Stands(X, W) /\ Stands(Y, W) => Stands(X \cup Y, W)
  BY DEF Stands
<1>4. QED
  BY <1>1, <1>2, <1>3

\* Columns stand on their table, and the rest on its columns.
LEMMA StandsColumns ==
    ASSUME NEW W, NEW t, NEW names, HasColumns(W, t, names)
    PROVE  Stands(Optional(t, names), W) /\ Stands(Needed(t, names), W)
<1>1. \A c : /\ Column(t, c).kind = "column" /\ Column(t, c).on = t /\ Column(t, c).cols = {c}
             /\ NotNull(t, c).kind = "not_null" /\ NotNull(t, c).on = t /\ NotNull(t, c).cols = {c}
  BY Fields DEF Column, NotNull
<1>2. Stands({Column(t, c) : c \in names}, W)
  BY <1>1 DEF Stands, HasColumns
<1>3. Stands({NotNull(t, c) : c \in names}, W)
  BY <1>1 DEF Stands, HasColumns
<1>4. QED
  BY <1>2, <1>3, StandsBoth DEF Optional, Needed

\* When objects of this kind stand on the columns of a table (Key).
LEMMA StandsKey ==
    ASSUME NEW W, NEW t, NEW cols, HasColumns(W, t, cols)
    PROVE  /\ Stands({Key(t, cols)}, W) /\ Stands({Index(t, cols)}, W)
           /\ \A to : Stands({Object("index", t, cols, to)}, W)
<1>1. Key(t, cols).kind = "key" /\ Key(t, cols).on = t /\ Key(t, cols).cols = cols
  BY Fields DEF Key
<1>2. \A to : /\ Object("index", t, cols, to).kind = "index" /\ Object("index", t, cols, to).on = t
              /\ Object("index", t, cols, to).cols = cols
  BY Fields
<1>3. Stands({Key(t, cols)}, W)
  BY <1>1 DEF Stands, HasColumns
<1>4. \A to : Stands({Object("index", t, cols, to)}, W)
  BY <1>2 DEF Stands, HasColumns
<1>5. QED
  BY <1>3, <1>4 DEF Index

\* When objects of this kind stand on the columns of a table (NotNull).
LEMMA StandsNotNull ==
    ASSUME NEW W, NEW t, NEW c, HasColumns(W, t, {c})
    PROVE  Stands({NotNull(t, c)}, W)
<1>1. NotNull(t, c).kind = "not_null" /\ NotNull(t, c).on = t /\ NotNull(t, c).cols = {c}
  BY Fields DEF NotNull
<1>2. QED
  BY <1>1 DEF Stands, HasColumns

\* When objects of this kind stand on the columns of a table (Typed).
LEMMA StandsTyped ==
    ASSUME NEW W, NEW t, NEW c, NEW n, HasColumns(W, t, {c}), Type(n) \in W \/ Extension(n) \in W
    PROVE  Stands({Typed(t, c, n)}, W)
<1> DEFINE o == Typed(t, c, n)
<1>1. o.kind = "typed" /\ o.on = t /\ o.cols = {c} /\ o.to = <<n>>
  BY Fields DEF Typed
<1> HIDE DEF o
<1>2. o.to[1] = n
  BY <1>1
<1>3. {Type(n), Extension(n)} \cap W # {}
  OBVIOUS
<1>4. Stands({o}, W)
  BY <1>1, <1>2, <1>3 DEF Stands, HasColumns
<1>5. QED
  BY <1>4 DEF o

\* When objects of this kind stand on the columns of a table (Reference).
LEMMA StandsReference ==
    ASSUME NEW W, NEW t, NEW c, NEW other, HasColumns(W, t, {c}), Table(other) \in W
    PROVE  \A rule : Stands({Reference(t, c, other, rule)}, W)
<1> SUFFICES ASSUME NEW rule PROVE Stands({Reference(t, c, other, rule)}, W)
  OBVIOUS
<1> DEFINE o == Reference(t, c, other, rule)
<1>1. o.kind = "reference" /\ o.on = t /\ o.cols = {c} /\ o.to = <<other, rule>>
  BY Fields DEF Reference
<1> HIDE DEF o
<1>2. o.to[1] = other
  BY <1>1
<1>3. Stands({o}, W)
  BY <1>1, <1>2 DEF Stands, HasColumns
<1>4. QED
  BY <1>3 DEF o

\* The objects of a type stand by themselves.
LEMMA StandsEnum ==
    ASSUME NEW W, NEW n, NEW labels
    PROVE  Stands(Enum(n, labels), W)
<1>1. Type(n).kind = "type" /\ \A l : Label(n, l).kind = "label"
  BY Fields DEF Type, Label
<1>2. \A o \in Enum(n, labels) : o.kind \in {"type", "extension", "label"}
  BY <1>1 DEF Enum
<1>3. QED
  BY <1>2, StandsBoth

\* Statements that find what they refer to.
LEMMA Supports ==
    ASSUME NEW W
    PROVE  /\ \A X : Stands(X, W) => Supported(Create(X), W)
           /\ \A X : Supported(Ensure(X), W)
           /\ \A g : Supported(Drop(g), W)
           /\ \A t, c : HasColumns(W, t, {c}) =>
                /\ Supported(AddColumn(t, c), W) /\ Supported(AddWithDefault(t, c), W)
                /\ Supported(AddBare(t, c), W) /\ Supported(Update(t, c), W)
                /\ Supported(SetNotNull(t, c), W)
<1>1. ASSUME NEW s, NEW X, NEW F, s.new = X, s.filled = F, Stands(X, W),
             \A f \in F : Column(f[1], f[2]) \in W
      PROVE  Supported(s, W)
  BY <1>1 DEF Supported, Stands
<1>2. Stands({}, W)
  BY DEF Stands
<1>3. \A X : Stands(X, W) => Supported(Create(X), W)
  BY <1>1, StatementFields DEF Does
<1>4. \A X : Supported(Ensure(X), W)
  BY <1>1, <1>2, StatementFields DEF Does
<1>5. \A g : Supported(Drop(g), W)
  BY <1>1, <1>2, StatementFields DEF Does
<1>6. ASSUME NEW t, NEW c, HasColumns(W, t, {c})
      PROVE  /\ Supported(AddColumn(t, c), W) /\ Supported(AddWithDefault(t, c), W)
             /\ Supported(AddBare(t, c), W) /\ Supported(Update(t, c), W)
             /\ Supported(SetNotNull(t, c), W)
  <2>1. \A f \in {<<t, c>>} : Column(f[1], f[2]) \in W
    BY <1>6 DEF HasColumns
  <2>2. Stands(Optional(t, {c}), W) /\ Stands(Needed(t, {c}), W) /\ Stands({NotNull(t, c)}, W)
    BY <1>6, StandsColumns, StandsNotNull
  <2>3. Supported(AddColumn(t, c), W)
    BY <1>1, <2>2, StatementFields DEF Does
  <2>4. Supported(AddWithDefault(t, c), W)
    BY <1>1, <2>1, <2>2, StatementFields DEF Does
  <2>5. Supported(AddBare(t, c), W)
    BY <1>1, <2>2, StatementFields DEF Does
  <2>6. Supported(Update(t, c), W)
    <3>1. Update(t, c).new = {} /\ Update(t, c).filled = {<<t, c>>}
      BY StatementFields DEF Does
    <3>2. QED
      BY <1>1, <1>2, <2>1, <3>1
  <2>7. Supported(SetNotNull(t, c), W)
    BY <1>1, <2>2, StatementFields DEF Does
  <2>8. QED
    BY <2>3, <2>4, <2>5, <2>6, <2>7
<1>7. QED
  BY <1>3, <1>4, <1>5, <1>6

\* Indexes of a table.
LEMMA StandsIndexes ==
    ASSUME NEW W, NEW t
    PROVE  /\ \A C : (\A cols \in C : HasColumns(W, t, cols)) => Stands({Index(t, cols) : cols \in C}, W)
           /\ \A names : HasColumns(W, t, names) => Stands({Index(t, {c}) : c \in names}, W)
<1>1. \A cols : HasColumns(W, t, cols) => Stands({Index(t, cols)}, W)
  BY StandsKey
<1>2. \A C : (\A cols \in C : HasColumns(W, t, cols)) => Stands({Index(t, cols) : cols \in C}, W)
  BY <1>1 DEF Stands
<1>3. \A names : HasColumns(W, t, names) => \A c \in names : HasColumns(W, t, {c})
  BY DEF HasColumns
<1>4. \A names : HasColumns(W, t, names) => Stands({Index(t, {c}) : c \in names}, W)
  BY <1>1, <1>3 DEF Stands
<1>5. QED
  BY <1>2, <1>4

\* A statement that adds a column to a table.
LEMMA SupportsOwn ==
    ASSUME NEW W, NEW t, Table(t) \in W, NEW c
    PROVE  /\ AddColumn(t, c).new \subseteq W => Supported(AddColumn(t, c), W)
           /\ AddWithDefault(t, c).new \subseteq W => Supported(AddWithDefault(t, c), W)
           /\ AddBare(t, c).new \subseteq W => Supported(AddBare(t, c), W)
<1>1. /\ AddColumn(t, c).new = Optional(t, {c}) /\ AddWithDefault(t, c).new = Needed(t, {c})
      /\ AddBare(t, c).new = Needed(t, {c})
  BY StatementFields DEF Does
<1>2. Optional(t, {c}) \subseteq W \/ Needed(t, {c}) \subseteq W => HasColumns(W, t, {c})
  BY HasThese
<1>3. QED
  BY <1>1, <1>2, Supports

\* A column that a statement has added is there.
LEMMA HasAdded ==
    ASSUME NEW W, NEW t, Table(t) \in W, NEW c,
           \/ AddColumn(t, c).new \subseteq W
           \/ AddWithDefault(t, c).new \subseteq W
           \/ AddBare(t, c).new \subseteq W
    PROVE  HasColumns(W, t, {c})
<1>1. /\ AddColumn(t, c).new = Optional(t, {c}) /\ AddWithDefault(t, c).new = Needed(t, {c})
      /\ AddBare(t, c).new = Needed(t, {c})
  BY StatementFields DEF Does
<1>2. QED
  BY <1>1, HasThese

\* What the ground of a statement consists of.
LEMMA GroundHas ==
    ASSUME NEW r \in 1..14, NEW k \in 1..Len(Upgrades[r])
    PROVE  /\ Built(r - 1) \subseteq Ground(r, k)
           /\ Upgrades[r][k].new \subseteq Ground(r, k)
           /\ \A j \in 1..(k - 1) : /\ Upgrades[r][j].new \subseteq Ground(r, k)
                                    /\ Upgrades[r][j].ensured \subseteq Ground(r, k)
BY DEF Ground, Created

\* The same for a revision whose statements are known.
LEMMA GroundOf ==
    ASSUME NEW r \in 1..14, NEW S, NEW n \in Nat, Revision(r, S, n), NEW k \in 1..n
    PROVE  /\ S[k].new \subseteq Ground(r, k)
           /\ \A p : p = r - 1 => Built(p) \subseteq Ground(r, k)
           /\ \A j \in 1..n : j < k => S[j].new \subseteq Ground(r, k) /\ S[j].ensured \subseteq Ground(r, k)
<1>1. Upgrades[r] = S /\ Len(Upgrades[r]) = n
  BY DEF Revision
<1>2. \A j \in 1..n : j < k => j \in 1..(k - 1)
  OBVIOUS
<1>3. QED
  BY <1>1, <1>2, GroundHas

\* What a statement of a revision created is there in the later ones.
LEMMA BuiltHas ==
    ASSUME NEW r \in 0..14, NEW q \in 1..r, NEW j \in 1..Len(Upgrades[q])
    PROVE  /\ \A o \in Upgrades[q][j].new \cup Upgrades[q][j].ensured : o # NumberIndex => o \in Built(r)
           /\ \A t, names : HasColumns(Upgrades[q][j].new, t, names) => HasColumns(Built(r), t, names)
<1>1. ASSUME NEW o \in Upgrades[q][j].new \cup Upgrades[q][j].ensured, o # NumberIndex
      PROVE  o \in Built(r)
  <2>1. o \in New(q)
    BY <1>1 DEF New, Created
  <2>2. QED
    BY <1>1, <2>1 DEF Built
<1>2. \A t, c : Table(t) # NumberIndex /\ Column(t, c) # NumberIndex
  <2>1. \A t, c : Table(t).kind = "table" /\ Column(t, c).kind = "column"
    BY Fields DEF Table, Column
  <2>2. QED
    BY <2>1, NumberIndexBorn
<1>3. ASSUME NEW t, NEW names, HasColumns(Upgrades[q][j].new, t, names)
      PROVE  HasColumns(Built(r), t, names)
  BY <1>1, <1>2, <1>3 DEF HasColumns
<1>4. QED
  BY <1>1, <1>3

\* The columns of the tables, where they are created.

\* The columns that the table starts with (InvoiceColumns).
LEMMA InvoiceColumns ==
    HasColumns(CreateInvoices[1].new, "invoices", {"id", "created_at", "updated_at",
                                                   "invoice_number", "vendor_name",
                                                   "invoice_date", "total_amount", "currency",
                                                   "status"})
<1> DEFINE t == "invoices"
           W == CreateInvoices[1].new
<1>1. /\ Table(t) \in W
      /\ Needed(t, {"id", "created_at", "updated_at"}) \subseteq W
      /\ Needed(t, {"invoice_number", "vendor_name", "invoice_date", "total_amount",
                    "currency", "status"}) \subseteq W
  BY StatementFields DEF Does, CreateInvoices, CreateTable, Standard
<1> HIDE DEF t, W
<1>2. /\ HasColumns(W, t, {"id", "created_at", "updated_at"})
      /\ HasColumns(W, t, {"invoice_number", "vendor_name", "invoice_date", "total_amount",
                           "currency", "status"})
  BY <1>1, HasThese
<1>3. HasColumns(W, t, {"id", "created_at", "updated_at"}
                     \cup {"invoice_number", "vendor_name", "invoice_date", "total_amount", "currency", "status"})
  BY <1>2, HasBoth
<1>4. HasColumns(W, t, {"id", "created_at", "updated_at", "invoice_number", "vendor_name",
                        "invoice_date", "total_amount", "currency", "status"})
  BY <1>3, HasMore
<1>5. QED
  BY <1>4 DEF t, W

\* The columns that the table starts with (AuditColumns).
LEMMA AuditColumns ==
    HasColumns(CreateAudit[1].new, "llm_audit_entries", {"id", "created_at", "updated_at",
                                                         "provider_name", "operation", "model",
                                                         "prompt_text", "prompt_chars",
                                                         "response_chars", "duration_ms",
                                                         "success", "error_message"})
<1> DEFINE t == "llm_audit_entries"
           W == CreateAudit[1].new
<1>1. /\ Table(t) \in W
      /\ Needed(t, {"id", "created_at", "updated_at"}) \subseteq W
      /\ Needed(t, {"provider_name", "operation", "model", "prompt_text", "prompt_chars",
                    "response_chars", "duration_ms", "success"}) \subseteq W
      /\ Optional(t, {"error_message"}) \subseteq W
  BY StatementFields DEF Does, CreateAudit, CreateTable, Standard
<1> HIDE DEF t, W
<1>2. /\ HasColumns(W, t, {"id", "created_at", "updated_at"})
      /\ HasColumns(W, t, {"provider_name", "operation", "model", "prompt_text", "prompt_chars",
                           "response_chars", "duration_ms", "success"})
      /\ HasColumns(W, t, {"error_message"})
  BY <1>1, HasThese
<1>3. HasColumns(W, t, {"id", "created_at", "updated_at"}
                     \cup {"provider_name", "operation", "model", "prompt_text", "prompt_chars", "response_chars",
 "duration_ms", "success"})
  BY <1>2, HasBoth
<1>4. HasColumns(W, t, {"id", "created_at", "updated_at", "provider_name", "operation",
                        "model", "prompt_text", "prompt_chars", "response_chars",
                        "duration_ms", "success"})
  BY <1>3, HasMore
<1>5. HasColumns(W, t, {"id", "created_at", "updated_at", "provider_name", "operation", "model", "prompt_text",
 "prompt_chars", "response_chars", "duration_ms", "success"}
                     \cup {"error_message"})
  BY <1>2, <1>4, HasBoth
<1>6. HasColumns(W, t, {"id", "created_at", "updated_at", "provider_name", "operation",
                        "model", "prompt_text", "prompt_chars", "response_chars",
                        "duration_ms", "success", "error_message"})
  BY <1>5, HasMore
<1>7. QED
  BY <1>6 DEF t, W

\* The columns that the table starts with (EmbeddingColumns).
LEMMA EmbeddingColumns ==
    HasColumns(CreateEmbeddings[1].new, "invoice_embeddings", {"id", "created_at",
                                                               "updated_at", "tenant_id",
                                                               "invoice_id", "embedding",
                                                               "model", "source_text"})
<1> DEFINE t == "invoice_embeddings"
           W == CreateEmbeddings[1].new
<1>1. /\ Table(t) \in W
      /\ Needed(t, {"id", "created_at", "updated_at"}) \subseteq W
      /\ Needed(t, {"tenant_id", "invoice_id", "embedding", "model", "source_text"}) \subseteq W
  BY StatementFields DEF Does, CreateEmbeddings, CreateTable, Standard
<1> HIDE DEF t, W
<1>2. /\ HasColumns(W, t, {"id", "created_at", "updated_at"})
      /\ HasColumns(W, t, {"tenant_id", "invoice_id", "embedding", "model", "source_text"})
  BY <1>1, HasThese
<1>3. HasColumns(W, t, {"id", "created_at", "updated_at"}
                     \cup {"tenant_id", "invoice_id", "embedding", "model", "source_text"})
  BY <1>2, HasBoth
<1>4. HasColumns(W, t, {"id", "created_at", "updated_at", "tenant_id", "invoice_id",
                        "embedding", "model", "source_text"})
  BY <1>3, HasMore
<1>5. QED
  BY <1>4 DEF t, W

\* The columns that the table starts with (TenantColumns).
LEMMA TenantColumns ==
    HasColumns(CreateUsers[1].new, "tenants", {"id", "created_at", "updated_at", "slug",
                                               "display_name"})
<1> DEFINE t == "tenants"
           W == CreateUsers[1].new
<1>1. /\ Table(t) \in W
      /\ Needed(t, {"id", "created_at", "updated_at"}) \subseteq W
      /\ Needed(t, {"slug", "display_name"}) \subseteq W
  BY StatementFields DEF Does, CreateUsers, CreateTable, Standard
<1> HIDE DEF t, W
<1>2. /\ HasColumns(W, t, {"id", "created_at", "updated_at"})
      /\ HasColumns(W, t, {"slug", "display_name"})
  BY <1>1, HasThese
<1>3. HasColumns(W, t, {"id", "created_at", "updated_at"}
                     \cup {"slug", "display_name"})
  BY <1>2, HasBoth
<1>4. HasColumns(W, t, {"id", "created_at", "updated_at", "slug", "display_name"})
  BY <1>3, HasMore
<1>5. QED
  BY <1>4 DEF t, W

\* The columns that the table starts with (UserColumns).
LEMMA UserColumns ==
    HasColumns(CreateUsers[2].new, "users", {"id", "created_at", "updated_at", "tenant_id",
                                             "email", "password_hash", "full_name"})
<1> DEFINE t == "users"
           W == CreateUsers[2].new
<1>1. /\ Table(t) \in W
      /\ Needed(t, {"id", "created_at", "updated_at"}) \subseteq W
      /\ Needed(t, {"tenant_id", "email", "password_hash"}) \subseteq W
      /\ Optional(t, {"full_name"}) \subseteq W
  BY StatementFields DEF Does, CreateUsers, CreateTable, Standard
<1> HIDE DEF t, W
<1>2. /\ HasColumns(W, t, {"id", "created_at", "updated_at"})
      /\ HasColumns(W, t, {"tenant_id", "email", "password_hash"})
      /\ HasColumns(W, t, {"full_name"})
  BY <1>1, HasThese
<1>3. HasColumns(W, t, {"id", "created_at", "updated_at"}
                     \cup {"tenant_id", "email", "password_hash"})
  BY <1>2, HasBoth
<1>4. HasColumns(W, t, {"id", "created_at", "updated_at", "tenant_id", "email", "password_hash"})
  BY <1>3, HasMore
<1>5. HasColumns(W, t, {"id", "created_at", "updated_at", "tenant_id", "email", "password_hash"}
                     \cup {"full_name"})
  BY <1>2, <1>4, HasBoth
<1>6. HasColumns(W, t, {"id", "created_at", "updated_at", "tenant_id", "email",
                        "password_hash", "full_name"})
  BY <1>5, HasMore
<1>7. QED
  BY <1>6 DEF t, W

\* The columns that the table starts with (FileColumns).
LEMMA FileColumns ==
    HasColumns(CreateFiles[1].new, "invoice_files", {"id", "created_at", "updated_at",
                                                     "tenant_id", "filename", "mime_type",
                                                     "size_bytes", "sha256", "storage_path",
                                                     "uploaded_by_user_id", "invoice_id"})
<1> DEFINE t == "invoice_files"
           W == CreateFiles[1].new
<1>1. /\ Table(t) \in W
      /\ Needed(t, {"id", "created_at", "updated_at"}) \subseteq W
      /\ Needed(t, {"tenant_id", "filename", "mime_type", "size_bytes", "sha256",
                    "storage_path"}) \subseteq W
      /\ Optional(t, {"uploaded_by_user_id", "invoice_id"}) \subseteq W
  BY StatementFields DEF Does, CreateFiles, CreateTable, Standard
<1> HIDE DEF t, W
<1>2. /\ HasColumns(W, t, {"id", "created_at", "updated_at"})
      /\ HasColumns(W, t, {"tenant_id", "filename", "mime_type", "size_bytes", "sha256",
                           "storage_path"})
      /\ HasColumns(W, t, {"uploaded_by_user_id", "invoice_id"})
  BY <1>1, HasThese
<1>3. HasColumns(W, t, {"id", "created_at", "updated_at"}
                     \cup {"tenant_id", "filename", "mime_type", "size_bytes", "sha256", "storage_path"})
  BY <1>2, HasBoth
<1>4. HasColumns(W, t, {"id", "created_at", "updated_at", "tenant_id", "filename", "mime_type",
                        "size_bytes", "sha256", "storage_path"})
  BY <1>3, HasMore
<1>5. HasColumns(W, t, {"id", "created_at", "updated_at", "tenant_id", "filename", "mime_type", "size_bytes",
 "sha256", "storage_path"}
                     \cup {"uploaded_by_user_id", "invoice_id"})
  BY <1>2, <1>4, HasBoth
<1>6. HasColumns(W, t, {"id", "created_at", "updated_at", "tenant_id", "filename", "mime_type",
                        "size_bytes", "sha256", "storage_path", "uploaded_by_user_id",
                        "invoice_id"})
  BY <1>5, HasMore
<1>7. QED
  BY <1>6 DEF t, W

\* The columns that the table starts with (EditColumns).
LEMMA EditColumns ==
    HasColumns(AddEdits[9].new, "invoice_edits", {"id", "tenant_id", "invoice_id", "field",
                                                  "created_at", "user_id", "old_value",
                                                  "new_value"})
<1> DEFINE t == "invoice_edits"
           W == AddEdits[9].new
<1>1. /\ Table(t) \in W
      /\ Needed(t, {"id", "tenant_id", "invoice_id", "field", "created_at"}) \subseteq W
      /\ Optional(t, {"user_id", "old_value", "new_value"}) \subseteq W
  BY StatementFields DEF Does, AddEdits, CreateTable
<1> HIDE DEF t, W
<1>2. /\ HasColumns(W, t, {"id", "tenant_id", "invoice_id", "field", "created_at"})
      /\ HasColumns(W, t, {"user_id", "old_value", "new_value"})
  BY <1>1, HasThese
<1>3. HasColumns(W, t, {"id", "tenant_id", "invoice_id", "field", "created_at"}
                     \cup {"user_id", "old_value", "new_value"})
  BY <1>2, HasBoth
<1>4. HasColumns(W, t, {"id", "tenant_id", "invoice_id", "field", "created_at", "user_id",
                        "old_value", "new_value"})
  BY <1>3, HasMore
<1>5. QED
  BY <1>4 DEF t, W

\* The columns that the table starts with (MappingColumns).
LEMMA MappingColumns ==
    HasColumns(CreateMappings[2].new, "vendor_account_mappings", {"id", "created_at",
                                                                  "updated_at", "tenant_id",
                                                                  "vendor_name_normalized",
                                                                  "vendor_name_raw",
                                                                  "creditor_account_number",
                                                                  "usage_count",
                                                                  "last_used_at"})
<1> DEFINE t == "vendor_account_mappings"
           W == CreateMappings[2].new
<1>1. /\ Table(t) \in W
      /\ Needed(t, {"id", "created_at", "updated_at"}) \subseteq W
      /\ Needed(t, {"tenant_id", "vendor_name_normalized", "vendor_name_raw",
                    "creditor_account_number", "usage_count", "last_used_at"}) \subseteq W
  BY StatementFields DEF Does, CreateMappings, CreateTable, Standard
<1> HIDE DEF t, W
<1>2. /\ HasColumns(W, t, {"id", "created_at", "updated_at"})
      /\ HasColumns(W, t, {"tenant_id", "vendor_name_normalized", "vendor_name_raw",
                           "creditor_account_number", "usage_count", "last_used_at"})
  BY <1>1, HasThese
<1>3. HasColumns(W, t, {"id", "created_at", "updated_at"}
                     \cup {"tenant_id", "vendor_name_normalized", "vendor_name_raw", "creditor_account_number",
 "usage_count", "last_used_at"})
  BY <1>2, HasBoth
<1>4. HasColumns(W, t, {"id", "created_at", "updated_at", "tenant_id",
                        "vendor_name_normalized", "vendor_name_raw", "creditor_account_number",
                        "usage_count", "last_used_at"})
  BY <1>3, HasMore
<1>5. QED
  BY <1>4 DEF t, W

\* A type is among its objects.
LEMMA EnumHas == \A n, labels : Type(n) \in Enum(n, labels)
BY DEF Enum

\* The tables that later revisions refer to.
LEMMA InvoicesBuilt ==
    ASSUME NEW r \in 1..14
    PROVE  /\ Table("invoices") \in Built(r)
           /\ HasColumns(Built(r), "invoices", {"invoice_number"})
<1>1. 1 \in 1..r /\ 1 \in 1..Len(Upgrades[1]) /\ r \in 0..14
  BY Revisions DEF Revision
<1>2. Upgrades[1][1] = CreateInvoices[1]
  BY Revisions DEF Revision
<1>3. HasColumns(Upgrades[1][1].new, "invoices", {"invoice_number"})
  BY <1>2, InvoiceColumns, HasMore
<1>4. HasColumns(Built(r), "invoices", {"invoice_number"})
  BY <1>1, <1>3, BuiltHas
<1>5. QED
  BY <1>4 DEF HasColumns

\* The same for the audit entries, the users and the files.
LEMMA AuditBuilt ==
    ASSUME NEW r \in 3..14
    PROVE  /\ Table("llm_audit_entries") \in Built(r)
           /\ HasColumns(Built(r), "llm_audit_entries", {"id"})
<1>1. 3 \in 1..r /\ 1 \in 1..Len(Upgrades[3]) /\ r \in 0..14
  BY Revisions DEF Revision
<1>2. Upgrades[3][1] = CreateAudit[1]
  BY Revisions DEF Revision
<1>3. HasColumns(Upgrades[3][1].new, "llm_audit_entries", {"id"})
  BY <1>2, AuditColumns, HasMore
<1>4. HasColumns(Built(r), "llm_audit_entries", {"id"})
  BY <1>1, <1>3, BuiltHas
<1>5. QED
  BY <1>4 DEF HasColumns

\* What later revisions find of this table (Users).
LEMMA UsersBuilt ==
    ASSUME NEW r \in 7..14
    PROVE  /\ Table("users") \in Built(r)
           /\ HasColumns(Built(r), "users", {"id"})
<1>1. 7 \in 1..r /\ 2 \in 1..Len(Upgrades[7]) /\ r \in 0..14
  BY Revisions DEF Revision
<1>2. Upgrades[7][2] = CreateUsers[2]
  BY Revisions DEF Revision
<1>3. HasColumns(Upgrades[7][2].new, "users", {"id"})
  BY <1>2, UserColumns, HasMore
<1>4. HasColumns(Built(r), "users", {"id"})
  BY <1>1, <1>3, BuiltHas
<1>5. QED
  BY <1>4 DEF HasColumns

\* What later revisions find of this table (Files).
LEMMA FilesBuilt ==
    ASSUME NEW r \in 8..14
    PROVE  /\ Table("invoice_files") \in Built(r)
           /\ HasColumns(Built(r), "invoice_files", {"tenant_id"})
<1>1. 8 \in 1..r /\ 1 \in 1..Len(Upgrades[8]) /\ r \in 0..14
  BY Revisions DEF Revision
<1>2. Upgrades[8][1] = CreateFiles[1]
  BY Revisions DEF Revision
<1>3. HasColumns(Upgrades[8][1].new, "invoice_files", {"tenant_id"})
  BY <1>2, FileColumns, HasMore
<1>4. HasColumns(Built(r), "invoice_files", {"tenant_id"})
  BY <1>1, <1>3, BuiltHas
<1>5. QED
  BY <1>4 DEF HasColumns

\* The extension of the vectors is there from the second revision on.
LEMMA VectorBuilt ==
    ASSUME NEW r \in 2..14
    PROVE  Extension("vector") \in Built(r)
<1>1. 2 \in 1..r /\ 1 \in 1..Len(Upgrades[2]) /\ r \in 0..14
  BY Revisions DEF Revision
<1>2. Upgrades[2][1] = EnableVector[1]
  BY Revisions DEF Revision
<1>3. Extension("vector") \in EnableVector[1].ensured
  BY StatementFields DEF Does, EnableVector
<1>4. Extension("vector") # NumberIndex
  <2>1. Extension("vector").kind = "extension"
    BY Fields DEF Extension
  <2>2. QED
    BY <2>1, NumberIndexBorn
<1>5. QED
  BY <1>1, <1>2, <1>3, <1>4, BuiltHas

\* What the statements of each revision refer to.
LEMMA CreateInvoicesGrounds == \A k \in 1..4 : Grounds(1, k)
<1>0. 1 \in 1..14 /\ 4 \in Nat /\ Revision(1, CreateInvoices, 4) /\ Upgrades[1] = CreateInvoices
  BY Revisions DEF Revision
<1>1. Grounds(1, 1)
  <2> DEFINE W == Ground(1, 1)
             t == "invoices"
  <2>a. CreateInvoices[1].new \subseteq W
    BY <1>0, 1 \in 1..4, GroundOf
  <2> HIDE DEF W
  <2>1. CreateInvoices[1].new \subseteq W
    BY <2>a
  <2>0. Type("invoice_status") \in W
    BY <2>1, EnumHas, StatementFields DEF Does, CreateInvoices, CreateTable
  <2>2. HasColumns(W, t, {"id", "created_at", "updated_at", "invoice_number", "vendor_name",
                          "invoice_date", "total_amount", "currency", "status"})
    BY <2>1, InvoiceColumns, HasMore
  <2> HIDE DEF t
  <2>3. /\ HasColumns(W, t, {"id", "created_at", "updated_at"})
        /\ HasColumns(W, t, {"invoice_number", "vendor_name", "invoice_date", "total_amount",
                             "currency", "status"})
        /\ HasColumns(W, t, {"status"})
    BY <2>2, HasMore
  <2>4. /\ Stands({Table(t)}, W)
        /\ Stands(Needed(t, {"id", "created_at", "updated_at"}), W)
        /\ Stands(Needed(t, {"invoice_number", "vendor_name", "invoice_date", "total_amount",
                             "currency", "status"}), W)
        /\ Stands(Enum("invoice_status", {"RECEIVED", "PROCESSING", "BOOKED", "ERROR"}), W)
    BY <2>3, StandsBoth, StandsColumns, StandsEnum
  <2>5. Stands({Typed(t, "status", "invoice_status")}, W)
    BY <2>0, <2>3, StandsTyped
  <2>6. Supported(CreateInvoices[1], W)
    BY <2>4, <2>5, StandsBoth, Supports DEF t, CreateInvoices, CreateTable, Standard
  <2>7. QED
    BY <1>0, <2>6 DEF Grounds, W
<1>2. Grounds(1, 2)
  <2> DEFINE W == Ground(1, 2)
             t == "invoices"
  <2>a. CreateInvoices[2].new \subseteq W
    BY <1>0, 2 \in 1..4, GroundOf
  <2>b1. CreateInvoices[1].new \subseteq W
    BY <1>0, 2 \in 1..4, 1 \in 1..4, GroundOf
  <2> HIDE DEF W
  <2>1. /\ CreateInvoices[2].new \subseteq W
        /\ CreateInvoices[1].new \subseteq W
    BY <2>a, <2>b1
  <2>2. HasColumns(W, t, {"invoice_number"})
    BY <2>1, InvoiceColumns, HasMore
  <2>3. Supported(CreateInvoices[2], W)
    BY <2>2, StandsKey, Supports DEF CreateInvoices
  <2>4. QED
    BY <1>0, <2>3 DEF Grounds, W
<1>3. Grounds(1, 3)
  <2> DEFINE W == Ground(1, 3)
             t == "invoices"
  <2>a. CreateInvoices[3].new \subseteq W
    BY <1>0, 3 \in 1..4, GroundOf
  <2>b1. CreateInvoices[1].new \subseteq W
    BY <1>0, 3 \in 1..4, 1 \in 1..4, GroundOf
  <2> HIDE DEF W
  <2>1. /\ CreateInvoices[3].new \subseteq W
        /\ CreateInvoices[1].new \subseteq W
    BY <2>a, <2>b1
  <2>2. HasColumns(W, t, {"status"})
    BY <2>1, InvoiceColumns, HasMore
  <2>3. Supported(CreateInvoices[3], W)
    BY <2>2, StandsKey, Supports DEF CreateInvoices
  <2>4. QED
    BY <1>0, <2>3 DEF Grounds, W
<1>4. Grounds(1, 4)
  <2> DEFINE W == Ground(1, 4)
             t == "invoices"
  <2>a. CreateInvoices[4].new \subseteq W
    BY <1>0, 4 \in 1..4, GroundOf
  <2>b1. CreateInvoices[1].new \subseteq W
    BY <1>0, 4 \in 1..4, 1 \in 1..4, GroundOf
  <2> HIDE DEF W
  <2>1. /\ CreateInvoices[4].new \subseteq W
        /\ CreateInvoices[1].new \subseteq W
    BY <2>a, <2>b1
  <2>2. HasColumns(W, t, {"vendor_name"})
    BY <2>1, InvoiceColumns, HasMore
  <2>3. Supported(CreateInvoices[4], W)
    BY <2>2, StandsKey, Supports DEF CreateInvoices
  <2>4. QED
    BY <1>0, <2>3 DEF Grounds, W
<1>5. QED
  BY <1>1, <1>2, <1>3, <1>4

\* What EnableVector creates finds what it refers to.
LEMMA EnableVectorGrounds == \A k \in 1..1 : Grounds(2, k)
<1>0. 2 \in 1..14 /\ 1 \in Nat /\ Revision(2, EnableVector, 1) /\ Upgrades[2] = EnableVector
  BY Revisions DEF Revision
<1>1. Grounds(2, 1)
  <2> DEFINE W == Ground(2, 1)
  <2>a. EnableVector[1].new \subseteq W
    BY <1>0, 1 \in 1..1, GroundOf
  <2> HIDE DEF W
  <2>1. EnableVector[1].new \subseteq W
    BY <2>a
  <2>2. Supported(EnableVector[1], W)
    BY <2>1, Supports DEF EnableVector
  <2>3. QED
    BY <1>0, <2>2 DEF Grounds, W
<1>2. QED
  BY <1>1

\* What CreateAudit creates finds what it refers to.
LEMMA CreateAuditGrounds == \A k \in 1..2 : Grounds(3, k)
<1>0. 3 \in 1..14 /\ 2 \in Nat /\ Revision(3, CreateAudit, 2) /\ Upgrades[3] = CreateAudit
  BY Revisions DEF Revision
<1>1. Grounds(3, 1)
  <2> DEFINE W == Ground(3, 1)
             t == "llm_audit_entries"
  <2>a. CreateAudit[1].new \subseteq W
    BY <1>0, 1 \in 1..2, GroundOf
  <2> HIDE DEF W
  <2>1. CreateAudit[1].new \subseteq W
    BY <2>a
  <2>2. HasColumns(W, t, {"id", "created_at", "updated_at", "provider_name", "operation", "model",
                          "prompt_text", "prompt_chars", "response_chars", "duration_ms", "success",
                          "error_message"})
    BY <2>1, AuditColumns, HasMore
  <2> HIDE DEF t
  <2>3. /\ HasColumns(W, t, {"id", "created_at", "updated_at"})
        /\ HasColumns(W, t, {"provider_name", "operation", "model", "prompt_text", "prompt_chars",
                             "response_chars", "duration_ms", "success"})
        /\ HasColumns(W, t, {"error_message"})
    BY <2>2, HasMore
  <2>4. /\ Stands({Table(t)}, W)
        /\ Stands(Needed(t, {"id", "created_at", "updated_at"}), W)
        /\ Stands(Needed(t, {"provider_name", "operation", "model", "prompt_text", "prompt_chars",
                             "response_chars", "duration_ms", "success"}), W)
        /\ Stands(Optional(t, {"error_message"}), W)
    BY <2>3, StandsBoth, StandsColumns
  <2>5. Supported(CreateAudit[1], W)
    BY <2>4, StandsBoth, Supports DEF t, CreateAudit, CreateTable, Standard
  <2>6. QED
    BY <1>0, <2>5 DEF Grounds, W
<1>2. Grounds(3, 2)
  <2> DEFINE W == Ground(3, 2)
             t == "llm_audit_entries"
  <2>a. CreateAudit[2].new \subseteq W
    BY <1>0, 2 \in 1..2, GroundOf
  <2>b1. CreateAudit[1].new \subseteq W
    BY <1>0, 2 \in 1..2, 1 \in 1..2, GroundOf
  <2> HIDE DEF W
  <2>1. /\ CreateAudit[2].new \subseteq W
        /\ CreateAudit[1].new \subseteq W
    BY <2>a, <2>b1
  <2>2. HasColumns(W, t, {"model", "operation", "provider_name", "success"})
    BY <2>1, AuditColumns, HasMore
  <2>3. Supported(CreateAudit[2], W)
    BY <2>2, StandsIndexes, Supports DEF CreateAudit
  <2>4. QED
    BY <1>0, <2>3 DEF Grounds, W
<1>3. QED
  BY <1>1, <1>2

\* What CreateEmbeddings creates finds what it refers to.
LEMMA CreateEmbeddingsGrounds == \A k \in 1..3 : Grounds(4, k)
<1>0. 4 \in 1..14 /\ 3 \in Nat /\ Revision(4, CreateEmbeddings, 3) /\ Upgrades[4] = CreateEmbeddings
  BY Revisions DEF Revision
<1>a1. Table("invoices") \in Built(3)
  BY InvoicesBuilt
<1>a2. Extension("vector") \in Built(3)
  BY VectorBuilt
<1>1. Grounds(4, 1)
  <2> DEFINE W == Ground(4, 1)
             t == "invoice_embeddings"
  <2>a. CreateEmbeddings[1].new \subseteq W /\ Built(3) \subseteq W
    BY <1>0, 1 \in 1..3, GroundOf
  <2> HIDE DEF W
  <2>1. /\ CreateEmbeddings[1].new \subseteq W
        /\ Table("invoices") \in W
        /\ Extension("vector") \in W
    BY <1>a1, <1>a2, <2>a
  <2>2. HasColumns(W, t, {"id", "created_at", "updated_at", "tenant_id", "invoice_id", "embedding",
                          "model", "source_text"})
    BY <2>1, EmbeddingColumns, HasMore
  <2> HIDE DEF t
  <2>3. /\ HasColumns(W, t, {"id", "created_at", "updated_at"})
        /\ HasColumns(W, t, {"tenant_id", "invoice_id", "embedding", "model", "source_text"})
        /\ HasColumns(W, t, {"embedding"})
        /\ HasColumns(W, t, {"invoice_id"})
    BY <2>2, HasMore
  <2>4. /\ Stands({Table(t)}, W)
        /\ Stands(Needed(t, {"id", "created_at", "updated_at"}), W)
        /\ Stands(Needed(t, {"tenant_id", "invoice_id", "embedding", "model", "source_text"}), W)
    BY <2>3, StandsBoth, StandsColumns
  <2>5. Stands({Typed(t, "embedding", "vector")}, W)
    BY <2>1, <2>3, StandsTyped
  <2>6. Stands({Reference(t, "invoice_id", "invoices", "CASCADE")}, W)
    BY <2>1, <2>3, StandsReference
  <2>7. Stands({Typed(t, "embedding", "vector"),
                Reference(t, "invoice_id", "invoices", "CASCADE")}, W)
    BY <2>5, <2>6 DEF Stands
  <2>8. Supported(CreateEmbeddings[1], W)
    BY <2>4, <2>7, StandsBoth, Supports DEF t, CreateEmbeddings, CreateTable, Standard
  <2>9. QED
    BY <1>0, <2>8 DEF Grounds, W
<1>2. Grounds(4, 2)
  <2> DEFINE W == Ground(4, 2)
             t == "invoice_embeddings"
  <2>a. CreateEmbeddings[2].new \subseteq W
    BY <1>0, 2 \in 1..3, GroundOf
  <2>b1. CreateEmbeddings[1].new \subseteq W
    BY <1>0, 2 \in 1..3, 1 \in 1..3, GroundOf
  <2> HIDE DEF W
  <2>1. /\ CreateEmbeddings[2].new \subseteq W
        /\ CreateEmbeddings[1].new \subseteq W
    BY <2>a, <2>b1
  <2>2. \A cols \in {{"invoice_id"}, {"tenant_id"}, {"tenant_id", "invoice_id"}} :
           HasColumns(W, t, cols)
    BY <2>1, EmbeddingColumns, HasMore
  <2>3. Supported(CreateEmbeddings[2], W)
    BY <2>2, StandsIndexes, Supports DEF CreateEmbeddings
  <2>4. QED
    BY <1>0, <2>3 DEF Grounds, W
<1>3. Grounds(4, 3)
  <2> DEFINE W == Ground(4, 3)
             t == "invoice_embeddings"
  <2>a. CreateEmbeddings[3].new \subseteq W
    BY <1>0, 3 \in 1..3, GroundOf
  <2>b1. CreateEmbeddings[1].new \subseteq W
    BY <1>0, 3 \in 1..3, 1 \in 1..3, GroundOf
  <2> HIDE DEF W
  <2>1. /\ CreateEmbeddings[3].new \subseteq W
        /\ CreateEmbeddings[1].new \subseteq W
    BY <2>a, <2>b1
  <2>2. HasColumns(W, t, {"embedding"})
    BY <2>1, EmbeddingColumns, HasMore
  <2>3. Supported(CreateEmbeddings[3], W)
    BY <2>2, StandsKey, Supports DEF CreateEmbeddings, CosineIndex
  <2>4. QED
    BY <1>0, <2>3 DEF Grounds, W
<1>4. QED
  BY <1>1, <1>2, <1>3

\* What AddTenantToInvoices creates finds what it refers to.
LEMMA AddTenantToInvoicesGrounds == \A k \in 1..3 : Grounds(5, k)
<1>0. /\ 5 \in 1..14 /\ 3 \in Nat /\ Revision(5, AddTenantToInvoices, 3)
      /\ Upgrades[5] = AddTenantToInvoices
  BY Revisions DEF Revision
<1>a1. HasColumns(Built(4), "invoices", {"invoice_number"})
  BY InvoicesBuilt
<1>a2. Table("invoices") \in Built(4)
  BY InvoicesBuilt
<1>1. Grounds(5, 1)
  <2> DEFINE W == Ground(5, 1)
  <2>a. AddTenantToInvoices[1].new \subseteq W /\ Built(4) \subseteq W
    BY <1>0, 1 \in 1..3, GroundOf
  <2> HIDE DEF W
  <2>1. /\ AddTenantToInvoices[1].new \subseteq W
        /\ Table("invoices") \in W
    BY <1>a1, <1>a2, <2>a
  <2>2. Supported(AddTenantToInvoices[1], W)
    BY <2>1, SupportsOwn DEF AddTenantToInvoices
  <2>3. QED
    BY <1>0, <2>2 DEF Grounds, W
<1>2. Grounds(5, 2)
  <2> DEFINE W == Ground(5, 2)
  <2>a. AddTenantToInvoices[2].new \subseteq W
    BY <1>0, 2 \in 1..3, GroundOf
  <2> HIDE DEF W
  <2>1. AddTenantToInvoices[2].new \subseteq W
    BY <2>a
  <2>2. Supported(AddTenantToInvoices[2], W)
    BY <2>1, Supports DEF AddTenantToInvoices
  <2>3. QED
    BY <1>0, <2>2 DEF Grounds, W
<1>3. Grounds(5, 3)
  <2> DEFINE W == Ground(5, 3)
  <2>a. AddTenantToInvoices[3].new \subseteq W /\ Built(4) \subseteq W
    BY <1>0, 3 \in 1..3, GroundOf
  <2>b1. AddTenantToInvoices[1].new \subseteq W
    BY <1>0, 3 \in 1..3, 1 \in 1..3, GroundOf
  <2> HIDE DEF W
  <2>c1. HasColumns(W, "invoices", {"invoice_number"})
    BY <1>a1, <2>a, HasMore
  <2>1. /\ AddTenantToInvoices[3].new \subseteq W
        /\ AddTenantToInvoices[1].new \subseteq W
        /\ Table("invoices") \in W
        /\ HasColumns(W, "invoices", {"invoice_number"})
    BY <1>a1, <1>a2, <2>a, <2>b1, <2>c1
  <2>2. HasColumns(W, "invoices", {"tenant_id"})
    BY <2>1, HasAdded DEF AddTenantToInvoices
  <2>3. HasColumns(W, "invoices", {"tenant_id", "invoice_number"})
    BY <2>1, <2>2 DEF HasColumns
  <2>4. Supported(AddTenantToInvoices[3], W)
    BY <2>3, StandsKey, Supports DEF AddTenantToInvoices
  <2>5. QED
    BY <1>0, <2>4 DEF Grounds, W
<1>4. QED
  BY <1>1, <1>2, <1>3

\* What AddTenantToAudit creates finds what it refers to.
LEMMA AddTenantToAuditGrounds == \A k \in 1..4 : Grounds(6, k)
<1>0. 6 \in 1..14 /\ 4 \in Nat /\ Revision(6, AddTenantToAudit, 4) /\ Upgrades[6] = AddTenantToAudit
  BY Revisions DEF Revision
<1>a1. Table("llm_audit_entries") \in Built(5)
  BY AuditBuilt
<1>1. Grounds(6, 1)
  <2> DEFINE W == Ground(6, 1)
  <2>a. AddTenantToAudit[1].new \subseteq W /\ Built(5) \subseteq W
    BY <1>0, 1 \in 1..4, GroundOf
  <2> HIDE DEF W
  <2>1. /\ AddTenantToAudit[1].new \subseteq W
        /\ Table("llm_audit_entries") \in W
    BY <1>a1, <2>a
  <2>2. Supported(AddTenantToAudit[1], W)
    BY <2>1, SupportsOwn DEF AddTenantToAudit
  <2>3. QED
    BY <1>0, <2>2 DEF Grounds, W
<1>2. Grounds(6, 2)
  <2> DEFINE W == Ground(6, 2)
  <2>a. AddTenantToAudit[2].new \subseteq W /\ Built(5) \subseteq W
    BY <1>0, 2 \in 1..4, GroundOf
  <2>b1. AddTenantToAudit[1].new \subseteq W
    BY <1>0, 2 \in 1..4, 1 \in 1..4, GroundOf
  <2> HIDE DEF W
  <2>1. /\ AddTenantToAudit[2].new \subseteq W
        /\ AddTenantToAudit[1].new \subseteq W
        /\ Table("llm_audit_entries") \in W
    BY <1>a1, <2>a, <2>b1
  <2>2. HasColumns(W, "llm_audit_entries", {"tenant_id"})
    BY <2>1, HasAdded DEF AddTenantToAudit
  <2>3. Supported(AddTenantToAudit[2], W)
    BY <2>2, Supports DEF AddTenantToAudit
  <2>4. QED
    BY <1>0, <2>3 DEF Grounds, W
<1>3. Grounds(6, 3)
  <2> DEFINE W == Ground(6, 3)
  <2>a. AddTenantToAudit[3].new \subseteq W /\ Built(5) \subseteq W
    BY <1>0, 3 \in 1..4, GroundOf
  <2>b1. AddTenantToAudit[1].new \subseteq W
    BY <1>0, 3 \in 1..4, 1 \in 1..4, GroundOf
  <2> HIDE DEF W
  <2>1. /\ AddTenantToAudit[3].new \subseteq W
        /\ AddTenantToAudit[1].new \subseteq W
        /\ Table("llm_audit_entries") \in W
    BY <1>a1, <2>a, <2>b1
  <2>2. HasColumns(W, "llm_audit_entries", {"tenant_id"})
    BY <2>1, HasAdded DEF AddTenantToAudit
  <2>3. Supported(AddTenantToAudit[3], W)
    BY <2>2, Supports DEF AddTenantToAudit
  <2>4. QED
    BY <1>0, <2>3 DEF Grounds, W
<1>4. Grounds(6, 4)
  <2> DEFINE W == Ground(6, 4)
  <2>a. AddTenantToAudit[4].new \subseteq W /\ Built(5) \subseteq W
    BY <1>0, 4 \in 1..4, GroundOf
  <2>b1. AddTenantToAudit[1].new \subseteq W
    BY <1>0, 4 \in 1..4, 1 \in 1..4, GroundOf
  <2> HIDE DEF W
  <2>1. /\ AddTenantToAudit[4].new \subseteq W
        /\ AddTenantToAudit[1].new \subseteq W
        /\ Table("llm_audit_entries") \in W
    BY <1>a1, <2>a, <2>b1
  <2>2. HasColumns(W, "llm_audit_entries", {"tenant_id"})
    BY <2>1, HasAdded DEF AddTenantToAudit
  <2>3. Supported(AddTenantToAudit[4], W)
    BY <2>2, StandsKey, Supports DEF AddTenantToAudit
  <2>4. QED
    BY <1>0, <2>3 DEF Grounds, W
<1>5. QED
  BY <1>1, <1>2, <1>3, <1>4

\* What CreateUsers creates finds what it refers to.
LEMMA CreateUsersGrounds == \A k \in 1..2 : Grounds(7, k)
<1>0. 7 \in 1..14 /\ 2 \in Nat /\ Revision(7, CreateUsers, 2) /\ Upgrades[7] = CreateUsers
  BY Revisions DEF Revision
<1>1. Grounds(7, 1)
  <2> DEFINE W == Ground(7, 1)
             t == "tenants"
  <2>a. CreateUsers[1].new \subseteq W
    BY <1>0, 1 \in 1..2, GroundOf
  <2> HIDE DEF W
  <2>1. CreateUsers[1].new \subseteq W
    BY <2>a
  <2>2. HasColumns(W, t, {"id", "created_at", "updated_at", "slug", "display_name"})
    BY <2>1, TenantColumns, HasMore
  <2> HIDE DEF t
  <2>3. /\ HasColumns(W, t, {"id", "created_at", "updated_at"})
        /\ HasColumns(W, t, {"slug", "display_name"})
        /\ HasColumns(W, t, {"slug"})
    BY <2>2, HasMore
  <2>4. /\ Stands({Table(t)}, W)
        /\ Stands(Needed(t, {"id", "created_at", "updated_at"}), W)
        /\ Stands(Needed(t, {"slug", "display_name"}), W)
    BY <2>3, StandsBoth, StandsColumns
  <2>5. Stands({Key(t, {"slug"})}, W)
    BY <2>3, StandsKey
  <2>6. Supported(CreateUsers[1], W)
    BY <2>4, <2>5, StandsBoth, Supports DEF t, CreateUsers, CreateTable, Standard
  <2>7. QED
    BY <1>0, <2>6 DEF Grounds, W
<1>2. Grounds(7, 2)
  <2> DEFINE W == Ground(7, 2)
             t == "users"
  <2>a. CreateUsers[2].new \subseteq W
    BY <1>0, 2 \in 1..2, GroundOf
  <2> HIDE DEF W
  <2>1. CreateUsers[2].new \subseteq W
    BY <2>a
  <2>2. HasColumns(W, t, {"id", "created_at", "updated_at", "tenant_id", "email", "password_hash",
                          "full_name"})
    BY <2>1, UserColumns, HasMore
  <2> HIDE DEF t
  <2>3. /\ HasColumns(W, t, {"id", "created_at", "updated_at"})
        /\ HasColumns(W, t, {"tenant_id", "email", "password_hash"})
        /\ HasColumns(W, t, {"full_name"})
        /\ HasColumns(W, t, {"tenant_id", "email"})
    BY <2>2, HasMore
  <2>4. /\ Stands({Table(t)}, W)
        /\ Stands(Needed(t, {"id", "created_at", "updated_at"}), W)
        /\ Stands(Needed(t, {"tenant_id", "email", "password_hash"}), W)
        /\ Stands(Optional(t, {"full_name"}), W)
    BY <2>3, StandsBoth, StandsColumns
  <2>5. Stands({Key(t, {"tenant_id", "email"})}, W)
    BY <2>3, StandsKey
  <2>6. Supported(CreateUsers[2], W)
    BY <2>4, <2>5, StandsBoth, Supports DEF t, CreateUsers, CreateTable, Standard
  <2>7. QED
    BY <1>0, <2>6 DEF Grounds, W
<1>3. QED
  BY <1>1, <1>2

\* What CreateFiles creates finds what it refers to.
LEMMA CreateFilesGrounds == \A k \in 1..3 : Grounds(8, k)
<1>0. 8 \in 1..14 /\ 3 \in Nat /\ Revision(8, CreateFiles, 3) /\ Upgrades[8] = CreateFiles
  BY Revisions DEF Revision
<1>a1. Table("users") \in Built(7)
  BY UsersBuilt
<1>a2. Table("invoices") \in Built(7)
  BY InvoicesBuilt
<1>1. Grounds(8, 1)
  <2> DEFINE W == Ground(8, 1)
             t == "invoice_files"
  <2>a. CreateFiles[1].new \subseteq W /\ Built(7) \subseteq W
    BY <1>0, 1 \in 1..3, GroundOf
  <2> HIDE DEF W
  <2>1. /\ CreateFiles[1].new \subseteq W
        /\ Table("users") \in W
        /\ Table("invoices") \in W
    BY <1>a1, <1>a2, <2>a
  <2>2. HasColumns(W, t, {"id", "created_at", "updated_at", "tenant_id", "filename", "mime_type",
                          "size_bytes", "sha256", "storage_path", "uploaded_by_user_id", "invoice_id"})
    BY <2>1, FileColumns, HasMore
  <2> HIDE DEF t
  <2>3. /\ HasColumns(W, t, {"id", "created_at", "updated_at"})
        /\ HasColumns(W, t, {"tenant_id", "filename", "mime_type", "size_bytes", "sha256",
                             "storage_path"})
        /\ HasColumns(W, t, {"uploaded_by_user_id", "invoice_id"})
        /\ HasColumns(W, t, {"uploaded_by_user_id"})
        /\ HasColumns(W, t, {"invoice_id"})
        /\ HasColumns(W, t, {"tenant_id", "sha256"})
    BY <2>2, HasMore
  <2>4. /\ Stands({Table(t)}, W)
        /\ Stands(Needed(t, {"id", "created_at", "updated_at"}), W)
        /\ Stands(Needed(t, {"tenant_id", "filename", "mime_type", "size_bytes", "sha256",
                             "storage_path"}), W)
        /\ Stands(Optional(t, {"uploaded_by_user_id", "invoice_id"}), W)
    BY <2>3, StandsBoth, StandsColumns
  <2>5. Stands({Reference(t, "uploaded_by_user_id", "users", "SET_NULL")}, W)
    BY <2>1, <2>3, StandsReference
  <2>6. Stands({Reference(t, "invoice_id", "invoices", "SET_NULL")}, W)
    BY <2>1, <2>3, StandsReference
  <2>7. Stands({Key(t, {"tenant_id", "sha256"})}, W)
    BY <2>3, StandsKey
  <2>8. Stands({Reference(t, "uploaded_by_user_id", "users", "SET_NULL"),
                Reference(t, "invoice_id", "invoices", "SET_NULL"),
                Key(t, {"tenant_id", "sha256"})}, W)
    BY <2>5, <2>6, <2>7 DEF Stands
  <2>9. Supported(CreateFiles[1], W)
    BY <2>4, <2>8, StandsBoth, Supports DEF t, CreateFiles, CreateTable, Standard
  <2>10. QED
    BY <1>0, <2>9 DEF Grounds, W
<1>2. Grounds(8, 2)
  <2> DEFINE W == Ground(8, 2)
             t == "invoice_files"
  <2>a. CreateFiles[2].new \subseteq W
    BY <1>0, 2 \in 1..3, GroundOf
  <2>b1. CreateFiles[1].new \subseteq W
    BY <1>0, 2 \in 1..3, 1 \in 1..3, GroundOf
  <2> HIDE DEF W
  <2>1. /\ CreateFiles[2].new \subseteq W
        /\ CreateFiles[1].new \subseteq W
    BY <2>a, <2>b1
  <2>2. HasColumns(W, t, {"sha256"})
    BY <2>1, FileColumns, HasMore
  <2>3. Supported(CreateFiles[2], W)
    BY <2>2, StandsKey, Supports DEF CreateFiles
  <2>4. QED
    BY <1>0, <2>3 DEF Grounds, W
<1>3. Grounds(8, 3)
  <2> DEFINE W == Ground(8, 3)
             t == "invoice_files"
  <2>a. CreateFiles[3].new \subseteq W
    BY <1>0, 3 \in 1..3, GroundOf
  <2>b1. CreateFiles[1].new \subseteq W
    BY <1>0, 3 \in 1..3, 1 \in 1..3, GroundOf
  <2> HIDE DEF W
  <2>1. /\ CreateFiles[3].new \subseteq W
        /\ CreateFiles[1].new \subseteq W
    BY <2>a, <2>b1
  <2>2. HasColumns(W, t, {"tenant_id", "created_at"})
    BY <2>1, FileColumns, HasMore
  <2>3. Supported(CreateFiles[3], W)
    BY <2>2, StandsKey, Supports DEF CreateFiles
  <2>4. QED
    BY <1>0, <2>3 DEF Grounds, W
<1>4. QED
  BY <1>1, <1>2, <1>3

\* What AddExtraction creates finds what it refers to.
LEMMA AddExtractionGrounds == \A k \in 1..10 : Grounds(9, k)
<1>0. 9 \in 1..14 /\ 10 \in Nat /\ Revision(9, AddExtraction, 10) /\ Upgrades[9] = AddExtraction
  BY Revisions DEF Revision
<1>a1. Table("invoice_files") \in Built(8)
  BY FilesBuilt
<1>a2. Table("invoices") \in Built(8)
  BY InvoicesBuilt
<1>a3. HasColumns(Built(8), "invoice_files", {"tenant_id"})
  BY FilesBuilt
<1>1. Grounds(9, 1)
  <2> DEFINE W == Ground(9, 1)
  <2>a. AddExtraction[1].new \subseteq W
    BY <1>0, 1 \in 1..10, GroundOf
  <2> HIDE DEF W
  <2>1. AddExtraction[1].new \subseteq W
    BY <2>a
  <2>2. Supported(AddExtraction[1], W)
    BY <2>1, Supports DEF AddExtraction
  <2>3. QED
    BY <1>0, <2>2 DEF Grounds, W
<1>2. Grounds(9, 2)
  <2> DEFINE W == Ground(9, 2)
  <2>a. AddExtraction[2].new \subseteq W /\ Built(8) \subseteq W
    BY <1>0, 2 \in 1..10, GroundOf
  <2> HIDE DEF W
  <2>1. /\ AddExtraction[2].new \subseteq W
        /\ Table("invoice_files") \in W
    BY <1>a1, <1>a2, <1>a3, <2>a
  <2>2. Supported(AddExtraction[2], W)
    BY <2>1, SupportsOwn DEF AddExtraction
  <2>3. QED
    BY <1>0, <2>2 DEF Grounds, W
<1>3. Grounds(9, 3)
  <2> DEFINE W == Ground(9, 3)
  <2>a. AddExtraction[3].new \subseteq W /\ Built(8) \subseteq W
    BY <1>0, 3 \in 1..10, GroundOf
  <2>b1. AddExtraction[1].ensured \subseteq W
    BY <1>0, 3 \in 1..10, 1 \in 1..10, GroundOf
  <2>b2. AddExtraction[2].new \subseteq W
    BY <1>0, 3 \in 1..10, 2 \in 1..10, GroundOf
  <2> HIDE DEF W
  <2>1. /\ AddExtraction[3].new \subseteq W
        /\ AddExtraction[1].ensured \subseteq W
        /\ AddExtraction[2].new \subseteq W
        /\ Table("invoice_files") \in W
    BY <1>a1, <1>a2, <1>a3, <2>a, <2>b1, <2>b2
  <2>2. HasColumns(W, "invoice_files", {"extraction_status"})
    BY <2>1, HasAdded DEF AddExtraction
  <2>3. Type("extraction_status") \in W
    <3>1. AddExtraction[1] = Ensure(Enum("extraction_status", {"pending", "processing", "completed", "failed"}))
      BY DEF AddExtraction
    <3>2. AddExtraction[1].ensured = Enum("extraction_status", {"pending", "processing", "completed", "failed"})
      BY <3>1, StatementFields DEF Does
    <3>3. QED
      BY <2>1, <3>2, EnumHas
  <2>4. Supported(AddExtraction[3], W)
    BY <2>2, <2>3, StandsTyped, Supports DEF AddExtraction
  <2>5. QED
    BY <1>0, <2>4 DEF Grounds, W
<1>4. Grounds(9, 4)
  <2> DEFINE W == Ground(9, 4)
  <2>a. AddExtraction[4].new \subseteq W /\ Built(8) \subseteq W
    BY <1>0, 4 \in 1..10, GroundOf
  <2> HIDE DEF W
  <2>1. /\ AddExtraction[4].new \subseteq W
        /\ Table("invoice_files") \in W
    BY <1>a1, <1>a2, <1>a3, <2>a
  <2>2. Supported(AddExtraction[4], W)
    BY <2>1, SupportsOwn DEF AddExtraction
  <2>3. QED
    BY <1>0, <2>2 DEF Grounds, W
<1>5. Grounds(9, 5)
  <2> DEFINE W == Ground(9, 5)
  <2>a. AddExtraction[5].new \subseteq W /\ Built(8) \subseteq W
    BY <1>0, 5 \in 1..10, GroundOf
  <2> HIDE DEF W
  <2>1. /\ AddExtraction[5].new \subseteq W
        /\ Table("invoice_files") \in W
    BY <1>a1, <1>a2, <1>a3, <2>a
  <2>2. Supported(AddExtraction[5], W)
    BY <2>1, SupportsOwn DEF AddExtraction
  <2>3. QED
    BY <1>0, <2>2 DEF Grounds, W
<1>6. Grounds(9, 6)
  <2> DEFINE W == Ground(9, 6)
  <2>a. AddExtraction[6].new \subseteq W /\ Built(8) \subseteq W
    BY <1>0, 6 \in 1..10, GroundOf
  <2> HIDE DEF W
  <2>1. /\ AddExtraction[6].new \subseteq W
        /\ Table("invoice_files") \in W
    BY <1>a1, <1>a2, <1>a3, <2>a
  <2>2. Supported(AddExtraction[6], W)
    BY <2>1, SupportsOwn DEF AddExtraction
  <2>3. QED
    BY <1>0, <2>2 DEF Grounds, W
<1>7. Grounds(9, 7)
  <2> DEFINE W == Ground(9, 7)
  <2>a. AddExtraction[7].new \subseteq W /\ Built(8) \subseteq W
    BY <1>0, 7 \in 1..10, GroundOf
  <2> HIDE DEF W
  <2>1. /\ AddExtraction[7].new \subseteq W
        /\ Table("invoice_files") \in W
    BY <1>a1, <1>a2, <1>a3, <2>a
  <2>2. Supported(AddExtraction[7], W)
    BY <2>1, SupportsOwn DEF AddExtraction
  <2>3. QED
    BY <1>0, <2>2 DEF Grounds, W
<1>8. Grounds(9, 8)
  <2> DEFINE W == Ground(9, 8)
  <2>a. AddExtraction[8].new \subseteq W /\ Built(8) \subseteq W
    BY <1>0, 8 \in 1..10, GroundOf
  <2>b1. AddExtraction[2].new \subseteq W
    BY <1>0, 8 \in 1..10, 2 \in 1..10, GroundOf
  <2> HIDE DEF W
  <2>c1. HasColumns(W, "invoice_files", {"tenant_id"})
    BY <1>a3, <2>a, HasMore
  <2>1. /\ AddExtraction[8].new \subseteq W
        /\ AddExtraction[2].new \subseteq W
        /\ Table("invoice_files") \in W
        /\ HasColumns(W, "invoice_files", {"tenant_id"})
    BY <1>a1, <1>a2, <1>a3, <2>a, <2>b1, <2>c1
  <2>2. HasColumns(W, "invoice_files", {"extraction_status"})
    BY <2>1, HasAdded DEF AddExtraction
  <2>3. HasColumns(W, "invoice_files", {"tenant_id", "extraction_status"})
    BY <2>1, <2>2 DEF HasColumns
  <2>4. Supported(AddExtraction[8], W)
    BY <2>3, StandsKey, Supports DEF AddExtraction
  <2>5. QED
    BY <1>0, <2>4 DEF Grounds, W
<1>9. Grounds(9, 9)
  <2> DEFINE W == Ground(9, 9)
  <2>a. AddExtraction[9].new \subseteq W /\ Built(8) \subseteq W
    BY <1>0, 9 \in 1..10, GroundOf
  <2> HIDE DEF W
  <2>1. /\ AddExtraction[9].new \subseteq W
        /\ Table("invoices") \in W
    BY <1>a1, <1>a2, <1>a3, <2>a
  <2>2. Supported(AddExtraction[9], W)
    BY <2>1, SupportsOwn DEF AddExtraction
  <2>3. QED
    BY <1>0, <2>2 DEF Grounds, W
<1>10. Grounds(9, 10)
  <2> DEFINE W == Ground(9, 10)
  <2>a. AddExtraction[10].new \subseteq W /\ Built(8) \subseteq W
    BY <1>0, 10 \in 1..10, GroundOf
  <2> HIDE DEF W
  <2>1. /\ AddExtraction[10].new \subseteq W
        /\ Table("invoices") \in W
    BY <1>a1, <1>a2, <1>a3, <2>a
  <2>2. Supported(AddExtraction[10], W)
    BY <2>1, SupportsOwn DEF AddExtraction
  <2>3. QED
    BY <1>0, <2>2 DEF Grounds, W
<1>11. QED
  BY <1>1, <1>2, <1>3, <1>4, <1>5, <1>6, <1>7, <1>8, <1>9, <1>10

\* What AddVerification creates finds what it refers to.
LEMMA AddVerificationGrounds == \A k \in 1..6 : Grounds(10, k)
<1>0. 10 \in 1..14 /\ 6 \in Nat /\ Revision(10, AddVerification, 6) /\ Upgrades[10] = AddVerification
  BY Revisions DEF Revision
<1>a1. Table("users") \in Built(9)
  BY UsersBuilt
<1>1. Grounds(10, 1)
  <2> DEFINE W == Ground(10, 1)
  <2>a. AddVerification[1].new \subseteq W /\ Built(9) \subseteq W
    BY <1>0, 1 \in 1..6, GroundOf
  <2> HIDE DEF W
  <2>1. /\ AddVerification[1].new \subseteq W
        /\ Table("users") \in W
    BY <1>a1, <2>a
  <2>2. Supported(AddVerification[1], W)
    BY <2>1, SupportsOwn DEF AddVerification
  <2>3. QED
    BY <1>0, <2>2 DEF Grounds, W
<1>2. Grounds(10, 2)
  <2> DEFINE W == Ground(10, 2)
  <2>a. AddVerification[2].new \subseteq W /\ Built(9) \subseteq W
    BY <1>0, 2 \in 1..6, GroundOf
  <2> HIDE DEF W
  <2>1. /\ AddVerification[2].new \subseteq W
        /\ Table("users") \in W
    BY <1>a1, <2>a
  <2>2. Supported(AddVerification[2], W)
    BY <2>1, SupportsOwn DEF AddVerification
  <2>3. QED
    BY <1>0, <2>2 DEF Grounds, W
<1>3. Grounds(10, 3)
  <2> DEFINE W == Ground(10, 3)
  <2>a. AddVerification[3].new \subseteq W /\ Built(9) \subseteq W
    BY <1>0, 3 \in 1..6, GroundOf
  <2> HIDE DEF W
  <2>1. /\ AddVerification[3].new \subseteq W
        /\ Table("users") \in W
    BY <1>a1, <2>a
  <2>2. Supported(AddVerification[3], W)
    BY <2>1, SupportsOwn DEF AddVerification
  <2>3. QED
    BY <1>0, <2>2 DEF Grounds, W
<1>4. Grounds(10, 4)
  <2> DEFINE W == Ground(10, 4)
  <2>a. AddVerification[4].new \subseteq W /\ Built(9) \subseteq W
    BY <1>0, 4 \in 1..6, GroundOf
  <2> HIDE DEF W
  <2>1. /\ AddVerification[4].new \subseteq W
        /\ Table("users") \in W
    BY <1>a1, <2>a
  <2>2. Supported(AddVerification[4], W)
    BY <2>1, SupportsOwn DEF AddVerification
  <2>3. QED
    BY <1>0, <2>2 DEF Grounds, W
<1>5. Grounds(10, 5)
  <2> DEFINE W == Ground(10, 5)
  <2>a. AddVerification[5].new \subseteq W /\ Built(9) \subseteq W
    BY <1>0, 5 \in 1..6, GroundOf
  <2>b1. AddVerification[2].new \subseteq W
    BY <1>0, 5 \in 1..6, 2 \in 1..6, GroundOf
  <2> HIDE DEF W
  <2>1. /\ AddVerification[5].new \subseteq W
        /\ AddVerification[2].new \subseteq W
        /\ Table("users") \in W
    BY <1>a1, <2>a, <2>b1
  <2>2. HasColumns(W, "users", {"email_verification_token_hash"})
    BY <2>1, HasAdded DEF AddVerification
  <2>3. Supported(AddVerification[5], W)
    BY <2>2, StandsKey, Supports DEF AddVerification
  <2>4. QED
    BY <1>0, <2>3 DEF Grounds, W
<1>6. Grounds(10, 6)
  <2> DEFINE W == Ground(10, 6)
  <2>a. AddVerification[6].new \subseteq W /\ Built(9) \subseteq W
    BY <1>0, 6 \in 1..6, GroundOf
  <2>b1. AddVerification[1].new \subseteq W
    BY <1>0, 6 \in 1..6, 1 \in 1..6, GroundOf
  <2> HIDE DEF W
  <2>1. /\ AddVerification[6].new \subseteq W
        /\ AddVerification[1].new \subseteq W
        /\ Table("users") \in W
    BY <1>a1, <2>a, <2>b1
  <2>2. HasColumns(W, "users", {"email_verified_at"})
    BY <2>1, HasAdded DEF AddVerification
  <2>3. Supported(AddVerification[6], W)
    BY <2>2, Supports DEF AddVerification
  <2>4. QED
    BY <1>0, <2>3 DEF Grounds, W
<1>7. QED
  BY <1>1, <1>2, <1>3, <1>4, <1>5, <1>6

\* What AddEdits creates finds what it refers to.
LEMMA AddEditsGrounds == \A k \in 1..10 : Grounds(11, k)
<1>0. 11 \in 1..14 /\ 10 \in Nat /\ Revision(11, AddEdits, 10) /\ Upgrades[11] = AddEdits
  BY Revisions DEF Revision
<1>a1. Table("invoices") \in Built(10)
  BY InvoicesBuilt
<1>a2. Table("users") \in Built(10)
  BY UsersBuilt
<1>1. Grounds(11, 1)
  <2> DEFINE W == Ground(11, 1)
  <2>a. AddEdits[1].new \subseteq W /\ Built(10) \subseteq W
    BY <1>0, 1 \in 1..10, GroundOf
  <2> HIDE DEF W
  <2>1. /\ AddEdits[1].new \subseteq W
        /\ Table("invoices") \in W
    BY <1>a1, <1>a2, <2>a
  <2>2. Supported(AddEdits[1], W)
    BY <2>1, SupportsOwn DEF AddEdits
  <2>3. QED
    BY <1>0, <2>2 DEF Grounds, W
<1>2. Grounds(11, 2)
  <2> DEFINE W == Ground(11, 2)
  <2>a. AddEdits[2].new \subseteq W /\ Built(10) \subseteq W
    BY <1>0, 2 \in 1..10, GroundOf
  <2> HIDE DEF W
  <2>1. /\ AddEdits[2].new \subseteq W
        /\ Table("invoices") \in W
    BY <1>a1, <1>a2, <2>a
  <2>2. Supported(AddEdits[2], W)
    BY <2>1, SupportsOwn DEF AddEdits
  <2>3. QED
    BY <1>0, <2>2 DEF Grounds, W
<1>3. Grounds(11, 3)
  <2> DEFINE W == Ground(11, 3)
  <2>a. AddEdits[3].new \subseteq W /\ Built(10) \subseteq W
    BY <1>0, 3 \in 1..10, GroundOf
  <2> HIDE DEF W
  <2>1. /\ AddEdits[3].new \subseteq W
        /\ Table("invoices") \in W
    BY <1>a1, <1>a2, <2>a
  <2>2. Supported(AddEdits[3], W)
    BY <2>1, SupportsOwn DEF AddEdits
  <2>3. QED
    BY <1>0, <2>2 DEF Grounds, W
<1>4. Grounds(11, 4)
  <2> DEFINE W == Ground(11, 4)
  <2>a. AddEdits[4].new \subseteq W /\ Built(10) \subseteq W
    BY <1>0, 4 \in 1..10, GroundOf
  <2> HIDE DEF W
  <2>1. /\ AddEdits[4].new \subseteq W
        /\ Table("invoices") \in W
    BY <1>a1, <1>a2, <2>a
  <2>2. Supported(AddEdits[4], W)
    BY <2>1, SupportsOwn DEF AddEdits
  <2>3. QED
    BY <1>0, <2>2 DEF Grounds, W
<1>5. Grounds(11, 5)
  <2> DEFINE W == Ground(11, 5)
  <2>a. AddEdits[5].new \subseteq W /\ Built(10) \subseteq W
    BY <1>0, 5 \in 1..10, GroundOf
  <2>b1. AddEdits[4].new \subseteq W
    BY <1>0, 5 \in 1..10, 4 \in 1..10, GroundOf
  <2> HIDE DEF W
  <2>1. /\ AddEdits[5].new \subseteq W
        /\ AddEdits[4].new \subseteq W
        /\ Table("invoices") \in W
        /\ Table("users") \in W
    BY <1>a1, <1>a2, <2>a, <2>b1
  <2>2. HasColumns(W, "invoices", {"reviewed_by_user_id"})
    BY <2>1, HasAdded DEF AddEdits
  <2>3. Supported(AddEdits[5], W)
    BY <2>2, <2>1, StandsReference, Supports DEF AddEdits
  <2>4. QED
    BY <1>0, <2>3 DEF Grounds, W
<1>6. Grounds(11, 6)
  <2> DEFINE W == Ground(11, 6)
  <2>a. AddEdits[6].new \subseteq W /\ Built(10) \subseteq W
    BY <1>0, 6 \in 1..10, GroundOf
  <2> HIDE DEF W
  <2>1. /\ AddEdits[6].new \subseteq W
        /\ Table("invoices") \in W
    BY <1>a1, <1>a2, <2>a
  <2>2. Supported(AddEdits[6], W)
    BY <2>1, SupportsOwn DEF AddEdits
  <2>3. QED
    BY <1>0, <2>2 DEF Grounds, W
<1>7. Grounds(11, 7)
  <2> DEFINE W == Ground(11, 7)
  <2>a. AddEdits[7].new \subseteq W /\ Built(10) \subseteq W
    BY <1>0, 7 \in 1..10, GroundOf
  <2>b1. AddEdits[1].new \subseteq W
    BY <1>0, 7 \in 1..10, 1 \in 1..10, GroundOf
  <2> HIDE DEF W
  <2>1. /\ AddEdits[7].new \subseteq W
        /\ AddEdits[1].new \subseteq W
        /\ Table("invoices") \in W
    BY <1>a1, <1>a2, <2>a, <2>b1
  <2>2. HasColumns(W, "invoices", {"version"})
    BY <2>1, HasAdded DEF AddEdits
  <2>3. Supported(AddEdits[7], W)
    BY <2>2, Supports DEF AddEdits
  <2>4. QED
    BY <1>0, <2>3 DEF Grounds, W
<1>8. Grounds(11, 8)
  <2> DEFINE W == Ground(11, 8)
  <2>a. AddEdits[8].new \subseteq W /\ Built(10) \subseteq W
    BY <1>0, 8 \in 1..10, GroundOf
  <2>b1. AddEdits[2].new \subseteq W
    BY <1>0, 8 \in 1..10, 2 \in 1..10, GroundOf
  <2> HIDE DEF W
  <2>1. /\ AddEdits[8].new \subseteq W
        /\ AddEdits[2].new \subseteq W
        /\ Table("invoices") \in W
    BY <1>a1, <1>a2, <2>a, <2>b1
  <2>2. HasColumns(W, "invoices", {"is_reviewed"})
    BY <2>1, HasAdded DEF AddEdits
  <2>3. Supported(AddEdits[8], W)
    BY <2>2, Supports DEF AddEdits
  <2>4. QED
    BY <1>0, <2>3 DEF Grounds, W
<1>9. Grounds(11, 9)
  <2> DEFINE W == Ground(11, 9)
             t == "invoice_edits"
  <2>a. AddEdits[9].new \subseteq W /\ Built(10) \subseteq W
    BY <1>0, 9 \in 1..10, GroundOf
  <2> HIDE DEF W
  <2>1. /\ AddEdits[9].new \subseteq W
        /\ Table("invoices") \in W
        /\ Table("users") \in W
    BY <1>a1, <1>a2, <2>a
  <2>2. HasColumns(W, t, {"id", "tenant_id", "invoice_id", "field", "created_at", "user_id",
                          "old_value", "new_value"})
    BY <2>1, EditColumns, HasMore
  <2> HIDE DEF t
  <2>3. /\ HasColumns(W, t, {"id", "tenant_id", "invoice_id", "field", "created_at"})
        /\ HasColumns(W, t, {"user_id", "old_value", "new_value"})
        /\ HasColumns(W, t, {"invoice_id"})
        /\ HasColumns(W, t, {"user_id"})
    BY <2>2, HasMore
  <2>4. /\ Stands({Table(t)}, W)
        /\ Stands(Needed(t, {"id", "tenant_id", "invoice_id", "field", "created_at"}), W)
        /\ Stands(Optional(t, {"user_id", "old_value", "new_value"}), W)
    BY <2>3, StandsBoth, StandsColumns
  <2>5. Stands({Reference(t, "invoice_id", "invoices", "CASCADE")}, W)
    BY <2>1, <2>3, StandsReference
  <2>6. Stands({Reference(t, "user_id", "users", "SET_NULL")}, W)
    BY <2>1, <2>3, StandsReference
  <2>7. Stands({Reference(t, "invoice_id", "invoices", "CASCADE"),
                Reference(t, "user_id", "users", "SET_NULL")}, W)
    BY <2>5, <2>6 DEF Stands
  <2>8. Supported(AddEdits[9], W)
    BY <2>4, <2>7, StandsBoth, Supports DEF t, AddEdits, CreateTable
  <2>9. QED
    BY <1>0, <2>8 DEF Grounds, W
<1>10. Grounds(11, 10)
  <2> DEFINE W == Ground(11, 10)
             t == "invoice_edits"
  <2>a. AddEdits[10].new \subseteq W
    BY <1>0, 10 \in 1..10, GroundOf
  <2>b1. AddEdits[9].new \subseteq W
    BY <1>0, 10 \in 1..10, 9 \in 1..10, GroundOf
  <2> HIDE DEF W
  <2>1. /\ AddEdits[10].new \subseteq W
        /\ AddEdits[9].new \subseteq W
    BY <2>a, <2>b1
  <2>2. HasColumns(W, t, {"tenant_id", "invoice_id"})
    BY <2>1, EditColumns, HasMore
  <2>3. Supported(AddEdits[10], W)
    BY <2>2, StandsKey, Supports DEF AddEdits
  <2>4. QED
    BY <1>0, <2>3 DEF Grounds, W
<1>11. QED
  BY <1>1, <1>2, <1>3, <1>4, <1>5, <1>6, <1>7, <1>8, <1>9, <1>10

\* What CreateMappings creates finds what it refers to.
LEMMA CreateMappingsGrounds == \A k \in 1..3 : Grounds(12, k)
<1>0. 12 \in 1..14 /\ 3 \in Nat /\ Revision(12, CreateMappings, 3) /\ Upgrades[12] = CreateMappings
  BY Revisions DEF Revision
<1>1. Grounds(12, 1)
  <2> DEFINE W == Ground(12, 1)
  <2>a. CreateMappings[1].new \subseteq W
    BY <1>0, 1 \in 1..3, GroundOf
  <2> HIDE DEF W
  <2>1. CreateMappings[1].new \subseteq W
    BY <2>a
  <2>2. Supported(CreateMappings[1], W)
    BY <2>1, Supports DEF CreateMappings
  <2>3. QED
    BY <1>0, <2>2 DEF Grounds, W
<1>2. Grounds(12, 2)
  <2> DEFINE W == Ground(12, 2)
             t == "vendor_account_mappings"
  <2>a. CreateMappings[2].new \subseteq W
    BY <1>0, 2 \in 1..3, GroundOf
  <2> HIDE DEF W
  <2>1. CreateMappings[2].new \subseteq W
    BY <2>a
  <2>2. HasColumns(W, t, {"id", "created_at", "updated_at", "tenant_id", "vendor_name_normalized",
                          "vendor_name_raw", "creditor_account_number", "usage_count", "last_used_at"})
    BY <2>1, MappingColumns, HasMore
  <2> HIDE DEF t
  <2>3. /\ HasColumns(W, t, {"id", "created_at", "updated_at"})
        /\ HasColumns(W, t, {"tenant_id", "vendor_name_normalized", "vendor_name_raw",
                             "creditor_account_number", "usage_count", "last_used_at"})
        /\ HasColumns(W, t, {"tenant_id", "vendor_name_normalized"})
    BY <2>2, HasMore
  <2>4. /\ Stands({Table(t)}, W)
        /\ Stands(Needed(t, {"id", "created_at", "updated_at"}), W)
        /\ Stands(Needed(t, {"tenant_id", "vendor_name_normalized", "vendor_name_raw",
                             "creditor_account_number", "usage_count", "last_used_at"}), W)
    BY <2>3, StandsBoth, StandsColumns
  <2>5. Stands({Key(t, {"tenant_id", "vendor_name_normalized"})}, W)
    BY <2>3, StandsKey
  <2>6. Supported(CreateMappings[2], W)
    BY <2>4, <2>5, StandsBoth, Supports DEF t, CreateMappings, CreateTable, Standard
  <2>7. QED
    BY <1>0, <2>6 DEF Grounds, W
<1>3. Grounds(12, 3)
  <2> DEFINE W == Ground(12, 3)
             t == "vendor_account_mappings"
  <2>a. CreateMappings[3].new \subseteq W
    BY <1>0, 3 \in 1..3, GroundOf
  <2>b1. CreateMappings[2].new \subseteq W
    BY <1>0, 3 \in 1..3, 2 \in 1..3, GroundOf
  <2> HIDE DEF W
  <2>1. /\ CreateMappings[3].new \subseteq W
        /\ CreateMappings[2].new \subseteq W
    BY <2>a, <2>b1
  <2>2. HasColumns(W, t, {"tenant_id", "last_used_at"})
    BY <2>1, MappingColumns, HasMore
  <2>3. Supported(CreateMappings[3], W)
    BY <2>2, StandsKey, Supports DEF CreateMappings
  <2>4. QED
    BY <1>0, <2>3 DEF Grounds, W
<1>4. QED
  BY <1>1, <1>2, <1>3

\* What AddMethod creates finds what it refers to.
LEMMA AddMethodGrounds == \A k \in 1..3 : Grounds(13, k)
<1>0. 13 \in 1..14 /\ 3 \in Nat /\ Revision(13, AddMethod, 3) /\ Upgrades[13] = AddMethod
  BY Revisions DEF Revision
<1>a1. Table("invoice_files") \in Built(12)
  BY FilesBuilt
<1>1. Grounds(13, 1)
  <2> DEFINE W == Ground(13, 1)
  <2>a. AddMethod[1].new \subseteq W
    BY <1>0, 1 \in 1..3, GroundOf
  <2> HIDE DEF W
  <2>1. AddMethod[1].new \subseteq W
    BY <2>a
  <2>2. Supported(AddMethod[1], W)
    BY <2>1, Supports DEF AddMethod
  <2>3. QED
    BY <1>0, <2>2 DEF Grounds, W
<1>2. Grounds(13, 2)
  <2> DEFINE W == Ground(13, 2)
  <2>a. AddMethod[2].new \subseteq W /\ Built(12) \subseteq W
    BY <1>0, 2 \in 1..3, GroundOf
  <2> HIDE DEF W
  <2>1. /\ AddMethod[2].new \subseteq W
        /\ Table("invoice_files") \in W
    BY <1>a1, <2>a
  <2>2. Supported(AddMethod[2], W)
    BY <2>1, SupportsOwn DEF AddMethod
  <2>3. QED
    BY <1>0, <2>2 DEF Grounds, W
<1>3. Grounds(13, 3)
  <2> DEFINE W == Ground(13, 3)
  <2>a. AddMethod[3].new \subseteq W /\ Built(12) \subseteq W
    BY <1>0, 3 \in 1..3, GroundOf
  <2>b1. AddMethod[1].ensured \subseteq W
    BY <1>0, 3 \in 1..3, 1 \in 1..3, GroundOf
  <2>b2. AddMethod[2].new \subseteq W
    BY <1>0, 3 \in 1..3, 2 \in 1..3, GroundOf
  <2> HIDE DEF W
  <2>1. /\ AddMethod[3].new \subseteq W
        /\ AddMethod[1].ensured \subseteq W
        /\ AddMethod[2].new \subseteq W
        /\ Table("invoice_files") \in W
    BY <1>a1, <2>a, <2>b1, <2>b2
  <2>2. HasColumns(W, "invoice_files", {"extraction_method"})
    BY <2>1, HasAdded DEF AddMethod
  <2>3. Type("extraction_method") \in W
    <3>1. AddMethod[1] = Ensure(Enum("extraction_method", Methods))
      BY DEF AddMethod
    <3>2. AddMethod[1].ensured = Enum("extraction_method", Methods)
      BY <3>1, StatementFields DEF Does
    <3>3. QED
      BY <2>1, <3>2, EnumHas
  <2>4. Supported(AddMethod[3], W)
    BY <2>2, <2>3, StandsTyped, Supports DEF AddMethod
  <2>5. QED
    BY <1>0, <2>4 DEF Grounds, W
<1>4. QED
  BY <1>1, <1>2, <1>3

\* What AddNotAnInvoice creates finds what it refers to.
LEMMA AddNotAnInvoiceGrounds == \A k \in 1..1 : Grounds(14, k)
<1>0. 14 \in 1..14 /\ 1 \in Nat /\ Revision(14, AddNotAnInvoice, 1) /\ Upgrades[14] = AddNotAnInvoice
  BY Revisions DEF Revision
<1>1. Grounds(14, 1)
  <2> DEFINE W == Ground(14, 1)
  <2>a. AddNotAnInvoice[1].new \subseteq W
    BY <1>0, 1 \in 1..1, GroundOf
  <2> HIDE DEF W
  <2>1. AddNotAnInvoice[1].new \subseteq W
    BY <2>a
  <2>2. Supported(AddNotAnInvoice[1], W)
    BY <2>1, Supports DEF AddNotAnInvoice
  <2>3. QED
    BY <1>0, <2>2 DEF Grounds, W
<1>2. QED
  BY <1>1

\* Every statement of every upgrade finds what it refers to.
LEMMA AllGrounds ==
    ASSUME NEW r \in 1..14
    PROVE  \A k \in 1..Len(Upgrades[r]) : Grounds(r, k)
<1>1. CASE r = 1
  BY <1>1, CreateInvoicesGrounds, Revisions DEF Revision
<1>2. CASE r = 2
  BY <1>2, EnableVectorGrounds, Revisions DEF Revision
<1>3. CASE r = 3
  BY <1>3, CreateAuditGrounds, Revisions DEF Revision
<1>4. CASE r = 4
  BY <1>4, CreateEmbeddingsGrounds, Revisions DEF Revision
<1>5. CASE r = 5
  BY <1>5, AddTenantToInvoicesGrounds, Revisions DEF Revision
<1>6. CASE r = 6
  BY <1>6, AddTenantToAuditGrounds, Revisions DEF Revision
<1>7. CASE r = 7
  BY <1>7, CreateUsersGrounds, Revisions DEF Revision
<1>8. CASE r = 8
  BY <1>8, CreateFilesGrounds, Revisions DEF Revision
<1>9. CASE r = 9
  BY <1>9, AddExtractionGrounds, Revisions DEF Revision
<1>10. CASE r = 10
  BY <1>10, AddVerificationGrounds, Revisions DEF Revision
<1>11. CASE r = 11
  BY <1>11, AddEditsGrounds, Revisions DEF Revision
<1>12. CASE r = 12
  BY <1>12, CreateMappingsGrounds, Revisions DEF Revision
<1>13. CASE r = 13
  BY <1>13, AddMethodGrounds, Revisions DEF Revision
<1>14. CASE r = 14
  BY <1>14, AddNotAnInvoiceGrounds, Revisions DEF Revision
<1>15. QED
  BY <1>1, <1>2, <1>3, <1>4, <1>5, <1>6, <1>7, <1>8, <1>9, <1>10, <1>11, <1>12, <1>13, <1>14

-----------------------------------------------------------------------------
(* Upgrades lead from the schema of a revision to that of the next.        *)

\* The type of the invoice status is there from the first revision on.
LEMMA StatusBuilt ==
    ASSUME NEW r \in 1..14
    PROVE  Type("invoice_status") \in Built(r) /\ Type("invoice_status") \in CreateInvoices[1].new
<1>1. 1 \in 1..r /\ 1 \in 1..Len(Upgrades[1]) /\ r \in 0..14
  BY Revisions DEF Revision
<1>2. Upgrades[1][1] = CreateInvoices[1]
  BY Revisions DEF Revision
<1>3. Type("invoice_status") \in CreateInvoices[1].new
  BY EnumHas, StatementFields DEF Does, CreateInvoices, CreateTable
<1>4. Type("invoice_status") # NumberIndex
  <2>1. Type("invoice_status").kind = "type"
    BY Fields DEF Type
  <2>2. QED
    BY <2>1, NumberIndexBorn
<1>5. QED
  BY <1>1, <1>2, <1>3, <1>4, BuiltHas

\* Upgrades drop one index.
LEMMA DroppedIndex ==
    ASSUME NEW r \in 1..14
    PROVE  Dropped(Upgrades[r], Len(Upgrades[r])) = {g \in {NumberIndex} : r = 5}
<1>1. ASSUME NEW g \in Dropped(Upgrades[r], Len(Upgrades[r])) PROVE r = 5 /\ g = NumberIndex
  <2>1. PICK j \in 1..Len(Upgrades[r]) : g \in Upgrades[r][j].gone
    BY <1>1 DEF Dropped
  <2>2. Planned(Upgrades[r][j], r, j)
    BY History
  <2>3. QED
    BY <2>1, <2>2 DEF Planned
<1>2. ASSUME r = 5 PROVE NumberIndex \in Dropped(Upgrades[r], Len(Upgrades[r]))
  <2>1. Upgrades[r] = AddTenantToInvoices /\ 2 \in 1..Len(Upgrades[r])
    BY <1>2, Revisions DEF Revision
  <2>2. AddTenantToInvoices[2] = Drop(NumberIndex)
    BY DEF AddTenantToInvoices, NumberIndex
  <2>3. NumberIndex \in Upgrades[r][2].gone
    BY <2>1, <2>2, StatementFields DEF Does
  <2>4. QED
    BY <2>1, <2>3 DEF Dropped
<1>3. QED
  BY <1>1, <1>2

\* A revision applies where a history can lead, but for the two exceptions, and
\* leads to the schema of the next.
LEMMA UpgradeFits ==
    ASSUME NEW r \in 1..14, NEW d, IsDatabase(d), d.ok, Fits(d.schema, r - 1),
           r = 1 => Type("invoice_status") \notin d.schema,
           r = 5 => d.rows["invoices"] = {}
    PROVE  /\ Executed(d, Upgrades[r]).ok
           /\ Fits(Executed(d, Upgrades[r]).schema, r)
           /\ Executed(d, Upgrades[r]).schema
                = {o \in d.schema \cup New(r) : r = 5 => o # NumberIndex}
           /\ Grew(d.rows, Executed(d, Upgrades[r]).rows)
           /\ \A j \in 1..Len(Upgrades[r]) : Filled(Executed(d, Upgrades[r]).rows, Upgrades[r][j].filled)
<1> DEFINE e == Executed(d, Upgrades[r])
<1>1. Adds(Upgrades[r], d)
  BY AllGrounds, UpgradeAdds
<1>2. Len(Upgrades[r]) \in Nat
  BY History
<1>3. /\ e.ok
      /\ e.schema = (d.schema \cup New(r)) \ Dropped(Upgrades[r], Len(Upgrades[r]))
      /\ Grew(d.rows, e.rows)
      /\ \A j \in 1..Len(Upgrades[r]) : Filled(e.rows, Upgrades[r][j].filled)
  BY <1>1, <1>2, AddsApply DEF New
<1> HIDE DEF e
<1>4. e.schema = {o \in d.schema \cup New(r) : r = 5 => o # NumberIndex}
  BY <1>3, DroppedIndex
<1>5. Built(r) = {o \in Built(r - 1) \cup New(r) : r = 5 => o # NumberIndex}
  BY BuiltNext
<1>6. Built(r) \subseteq e.schema
  BY <1>4, <1>5 DEF Fits
<1>7. e.schema \subseteq Built(r) \cup Leftovers
  BY <1>4, <1>5 DEF Fits
<1>8. Type("invoice_status") \in e.schema
  BY <1>6, StatusBuilt
<1>9. Fits(e.schema, r)
  BY <1>6, <1>7, <1>8 DEF Fits
<1>10. QED
  BY <1>3, <1>4, <1>9 DEF e

\* An object of a schema belongs to a revision that has been applied, or is left over.
LEMMA FitsKnown ==
    ASSUME NEW r \in 0..14, NEW B, Fits(B, r), NEW o \in B
    PROVE  IsObject(o) /\ Links(o) /\ (Known(o, r) \/ o \in Leftovers)
<1>1. o \in Built(r) \/ o \in Leftovers
  BY DEF Fits
<1>2. QED
  BY <1>1, BuiltKnown, LeftoversDated DEF Known

\* A column of a schema belongs to a revision that has been applied.
LEMMA ColumnKnown ==
    ASSUME NEW r \in 0..14, NEW B, Fits(B, r), NEW t, NEW c, c \in Names(B, "column", t)
    PROVE  \E cols : c \in cols /\ Born(t, cols) <= r
<1>1. PICK o \in B : o.kind = "column" /\ o.on = t /\ c \in o.cols
  BY DEF Names
<1>2. o \notin Leftovers
  BY <1>1, LeftoversDated
<1>3. Known(o, r)
  BY <1>2, FitsKnown
<1>4. QED
  BY <1>1, <1>3 DEF Known

\* The two exceptions: what a revision that succeeds has not met.
LEMMA UpgradeNeeds ==
    ASSUME NEW r \in 1..14, NEW d, IsDatabase(d), Fits(d.schema, r - 1), RowsFit(d), Grounded(d.schema),
           Executed(d, Upgrades[r]).ok
    PROVE  /\ r = 1 => Type("invoice_status") \notin d.schema
           /\ r = 5 => d.rows["invoices"] = {}
           /\ RowsFit(Executed(d, Upgrades[r])) /\ Grounded(Executed(d, Upgrades[r]).schema)
<1>1. /\ Len(Upgrades[r]) \in Nat
      /\ \A k \in 1..Len(Upgrades[r]) : \A o \in Upgrades[r][k].ensured : o.kind \notin Attached
  BY History DEF Planned
<1>2. /\ RowsFit(Executed(d, Upgrades[r])) /\ Grounded(Executed(d, Upgrades[r]).schema)
      /\ Len(Upgrades[r]) > 0 => Possible(d, Upgrades[r][1])
  BY <1>1, ExecutedKeeps
<1>3. ASSUME r = 1 PROVE Type("invoice_status") \notin d.schema
  <2>1. Upgrades[r] = CreateInvoices /\ Len(Upgrades[r]) > 0
    BY <1>3, Revisions DEF Revision
  <2>2. CreateInvoices[1].new \cap d.schema = {}
    BY <1>2, <2>1 DEF Possible
  <2>3. QED
    BY <2>2, 1 \in 1..14, StatusBuilt
<1>4. ASSUME r = 5 PROVE d.rows["invoices"] = {}
  <2>1. Upgrades[r] = AddTenantToInvoices /\ Len(Upgrades[r]) > 0
    BY <1>4, Revisions DEF Revision
  <2>2. AddTenantToInvoices[1].bare = {<<"invoices", "tenant_id">>}
    BY StatementFields DEF Does, AddTenantToInvoices
  <2>3. Possible(d, AddTenantToInvoices[1])
    BY <1>2, <2>1
  <2>4. \A x \in d.rows["invoices"] : "tenant_id" \in x
    <3>1. \A b \in {<<"invoices", "tenant_id">>} : \A x \in d.rows[b[1]] : b[2] \in x
      BY <2>2, <2>3 DEF Possible
    <3>2. QED
      BY <3>1
  <2>5. ASSUME NEW x \in d.rows["invoices"] PROVE FALSE
    <3>1. "tenant_id" \in Names(d.schema, "column", "invoices")
      BY <2>4 DEF RowsFit, Tables
    <3>2. PICK cols : "tenant_id" \in cols /\ Born("invoices", cols) <= 4
      <4>1. 4 \in 0..14 /\ Fits(d.schema, 4)
        BY <1>4
      <4>2. QED
        BY <3>1, <4>1, ColumnKnown
    <3>3. Born("invoices", cols) >= 5
      BY <3>2 DEF Born
    <3>4. Born("invoices", cols) \in Nat
      BY DEF Born
    <3>5. QED
      BY <3>2, <3>3, <3>4
  <2>6. QED
    BY <2>5
<1>5. QED
  BY <1>2, <1>3, <1>4

-----------------------------------------------------------------------------
(* Downgrades lead back to the schema of the revision before.              *)

\* More columns belong to the same revision or to a later one.
LEMMA BornGrows ==
    ASSUME NEW on, NEW some, NEW cols, some \subseteq cols
    PROVE  Born(on, some) \in Nat /\ Born(on, cols) \in Nat /\ Born(on, some) <= Born(on, cols)
<1>1. /\ some \cap Changes # {} => cols \cap Changes # {}
      /\ some \cap Amounts # {} => cols \cap Amounts # {}
      /\ some \cap Verifications # {} => cols \cap Verifications # {}
      /\ some \cap Extractions # {} => cols \cap Extractions # {}
      /\ \A c : c \in some => c \in cols
  OBVIOUS
<1>2. CASE on = "invoices"
  BY <1>1, <1>2 DEF Born
<1>3. CASE on \in {"llm_audit_entries", "users"}
  BY <1>1, <1>3 DEF Born
<1>4. CASE on = "invoice_files"
  BY <1>1, <1>4 DEF Born
<1>5. CASE on = "extraction_status"
  BY <1>1, <1>5 DEF Born
<1>6. CASE on \in {"invoice_embeddings", "tenants", "invoice_edits", "vendor_account_mappings",
                   "invoice_status", "vector", "pgcrypto", "extraction_method"}
  BY <1>6 DEF Born
<1>7. CASE on \notin {"invoices", "llm_audit_entries", "users", "invoice_files", "extraction_status",
                      "invoice_embeddings", "tenants", "invoice_edits", "vendor_account_mappings",
                      "invoice_status", "vector", "pgcrypto", "extraction_method"}
  BY <1>7 DEF Born
<1>8. QED
  BY <1>2, <1>3, <1>4, <1>5, <1>6, <1>7

\* An object that revision r created and that a downgrade drops.
Sharp(g, r) ==
    /\ g.kind = "column" => \E c : g.cols = {c}
    /\ g.kind \in {"table", "type"} => g.cols = {}
    /\ Born(g.on, g.cols) = r

\* Nothing older than an object falls with it.
LEMMA FallsLater ==
    ASSUME NEW g, NEW r \in Nat, Sharp(g, r), NEW o, FallsWith(o, g)
    PROVE  Born(o.on, o.cols) \in Nat /\ Born(o.on, o.cols) >= r
<1>1. o.on = g.on /\ g.cols \subseteq o.cols
  BY DEF FallsWith, Sharp
<1>2. QED
  BY <1>1, BornGrows DEF Sharp

\* The statements of a downgrade drop what the revision created: nothing that is
\* in the way is left when its turn comes, and nothing of the revision stays.
Undone(S, r) ==
    /\ Len(S) \in Nat
    /\ \A k \in 1..Len(S) :
         /\ S[k].ensured = {} /\ S[k].filled = {} /\ S[k].bare = {}
         /\ S[k].new = {g \in {NumberIndex} : r = 5 /\ k = 2}
         /\ \A g \in S[k].gone \cup S[k].removed :
              /\ Sharp(g, r)
              /\ \A o : Known(o, r) /\ Holds(o, g) => \E h \in Dropping(S, k - 1) : FallsWith(o, h)
         /\ \A g \in S[k].gone :
              g \in Built(r) /\ \A h \in Dropping(S, k - 1) : ~FallsWith(g, h)
    /\ \A o : Known(o, r) /\ Born(o.on, o.cols) = r =>
         o \in Leftovers \/ \E g \in Dropping(S, Len(S)) : FallsWith(o, g)
    /\ r = 5 => Len(S) > 1
    /\ \A g \in Dropping(S, Len(S)) : ~FallsWith(Type("invoice_status"), g)

\* What a downgrade creates.
LEMMA UndoneCreates ==
    ASSUME NEW S, NEW r, Undone(S, r), NEW k \in 0..Len(S)
    PROVE  Created(S, k) = {g \in {NumberIndex} : r = 5 /\ k > 1}
<1>1. Len(S) \in Nat /\ \A j \in 1..k : j \in 1..Len(S)
  BY DEF Undone
<1>2. \A j \in 1..k : S[j].new = {g \in {NumberIndex} : r = 5 /\ j = 2} /\ S[j].ensured = {}
  BY <1>1 DEF Undone
<1>3. k > 1 => 2 \in 1..k
  BY <1>1
<1>4. \A j \in 1..k : j = 2 => k > 1
  OBVIOUS
<1>5. ASSUME NEW x PROVE x \in Created(S, k) <=> x = NumberIndex /\ r = 5 /\ k > 1
  <2>1. x \in Created(S, k) <=> \E j \in 1..k : x \in S[j].new \cup S[j].ensured
    BY DEF Created
  <2>2. \A j \in 1..k : x \in S[j].new \cup S[j].ensured <=> x = NumberIndex /\ r = 5 /\ j = 2
    BY <1>2
  <2>3. QED
    BY <1>3, <1>4, <2>1, <2>2
<1>6. QED
  BY <1>5

\* What is dropped belongs to the revision, so that nothing older falls.
LEMMA DroppingSharp ==
    ASSUME NEW S, NEW r \in 1..14, Undone(S, r), NEW k \in 0..Len(S), NEW o,
           Born(o.on, o.cols) < r
    PROVE  \A g \in Dropping(S, k) : ~FallsWith(o, g)
<1>1. SUFFICES ASSUME NEW g \in Dropping(S, k), FallsWith(o, g) PROVE FALSE
  OBVIOUS
<1>2. PICK j \in 1..k : g \in S[j].gone \cup S[j].removed
  BY DEF Dropping
<1>3. j \in 1..Len(S)
  BY DEF Undone
<1>4. Sharp(g, r)
  BY <1>2, <1>3 DEF Undone
<1>5. Born(o.on, o.cols) \in Nat /\ Born(o.on, o.cols) >= r
  BY <1>1, <1>4, FallsLater
<1>6. QED
  BY <1>5

\* Such statements fit every schema of the revision.
LEMMA DowngradeRemoves ==
    ASSUME NEW r \in 1..14, NEW S, Undone(S, r), NEW B, Fits(B, r)
    PROVE  Removes(S, B)
<1>0. Len(S) \in Nat /\ 0 \in 0..Len(S) /\ Len(S) \in 0..Len(S)
  BY DEF Undone
<1>1. \A o \in Created(S, Len(S)) : \A g \in Dropping(S, Len(S)) : ~FallsWith(o, g)
  <2>1. SUFFICES ASSUME NEW o \in Created(S, Len(S)) PROVE \A g \in Dropping(S, Len(S)) : ~FallsWith(o, g)
    OBVIOUS
  <2>2. o = NumberIndex /\ r = 5
    BY <1>0, UndoneCreates
  <2>3. Born(o.on, o.cols) < r
    BY <2>2, NumberIndexBorn
  <2>4. QED
    BY <1>0, <2>3, DroppingSharp
<1>2. ASSUME NEW k \in 1..Len(S)
      PROVE  /\ S[k].ensured = {} /\ S[k].filled = {} /\ S[k].bare = {}
             /\ S[k].new \cap (B \cup Created(S, k - 1)) = {}
             /\ Supported(S[k], Staying(B, S, k))
             /\ \A g \in S[k].gone : g \in Staying(B, S, k - 1)
             /\ \A o \in B \cup Created(S, k - 1), g \in S[k].gone \cup S[k].removed :
                  g \in B \cup Created(S, k - 1) /\ Holds(o, g) => /\ o \notin Staying(B, S, k - 1)
                                                                  /\ o \in B
  <2>0. k - 1 \in 0..Len(S) /\ k \in 0..Len(S)
    BY <1>0
  <2>1. /\ S[k].ensured = {} /\ S[k].filled = {} /\ S[k].bare = {}
        /\ S[k].new = {g \in {NumberIndex} : r = 5 /\ k = 2}
        /\ \A g \in S[k].gone \cup S[k].removed :
              \A o : Known(o, r) /\ Holds(o, g) => \E h \in Dropping(S, k - 1) : FallsWith(o, h)
        /\ \A g \in S[k].gone :
              g \in Built(r) /\ \A h \in Dropping(S, k - 1) : ~FallsWith(g, h)
    BY DEF Undone
  <2>2. Created(S, k - 1) = {g \in {NumberIndex} : r = 5 /\ k - 1 > 1}
    BY <2>0, UndoneCreates
  <2>3. S[k].new \cap (B \cup Created(S, k - 1)) = {}
    <3>1. SUFFICES ASSUME r = 5, k = 2, NumberIndex \in B PROVE FALSE
      BY <2>1, <2>2
    <3>2. NumberIndex \notin Leftovers
      <4>1. NumberIndex \in Leftovers => NumberIndex.kind \in {"type", "label", "extension"}
        BY LeftoversDated
      <4>2. QED
        BY <4>1, NumberIndexBorn
    <3>3. NumberIndex \notin Built(5)
      BY DEF Built
    <3>4. QED
      BY <3>1, <3>2, <3>3 DEF Fits
  <2>4. Supported(S[k], Staying(B, S, k))
    <3>1. CASE r = 5 /\ k = 2
      <4> DEFINE W == Staying(B, S, k)
      <4>1. HasColumns(Built(5), "invoices", {"invoice_number"})
        BY 5 \in 1..14, InvoicesBuilt
      <4>2. /\ Table("invoices").on = "invoices" /\ Table("invoices").cols = {}
            /\ Column("invoices", "invoice_number").on = "invoices"
            /\ Column("invoices", "invoice_number").cols = {"invoice_number"}
        BY Fields DEF Table, Column
      <4>3. /\ Born(Table("invoices").on, Table("invoices").cols) < r
            /\ Born(Column("invoices", "invoice_number").on,
                    Column("invoices", "invoice_number").cols) < r
        BY <3>1, <4>2 DEF Born, Changes, Amounts
      <4>4. HasColumns(W, "invoices", {"invoice_number"})
        <5>1. Table("invoices") \in B /\ Column("invoices", "invoice_number") \in B
          BY <3>1, <4>1 DEF Fits, HasColumns
        <5>2. Table("invoices") \in W
          BY <2>0, <4>3, <5>1, DroppingSharp DEF Staying
        <5>3. Column("invoices", "invoice_number") \in W
          BY <2>0, <4>3, <5>1, DroppingSharp DEF Staying
        <5>4. QED
          BY <5>2, <5>3 DEF HasColumns
      <4> HIDE DEF W
      <4>5. Stands({NumberIndex}, W)
        BY <4>4, StandsKey DEF NumberIndex
      <4>6. S[k].new = {NumberIndex} /\ S[k].filled = {}
        BY <2>1, <3>1
      <4>7. Supported(S[k], W)
        BY <4>5, <4>6 DEF Supported, Stands
      <4>8. QED
        BY <4>7 DEF W
    <3>2. CASE ~(r = 5 /\ k = 2)
      BY <2>1, <3>2 DEF Supported
    <3>3. QED
      BY <3>1, <3>2
  <2>5. \A g \in S[k].gone : g \in Staying(B, S, k - 1)
    BY <2>1 DEF Staying, Fits
  <2>6. ASSUME NEW o \in B \cup Created(S, k - 1), NEW g \in S[k].gone \cup S[k].removed, Holds(o, g)
        PROVE  o \notin Staying(B, S, k - 1) /\ o \in B
    <3>1. o.kind \in {"reference", "typed"}
      BY <2>6 DEF Holds
    <3>2. o # NumberIndex /\ o \notin Leftovers
      BY <3>1, NumberIndexBorn, LeftoversDated
    <3>3. o \in B
      BY <2>2, <3>2
    <3>4. r \in 0..14
      OBVIOUS
    <3>5. Known(o, r)
      BY <3>2, <3>3, <3>4, FitsKnown
    <3>6. QED
      BY <2>1, <2>6, <3>3, <3>5 DEF Staying
  <2>7. QED
    BY <2>1, <2>3, <2>4, <2>5, <2>6
<1>3. QED
  BY <1>1, <1>2 DEF Removes

\* A downgrade applies wherever a history can lead, and leads to the schema of the
\* revision before.
LEMMA DowngradeFits ==
    ASSUME NEW r \in 1..14, Undone(Downgrades[r], r), NEW d, IsDatabase(d), d.ok, Fits(d.schema, r),
           RowsFit(d), Grounded(d.schema)
    PROVE  /\ Executed(d, Downgrades[r]).ok
           /\ Fits(Executed(d, Downgrades[r]).schema, r - 1)
           /\ RowsFit(Executed(d, Downgrades[r])) /\ Grounded(Executed(d, Downgrades[r]).schema)
<1> DEFINE S == Downgrades[r]
           B == d.schema
           e == Executed(d, S)
<1>0. Len(S) \in Nat /\ Len(S) \in 0..Len(S)
  BY DEF Undone
<1>1. e.ok /\ e.schema = Staying(B, S, Len(S)) \cup Created(S, Len(S))
  BY <1>0, DowngradeRemoves, RemovesApply
<1>2. Created(S, Len(S)) = {g \in {NumberIndex} : r = 5}
  <2>1. Created(S, Len(S)) = {g \in {NumberIndex} : r = 5 /\ Len(S) > 1}
    BY <1>0, UndoneCreates
  <2>2. r = 5 => Len(S) > 1
    BY DEF Undone
  <2>3. QED
    BY <2>1, <2>2
<1>3. RowsFit(e) /\ Grounded(e.schema)
  <2>1. \A k \in 1..Len(S) : \A o \in S[k].ensured : o.kind \notin Attached
    BY DEF Undone
  <2>2. QED
    BY <1>0, <1>1, <2>1, ExecutedKeeps
<1>4. Built(r) = {o \in Built(r - 1) \cup New(r) : r = 5 => o # NumberIndex}
  BY BuiltNext
<1>5. ASSUME NEW o \in Built(r - 1) PROVE o \in e.schema
  <2>1. CASE r = 5 /\ o = NumberIndex
    BY <1>1, <1>2, <2>1
  <2>2. CASE ~(r = 5 /\ o = NumberIndex)
    <3>1. o \in B
      BY <1>4, <1>5, <2>2 DEF Fits
    <3>2. r - 1 \in 0..14
      OBVIOUS
    <3>3. Born(o.on, o.cols) <= r - 1 /\ Born(o.on, o.cols) \in Nat
      BY <1>5, <3>2, BuiltKnown, BornGrows DEF Known
    <3>4. Born(o.on, o.cols) < r
      BY <3>3
    <3>5. o \in Staying(B, S, Len(S))
      BY <1>0, <3>1, <3>4, DroppingSharp DEF Staying
    <3>6. QED
      BY <1>1, <3>5
  <2>3. QED
    BY <2>1, <2>2
<1>6. ASSUME NEW o \in e.schema PROVE o \in Built(r - 1) \cup Leftovers
  <2>1. CASE o = NumberIndex /\ r = 5
    <3>1. /\ 1 \in 1..4 /\ 4 \in 0..14 /\ 2 \in 1..Len(Upgrades[1])
          /\ Upgrades[1][2] = CreateInvoices[2]
      BY Revisions DEF Revision
    <3>2. NumberIndex \in CreateInvoices[2].new
      BY StatementFields DEF Does, CreateInvoices, NumberIndex
    <3>3. NumberIndex \in New(1)
      BY <3>1, <3>2 DEF New, Created
    <3>4. NumberIndex \in Built(4)
      BY <3>1, <3>3 DEF Built
    <3>5. QED
      BY <2>1, <3>4
  <2>2. CASE o \in Staying(B, S, Len(S)) /\ o \notin Leftovers
    <3>1. o \in B /\ \A g \in Dropping(S, Len(S)) : ~FallsWith(o, g)
      BY <2>2 DEF Staying
    <3>2. o \in Built(r - 1) \cup New(r)
      BY <1>4, <2>2, <3>1 DEF Fits
    <3>3. o \notin New(r)
      BY <2>2, <3>1, NewDated DEF Undone
    <3>4. QED
      BY <3>2, <3>3
  <2>3. QED
    BY <1>1, <1>2, <1>6, <2>1, <2>2
<1>7. Type("invoice_status") \in e.schema
  <2>1. Type("invoice_status") \in B
    BY StatusBuilt DEF Fits
  <2>2. Type("invoice_status") \in Staying(B, S, Len(S))
    BY <2>1 DEF Staying, Undone
  <2>3. QED
    BY <1>1, <2>2
<1>8. Fits(e.schema, r - 1)
  BY <1>5, <1>6, <1>7 DEF Fits
<1>9. QED
  BY <1>1, <1>3, <1>8

-----------------------------------------------------------------------------
(* What the downgrades drop.                                               *)

\* What falls with the objects of each kind.
LEMMA Falling ==
    /\ \A t, cols, to, o : FallsWith(o, Object("index", t, cols, to)) => o = Object("index", t, cols, to)
    /\ \A t, cols, o : FallsWith(o, Index(t, cols)) => o = Index(t, cols)
    /\ \A t, cols, o : FallsWith(o, Key(t, cols)) => o = Key(t, cols)
    /\ \A t, c, o : FallsWith(o, Column(t, c)) <=> o.on = t /\ c \in o.cols
    /\ \A t, o : FallsWith(o, Table(t)) <=> o.on = t
    /\ \A n, o : FallsWith(o, Type(n)) <=> o = Type(n) \/ (o.kind = "label" /\ o.on = n)
    /\ \A n, o : FallsWith(o, Extension(n)) <=> o = Extension(n)
<1>1. \A kind, on, cols, to, o :
         FallsWith(o, Object(kind, on, cols, to)) <=>
           \/ o = Object(kind, on, cols, to)
           \/ kind = "table" /\ o.on = on
           \/ kind = "column" /\ o.on = on /\ cols \cap o.cols # {}
           \/ kind = "type" /\ o.kind = "label" /\ o.on = on
  BY Fields DEF FallsWith
<1>2. \A t, cols, to, o : FallsWith(o, Object("index", t, cols, to)) => o = Object("index", t, cols, to)
  BY <1>1
<1>3. \A t, cols, o : FallsWith(o, Index(t, cols)) => o = Index(t, cols)
  BY <1>1 DEF Index
<1>4. \A t, cols, o : FallsWith(o, Key(t, cols)) => o = Key(t, cols)
  BY <1>1 DEF Key
<1>5. ASSUME NEW t, NEW c, NEW o PROVE FallsWith(o, Column(t, c)) <=> o.on = t /\ c \in o.cols
  <2>1. FallsWith(o, Column(t, c)) <=> o = Column(t, c) \/ (o.on = t /\ {c} \cap o.cols # {})
    BY <1>1 DEF Column
  <2>2. Column(t, c).on = t /\ Column(t, c).cols = {c}
    BY Fields DEF Column
  <2>3. QED
    BY <2>1, <2>2
<1>6. ASSUME NEW t, NEW o PROVE FallsWith(o, Table(t)) <=> o.on = t
  <2>1. FallsWith(o, Table(t)) <=> o = Table(t) \/ o.on = t
    BY <1>1 DEF Table
  <2>2. Table(t).on = t
    BY Fields DEF Table
  <2>3. QED
    BY <2>1, <2>2
<1>7. \A n, o : FallsWith(o, Type(n)) <=> o = Type(n) \/ (o.kind = "label" /\ o.on = n)
  BY <1>1 DEF Type
<1>8. \A n, o : FallsWith(o, Extension(n)) <=> o = Extension(n)
  BY <1>1 DEF Extension
<1>9. QED
  BY <1>2, <1>3, <1>4, <1>5, <1>6, <1>7, <1>8

\* Only tables and types can be held.
LEMMA Holding ==
    ASSUME NEW r \in 1..14
    PROVE  /\ \A t, cols, to, o : ~Holds(o, Object("index", t, cols, to))
           /\ \A t, cols, o : ~Holds(o, Index(t, cols)) /\ ~Holds(o, Key(t, cols))
           /\ \A t, c, o : ~Holds(o, Column(t, c))
           /\ \A t \in Tables : \A o : (t = "users" => r < 8) /\ (t = "invoices" => r < 4) /\ Known(o, r)
                => ~Holds(o, Table(t))
           /\ \A o : r < 4 /\ Known(o, r) => ~Holds(o, Extension("vector"))
           /\ \A n \in {"extraction_status", "extraction_method"} : \A o : Known(o, r) /\ Holds(o, Type(n))
                => FallsWith(o, Column("invoice_files", n))
<1>1. \A kind, on, cols, to, o :
         Holds(o, Object(kind, on, cols, to)) <=>
           \/ kind = "table" /\ o.kind = "reference" /\ o.to[1] = on /\ o.on # on
           \/ kind \in {"type", "extension"} /\ o.kind = "typed" /\ o.to[1] = on
  BY Fields DEF Holds
<1>2. \A t, cols, to, o : ~Holds(o, Object("index", t, cols, to))
  BY <1>1
<1>3. \A t, cols, o : ~Holds(o, Index(t, cols)) /\ ~Holds(o, Key(t, cols))
  BY <1>1 DEF Index, Key
<1>4. \A t, c, o : ~Holds(o, Column(t, c))
  BY <1>1 DEF Column
<1>5. ASSUME NEW t \in Tables, NEW o, t = "users" => r < 8, t = "invoices" => r < 4, Known(o, r)
      PROVE  ~Holds(o, Table(t))
  <2>1. SUFFICES ASSUME Holds(o, Table(t)) PROVE FALSE
    OBVIOUS
  <2>2. o.kind = "reference" /\ o.to[1] = t
    BY <1>1, <2>1 DEF Table
  <2>3. Born(o.on, o.cols) \in Nat
    BY BornGrows
  <2>4. QED
    BY <1>5, <2>2, <2>3 DEF Known, Links
<1>6. ASSUME NEW o, r < 4, Known(o, r) PROVE ~Holds(o, Extension("vector"))
  <2>1. SUFFICES ASSUME Holds(o, Extension("vector")) PROVE FALSE
    OBVIOUS
  <2>2. o.kind = "typed" /\ o.to[1] = "vector"
    BY <1>1, <2>1 DEF Extension
  <2>3. QED
    BY <1>6, <2>2 DEF Known, Links
<1>7. ASSUME NEW n \in {"extraction_status", "extraction_method"}, NEW o, Known(o, r), Holds(o, Type(n))
      PROVE  FallsWith(o, Column("invoice_files", n))
  <2>1. o.kind = "typed" /\ o.to[1] = n
    BY <1>1, <1>7 DEF Type
  <2>2. o.on = "invoice_files" /\ n \in o.cols
    BY <1>7, <2>1 DEF Known, Links
  <2>3. QED
    BY <2>2, Falling
<1>8. QED
  BY <1>2, <1>3, <1>4, <1>5, <1>6, <1>7

\* What makes an object sharp.
LEMMA Sharpness ==
    ASSUME NEW r
    PROVE  /\ \A t, cols, to : Born(t, cols) = r => Sharp(Object("index", t, cols, to), r)
           /\ \A t, cols : Born(t, cols) = r => Sharp(Index(t, cols), r) /\ Sharp(Key(t, cols), r)
           /\ \A t, c : Born(t, {c}) = r => Sharp(Column(t, c), r)
           /\ \A t : Born(t, {}) = r => /\ Sharp(Table(t), r) /\ Sharp(Type(t), r)
                                        /\ Sharp(Extension(t), r)
<1>1. \A t, cols, to : Born(t, cols) = r => Sharp(Object("index", t, cols, to), r)
  BY Fields DEF Sharp
<1>2. \A t, cols : Born(t, cols) = r => Sharp(Index(t, cols), r) /\ Sharp(Key(t, cols), r)
  BY Fields DEF Sharp, Index, Key
<1>3. \A t, c : Born(t, {c}) = r => Sharp(Column(t, c), r)
  BY Fields DEF Sharp, Column
<1>4. \A t : Born(t, {}) = r => Sharp(Table(t), r) /\ Sharp(Type(t), r) /\ Sharp(Extension(t), r)
  BY Fields DEF Sharp, Table, Type, Extension
<1>5. QED
  BY <1>1, <1>2, <1>3, <1>4

\* What a revision creates is there when it is through.
LEMMA NewBuilt ==
    ASSUME NEW r \in 1..14, NEW S, NEW n, Revision(r, S, n), NEW j \in 1..n, NEW o \in S[j].new,
           Born(o.on, o.cols) # 1 \/ r < 5
    PROVE  o \in Built(r)
<1>1. o \in New(r)
  BY DEF New, Created, Revision
<1>2. r >= 5 => o # NumberIndex
  BY NumberIndexBorn
<1>3. QED
  BY <1>1, <1>2 DEF Built

\* The k-th statement of a downgrade drops the k-th object, which the statements
\* before it have left alone, and which nothing they have left holds.
Drops(S, r, G, k) ==
    /\ Sharp(G[k], r)
    /\ \A o : Known(o, r) /\ Holds(o, G[k]) => \E j \in 1..(k - 1) : FallsWith(o, G[j])
    /\ \/ S[k] = Drop(G[k]) /\ G[k] \in Built(r) /\ \A j \in 1..(k - 1) : ~FallsWith(G[k], G[j])
       \/ S[k] = DropIfExists(G[k])

\* The statements of a downgrade drop the objects, one by one.
LEMMA UndoneBy ==
    ASSUME NEW r \in 1..14, r # 5, NEW S, NEW n \in Nat, Len(S) = n, NEW G,
           \A k \in 1..n : Drops(S, r, G, k),
           \A o : Known(o, r) /\ Born(o.on, o.cols) = r =>
             o \in Leftovers \/ \E j \in 1..n : FallsWith(o, G[j]),
           r = 1 => \A j \in 1..n : ~FallsWith(Type("invoice_status"), G[j])
    PROVE  Undone(S, r)
<1>1. \A g : /\ Does(Drop(g), {}, {}, {g}, {}, {}, {}) /\ Does(DropIfExists(g), {}, {}, {}, {g}, {}, {})
  BY StatementFields
<1>0. \A k \in 1..n :
         /\ Sharp(G[k], r)
         /\ \A o : Known(o, r) /\ Holds(o, G[k]) => \E j \in 1..(k - 1) : FallsWith(o, G[j])
         /\ \/ S[k] = Drop(G[k]) /\ G[k] \in Built(r) /\ \A j \in 1..(k - 1) : ~FallsWith(G[k], G[j])
            \/ S[k] = DropIfExists(G[k])
  BY DEF Drops
<1>2. ASSUME NEW k \in 1..n
      PROVE  /\ S[k].new = {} /\ S[k].ensured = {} /\ S[k].filled = {} /\ S[k].bare = {}
             /\ S[k].gone \cup S[k].removed = {G[k]}
             /\ S[k].gone # {} => S[k] = Drop(G[k]) /\ S[k].gone = {G[k]}
  <2>1. CASE S[k] = Drop(G[k])
    BY <1>1, <2>1 DEF Does
  <2>2. CASE S[k] = DropIfExists(G[k])
    BY <1>1, <2>2 DEF Does
  <2>3. QED
    BY <1>0, <2>1, <2>2
<1>3. ASSUME NEW k \in 0..n, NEW h PROVE h \in Dropping(S, k) <=> \E j \in 1..k : h = G[j]
  <2>1. \A j \in 1..k : S[j].gone \cup S[j].removed = {G[j]}
    BY <1>2
  <2>2. QED
    BY <2>1 DEF Dropping
<1>4. ASSUME NEW k \in 1..n
      PROVE  /\ S[k].ensured = {} /\ S[k].filled = {} /\ S[k].bare = {}
             /\ S[k].new = {g \in {NumberIndex} : r = 5 /\ k = 2}
             /\ \A g \in S[k].gone \cup S[k].removed :
                  /\ Sharp(g, r)
                  /\ \A o : Known(o, r) /\ Holds(o, g) => \E h \in Dropping(S, k - 1) : FallsWith(o, h)
             /\ \A g \in S[k].gone :
                  g \in Built(r) /\ \A h \in Dropping(S, k - 1) : ~FallsWith(g, h)
  <2>1. k - 1 \in 0..n
    OBVIOUS
  <2>2. \A g \in S[k].gone \cup S[k].removed : g = G[k]
    BY <1>2
  <2>3. ASSUME NEW o, Known(o, r), Holds(o, G[k]) PROVE \E h \in Dropping(S, k - 1) : FallsWith(o, h)
    <3>1. PICK j \in 1..(k - 1) : FallsWith(o, G[j])
      BY <1>0, <2>3
    <3>2. QED
      BY <1>3, <2>1, <3>1
  <2>4. ASSUME NEW g \in S[k].gone
        PROVE  g \in Built(r) /\ \A h \in Dropping(S, k - 1) : ~FallsWith(g, h)
    <3>1. S[k] = Drop(G[k]) /\ g = G[k]
      BY <1>2
    <3>2. \A g1 : Drop(g1) # DropIfExists(g1)
      BY <1>1 DEF Does
    <3>3. G[k] \in Built(r) /\ \A j \in 1..(k - 1) : ~FallsWith(G[k], G[j])
      BY <1>0, <3>1, <3>2
    <3>4. QED
      BY <1>3, <2>1, <3>1, <3>3
  <2>5. S[k].new = {g \in {NumberIndex} : r = 5 /\ k = 2}
    BY <1>2
  <2>6. QED
    BY <1>0, <1>2, <2>2, <2>3, <2>4, <2>5
<1>5. ASSUME NEW o, Known(o, r), Born(o.on, o.cols) = r
      PROVE  o \in Leftovers \/ \E g \in Dropping(S, Len(S)) : FallsWith(o, g)
  BY <1>3, <1>5
<1>6. ASSUME NEW g \in Dropping(S, Len(S)) PROVE ~FallsWith(Type("invoice_status"), g)
  <2>1. PICK j \in 1..n : g = G[j]
    BY <1>3
  <2>2. CASE r = 1
    BY <2>1, <2>2
  <2>3. CASE r # 1
    <3>1. Born(Type("invoice_status").on, Type("invoice_status").cols) = 1
      <4>1. Type("invoice_status").on = "invoice_status" /\ Type("invoice_status").cols = {}
        BY Fields DEF Type
      <4>2. QED
        BY <4>1 DEF Born
    <3>2. Sharp(g, r)
      BY <1>0, <2>1
    <3>3. QED
      BY <2>3, <3>1, <3>2, FallsLater
  <2>4. QED
    BY <2>2, <2>3
<1>7. QED
  BY <1>4, <1>5, <1>6 DEF Undone

\* The objects that belong to no table.
LEMMA OnType ==
    ASSUME NEW o, IsObject(o), Links(o)
    PROVE  /\ o.on = "invoice_status" => \/ o = Type("invoice_status")
                                         \/ \E l \in {"RECEIVED", "PROCESSING", "BOOKED", "ERROR"} :
                                               o = Label("invoice_status", l)
           /\ o.on = "vector" => o = Extension("vector")
           /\ o.on = "pgcrypto" => o = Extension("pgcrypto")
           /\ o.on \in {"extraction_status", "extraction_method"} =>
                \/ o = Type(o.on)
                \/ o.kind = "label" /\ \E l : o = Label(o.on, l) /\ o.cols = {l}
<1>1. o.on \in {"invoice_status", "extraction_status", "extraction_method", "vector", "pgcrypto"}
        => o.on \notin Tables
  BY DEF Tables
<1>2. o.on \in {"invoice_status", "extraction_status", "extraction_method", "vector", "pgcrypto"}
        => o.kind \in {"type", "label", "extension"}
  BY <1>1 DEF IsObject, Kinds
<1>3. \A n, l : Label(n, l).cols = {l}
  BY Fields DEF Label
<1>4. /\ o.kind = "type" => o = Type(o.on)
      /\ o.kind = "extension" => o = Extension(o.on)
      /\ o.kind = "label" => \E l : o = Label(o.on, l)
  BY DEF Links
<1>5. ASSUME o.on = "invoice_status"
      PROVE  \/ o = Type("invoice_status")
             \/ \E l \in {"RECEIVED", "PROCESSING", "BOOKED", "ERROR"} :
                   o = Label("invoice_status", l)
  <2>1. o.kind \in {"type", "label"}
    BY <1>2, <1>5 DEF Links
  <2>2. CASE o.kind = "type"
    BY <1>4, <1>5, <2>2
  <2>3. CASE o.kind = "label"
    BY <1>5, <2>3 DEF Links
  <2>4. QED
    BY <2>1, <2>2, <2>3
<1>6. o.on = "vector" => o = Extension("vector")
  BY <1>2, <1>4 DEF Links
<1>7. o.on = "pgcrypto" => o = Extension("pgcrypto")
  BY <1>2, <1>4 DEF Links
<1>8. ASSUME o.on \in {"extraction_status", "extraction_method"}
      PROVE  \/ o = Type(o.on)
             \/ o.kind = "label" /\ \E l : o = Label(o.on, l) /\ o.cols = {l}
  <2>1. o.kind \in {"type", "label"}
    BY <1>2, <1>8 DEF Links
  <2>2. CASE o.kind = "type"
    BY <1>4, <2>2
  <2>3. CASE o.kind = "label"
    <3>1. PICK l : o = Label(o.on, l)
      BY <1>4, <2>3
    <3>2. o.cols = {l}
      BY <1>3, <3>1
    <3>3. QED
      BY <2>3, <3>1, <3>2
  <2>4. QED
    BY <2>1, <2>2, <2>3
<1>9. QED
  BY <1>5, <1>6, <1>7, <1>8

\* Each downgrade undoes its revision.
LEMMA DropInvoicesUndone == Undone(DropInvoices, 1)
<1> DEFINE g1 == Index("invoices", {"vendor_name"})
           g2 == Index("invoices", {"status"})
           g3 == Index("invoices", {"invoice_number"})
           g4 == Table("invoices")
           G == <<g1, g2, g3, g4>>
<1>1. /\ Len(DropInvoices) = 4 /\ 4 \in Nat
      /\ DropInvoices[1] = Drop(g1)
      /\ DropInvoices[2] = Drop(g2)
      /\ DropInvoices[3] = Drop(g3)
      /\ DropInvoices[4] = Drop(g4)
  BY DEF DropInvoices
<1>2. /\ g1.kind = "index" /\ g1.on = "invoices" /\ g1.cols = {"vendor_name"}
      /\ g2.kind = "index" /\ g2.on = "invoices" /\ g2.cols = {"status"}
      /\ g3.kind = "index" /\ g3.on = "invoices" /\ g3.cols = {"invoice_number"}
      /\ g4.kind = "table" /\ g4.on = "invoices" /\ g4.cols = {}
  BY Fields DEF Index, Table
<1>3. Sharp(g1, 1) /\ Sharp(g2, 1) /\ Sharp(g3, 1) /\ Sharp(g4, 1)
  <2>1. /\ Born("invoices", {"vendor_name"}) = 1
        /\ Born("invoices", {"status"}) = 1
        /\ Born("invoices", {"invoice_number"}) = 1
        /\ Born("invoices", {}) = 1
    BY DEF Born, Changes, Amounts
  <2>2. QED
    BY <2>1, Sharpness
<1>4. /\ \A o : FallsWith(o, g1) => o = g1
      /\ \A o : FallsWith(o, g2) => o = g2
      /\ \A o : FallsWith(o, g3) => o = g3
      /\ \A o : FallsWith(o, g4) <=> o.on = "invoices"
  BY Falling
<1>5. /\ \A o : Known(o, 1) => ~Holds(o, g1)
      /\ \A o : Known(o, 1) => ~Holds(o, g2)
      /\ \A o : Known(o, 1) => ~Holds(o, g3)
      /\ \A o : Known(o, 1) => ~Holds(o, g4)
  BY 1 \in 1..14, Holding DEF Tables
<1>m1. g1 \in CreateInvoices[4].new
  BY StatementFields DEF Does, CreateInvoices
<1>m2. g2 \in CreateInvoices[3].new
  BY StatementFields DEF Does, CreateInvoices
<1>m3. g3 \in CreateInvoices[2].new
  BY StatementFields DEF Does, CreateInvoices
<1>m4. g4 \in CreateInvoices[1].new
  BY InvoiceColumns DEF HasColumns
<1> HIDE DEF g1, g2, g3, g4
<1>6. g1 \in Built(1) /\ g2 \in Built(1) /\ g3 \in Built(1) /\ g4 \in Built(1)
  <2>1. 1 \in 1..14 /\ Revision(1, CreateInvoices, 4) /\ (1 # 1 \/ 1 < 5)
    BY Revisions
  <2>2. QED
    BY <1>3, <1>m1, <1>m2, <1>m3, <1>m4, <2>1, NewBuilt DEF Sharp
<1>d1. Drops(DropInvoices, 1, G, 1)
  BY <1>1, <1>3, <1>5, <1>6 DEF Drops
<1>d2. Drops(DropInvoices, 1, G, 2)
  <2>1. /\ ~FallsWith(g2, g1)
    BY <1>2, <1>4
  <2>2. \A j \in 1..(2 - 1) : ~FallsWith(g2, G[j])
    BY <2>1
  <2>3. QED
    BY <1>1, <1>3, <1>5, <1>6, <2>2 DEF Drops
<1>d3. Drops(DropInvoices, 1, G, 3)
  <2>1. /\ ~FallsWith(g3, g1)
        /\ ~FallsWith(g3, g2)
    BY <1>2, <1>4
  <2>2. \A j \in 1..(3 - 1) : ~FallsWith(g3, G[j])
    BY <2>1
  <2>3. QED
    BY <1>1, <1>3, <1>5, <1>6, <2>2 DEF Drops
<1>d4. Drops(DropInvoices, 1, G, 4)
  <2>1. /\ ~FallsWith(g4, g1)
        /\ ~FallsWith(g4, g2)
        /\ ~FallsWith(g4, g3)
    BY <1>2, <1>4
  <2>2. \A j \in 1..(4 - 1) : ~FallsWith(g4, G[j])
    BY <2>1
  <2>3. QED
    BY <1>1, <1>3, <1>5, <1>6, <2>2 DEF Drops
<1>7. ASSUME NEW o, Known(o, 1), Born(o.on, o.cols) = 1
      PROVE  o \in Leftovers \/ \E j \in 1..4 : FallsWith(o, G[j])
  <2>1. o.on = "invoices" \/ o.on = "invoice_status"
    BY <1>7 DEF Born
  <2>2. CASE o.on = "invoices"
    BY <1>4, <2>2
  <2>3. CASE o.on = "invoice_status"
    BY <1>7, <2>3, OnType DEF Known, Leftovers, Enum
  <2>4. QED
    BY <2>1, <2>2, <2>3
<1>8. \A j \in 1..4 : ~FallsWith(Type("invoice_status"), G[j])
  <2>1. Type("invoice_status").kind = "type" /\ Type("invoice_status").on = "invoice_status"
    BY Fields DEF Type
  <2>2. QED
    BY <1>2, <1>4, <2>1
<1>9. \A k \in 1..4 : Drops(DropInvoices, 1, G, k)
  BY <1>d1, <1>d2, <1>d3, <1>d4
<1> HIDE DEF G
<1>10. QED
  BY <1>1, <1>7, <1>8, <1>9, 1 \in 1..14, 1 # 5, UndoneBy

\* DisableVector undoes its revision.
LEMMA DisableVectorUndone == Undone(DisableVector, 2)
<1> DEFINE g1 == Extension("vector")
           G == <<g1>>
<1>1. /\ Len(DisableVector) = 1 /\ 1 \in Nat
      /\ DisableVector[1] = DropIfExists(g1)
  BY DEF DisableVector
<1>2. /\ g1.kind = "extension" /\ g1.on = "vector" /\ g1.cols = {}
  BY Fields DEF Extension
<1>3. Sharp(g1, 2)
  <2>1. /\ Born("vector", {}) = 2
    BY DEF Born
  <2>2. QED
    BY <2>1, Sharpness
<1>4. /\ \A o : FallsWith(o, g1) <=> o = g1
  BY Falling
<1>5. /\ \A o : Known(o, 2) => ~Holds(o, g1)
  BY 2 \in 1..14, Holding DEF Tables
<1> HIDE DEF g1
<1>d1. Drops(DisableVector, 2, G, 1)
  BY <1>1, <1>3, <1>5 DEF Drops
<1>7. ASSUME NEW o, Known(o, 2), Born(o.on, o.cols) = 2
      PROVE  o \in Leftovers \/ \E j \in 1..1 : FallsWith(o, G[j])
  <2>1. o.on = "vector"
    BY <1>7 DEF Born
  <2>2. o = g1
    BY <1>7, <2>1, OnType DEF Known, g1
  <2>3. FallsWith(o, g1)
    BY <1>4, <2>2
  <2>4. QED
    BY <2>3
<1>8. 2 # 1
  OBVIOUS
<1>9. \A k \in 1..1 : Drops(DisableVector, 2, G, k)
  BY <1>d1
<1> HIDE DEF G
<1>10. QED
  BY <1>1, <1>7, <1>8, <1>9, 2 \in 1..14, 2 # 5, UndoneBy

\* DropAudit undoes its revision.
LEMMA DropAuditUndone == Undone(DropAudit, 3)
<1> DEFINE g1 == Index("llm_audit_entries", {"success"})
           g2 == Index("llm_audit_entries", {"provider_name"})
           g3 == Index("llm_audit_entries", {"operation"})
           g4 == Index("llm_audit_entries", {"model"})
           g5 == Table("llm_audit_entries")
           G == <<g1, g2, g3, g4, g5>>
<1>1. /\ Len(DropAudit) = 5 /\ 5 \in Nat
      /\ DropAudit[1] = Drop(g1)
      /\ DropAudit[2] = Drop(g2)
      /\ DropAudit[3] = Drop(g3)
      /\ DropAudit[4] = Drop(g4)
      /\ DropAudit[5] = Drop(g5)
  BY DEF DropAudit
<1>2. /\ g1.kind = "index" /\ g1.on = "llm_audit_entries" /\ g1.cols = {"success"}
      /\ g2.kind = "index" /\ g2.on = "llm_audit_entries" /\ g2.cols = {"provider_name"}
      /\ g3.kind = "index" /\ g3.on = "llm_audit_entries" /\ g3.cols = {"operation"}
      /\ g4.kind = "index" /\ g4.on = "llm_audit_entries" /\ g4.cols = {"model"}
      /\ g5.kind = "table" /\ g5.on = "llm_audit_entries" /\ g5.cols = {}
  BY Fields DEF Index, Table
<1>3. Sharp(g1, 3) /\ Sharp(g2, 3) /\ Sharp(g3, 3) /\ Sharp(g4, 3) /\ Sharp(g5, 3)
  <2>1. /\ Born("llm_audit_entries", {"success"}) = 3
        /\ Born("llm_audit_entries", {"provider_name"}) = 3
        /\ Born("llm_audit_entries", {"operation"}) = 3
        /\ Born("llm_audit_entries", {"model"}) = 3
        /\ Born("llm_audit_entries", {}) = 3
    BY DEF Born
  <2>2. QED
    BY <2>1, Sharpness
<1>4. /\ \A o : FallsWith(o, g1) => o = g1
      /\ \A o : FallsWith(o, g2) => o = g2
      /\ \A o : FallsWith(o, g3) => o = g3
      /\ \A o : FallsWith(o, g4) => o = g4
      /\ \A o : FallsWith(o, g5) <=> o.on = "llm_audit_entries"
  BY Falling
<1>5. /\ \A o : Known(o, 3) => ~Holds(o, g1)
      /\ \A o : Known(o, 3) => ~Holds(o, g2)
      /\ \A o : Known(o, 3) => ~Holds(o, g3)
      /\ \A o : Known(o, 3) => ~Holds(o, g4)
      /\ \A o : Known(o, 3) => ~Holds(o, g5)
  BY 3 \in 1..14, Holding DEF Tables
<1>m1. g1 \in CreateAudit[2].new
  BY StatementFields DEF Does, CreateAudit
<1>m2. g2 \in CreateAudit[2].new
  BY StatementFields DEF Does, CreateAudit
<1>m3. g3 \in CreateAudit[2].new
  BY StatementFields DEF Does, CreateAudit
<1>m4. g4 \in CreateAudit[2].new
  BY StatementFields DEF Does, CreateAudit
<1>m5. g5 \in CreateAudit[1].new
  BY AuditColumns DEF HasColumns
<1> HIDE DEF g1, g2, g3, g4, g5
<1>6. g1 \in Built(3) /\ g2 \in Built(3) /\ g3 \in Built(3) /\ g4 \in Built(3) /\ g5 \in Built(3)
  <2>1. 3 \in 1..14 /\ Revision(3, CreateAudit, 2) /\ (3 # 1 \/ 3 < 5)
    BY Revisions
  <2>2. QED
    BY <1>3, <1>m1, <1>m2, <1>m3, <1>m4, <1>m5, <2>1, NewBuilt DEF Sharp
<1>d1. Drops(DropAudit, 3, G, 1)
  BY <1>1, <1>3, <1>5, <1>6 DEF Drops
<1>d2. Drops(DropAudit, 3, G, 2)
  <2>1. /\ ~FallsWith(g2, g1)
    BY <1>2, <1>4
  <2>2. \A j \in 1..(2 - 1) : ~FallsWith(g2, G[j])
    BY <2>1
  <2>3. QED
    BY <1>1, <1>3, <1>5, <1>6, <2>2 DEF Drops
<1>d3. Drops(DropAudit, 3, G, 3)
  <2>1. /\ ~FallsWith(g3, g1)
        /\ ~FallsWith(g3, g2)
    BY <1>2, <1>4
  <2>2. \A j \in 1..(3 - 1) : ~FallsWith(g3, G[j])
    BY <2>1
  <2>3. QED
    BY <1>1, <1>3, <1>5, <1>6, <2>2 DEF Drops
<1>d4. Drops(DropAudit, 3, G, 4)
  <2>1. /\ ~FallsWith(g4, g1)
        /\ ~FallsWith(g4, g2)
        /\ ~FallsWith(g4, g3)
    BY <1>2, <1>4
  <2>2. \A j \in 1..(4 - 1) : ~FallsWith(g4, G[j])
    BY <2>1
  <2>3. QED
    BY <1>1, <1>3, <1>5, <1>6, <2>2 DEF Drops
<1>d5. Drops(DropAudit, 3, G, 5)
  <2>1. /\ ~FallsWith(g5, g1)
        /\ ~FallsWith(g5, g2)
        /\ ~FallsWith(g5, g3)
        /\ ~FallsWith(g5, g4)
    BY <1>2, <1>4
  <2>2. \A j \in 1..(5 - 1) : ~FallsWith(g5, G[j])
    BY <2>1
  <2>3. QED
    BY <1>1, <1>3, <1>5, <1>6, <2>2 DEF Drops
<1>7. ASSUME NEW o, Known(o, 3), Born(o.on, o.cols) = 3
      PROVE  o \in Leftovers \/ \E j \in 1..5 : FallsWith(o, G[j])
  <2>1. \/ o.on = "llm_audit_entries"
    BY <1>7 DEF Born
  <2>2. FallsWith(o, g5)
    BY <1>4, <2>1
  <2>3. QED
    BY <2>2
<1>8. 3 # 1
  OBVIOUS
<1>9. \A k \in 1..5 : Drops(DropAudit, 3, G, k)
  BY <1>d1, <1>d2, <1>d3, <1>d4, <1>d5
<1> HIDE DEF G
<1>10. QED
  BY <1>1, <1>7, <1>8, <1>9, 3 \in 1..14, 3 # 5, UndoneBy

\* DropEmbeddings undoes its revision.
LEMMA DropEmbeddingsUndone == Undone(DropEmbeddings, 4)
<1> DEFINE g1 == CosineIndex
           g2 == Index("invoice_embeddings", {"tenant_id", "invoice_id"})
           g3 == Index("invoice_embeddings", {"tenant_id"})
           g4 == Index("invoice_embeddings", {"invoice_id"})
           g5 == Table("invoice_embeddings")
           G == <<g1, g2, g3, g4, g5>>
<1>1. /\ Len(DropEmbeddings) = 5 /\ 5 \in Nat
      /\ DropEmbeddings[1] = DropIfExists(g1)
      /\ DropEmbeddings[2] = Drop(g2)
      /\ DropEmbeddings[3] = Drop(g3)
      /\ DropEmbeddings[4] = Drop(g4)
      /\ DropEmbeddings[5] = Drop(g5)
  BY DEF DropEmbeddings
<1>2. /\ g1.kind = "index" /\ g1.on = "invoice_embeddings" /\ g1.cols = {"embedding"}
      /\ g2.kind = "index" /\ g2.on = "invoice_embeddings" /\ g2.cols = {"tenant_id", "invoice_id"}
      /\ g3.kind = "index" /\ g3.on = "invoice_embeddings" /\ g3.cols = {"tenant_id"}
      /\ g4.kind = "index" /\ g4.on = "invoice_embeddings" /\ g4.cols = {"invoice_id"}
      /\ g5.kind = "table" /\ g5.on = "invoice_embeddings" /\ g5.cols = {}
  BY Fields DEF CosineIndex, Index, Table
<1>3. Sharp(g1, 4) /\ Sharp(g2, 4) /\ Sharp(g3, 4) /\ Sharp(g4, 4) /\ Sharp(g5, 4)
  <2>1. /\ Born("invoice_embeddings", {"embedding"}) = 4
        /\ Born("invoice_embeddings", {"tenant_id", "invoice_id"}) = 4
        /\ Born("invoice_embeddings", {"tenant_id"}) = 4
        /\ Born("invoice_embeddings", {"invoice_id"}) = 4
        /\ Born("invoice_embeddings", {}) = 4
    BY DEF Born
  <2>2. QED
    BY <2>1, Sharpness DEF CosineIndex
<1>4. /\ \A o : FallsWith(o, g1) => o = g1
      /\ \A o : FallsWith(o, g2) => o = g2
      /\ \A o : FallsWith(o, g3) => o = g3
      /\ \A o : FallsWith(o, g4) => o = g4
      /\ \A o : FallsWith(o, g5) <=> o.on = "invoice_embeddings"
  BY Falling DEF CosineIndex
<1>5. /\ \A o : Known(o, 4) => ~Holds(o, g1)
      /\ \A o : Known(o, 4) => ~Holds(o, g2)
      /\ \A o : Known(o, 4) => ~Holds(o, g3)
      /\ \A o : Known(o, 4) => ~Holds(o, g4)
      /\ \A o : Known(o, 4) => ~Holds(o, g5)
  BY 4 \in 1..14, Holding DEF Tables, CosineIndex
<1>m2. g2 \in CreateEmbeddings[2].new
  BY StatementFields DEF Does, CreateEmbeddings
<1>m3. g3 \in CreateEmbeddings[2].new
  BY StatementFields DEF Does, CreateEmbeddings
<1>m4. g4 \in CreateEmbeddings[2].new
  BY StatementFields DEF Does, CreateEmbeddings
<1>m5. g5 \in CreateEmbeddings[1].new
  BY EmbeddingColumns DEF HasColumns
<1> HIDE DEF g1, g2, g3, g4, g5
<1>6. g2 \in Built(4) /\ g3 \in Built(4) /\ g4 \in Built(4) /\ g5 \in Built(4)
  <2>1. 4 \in 1..14 /\ Revision(4, CreateEmbeddings, 3) /\ (4 # 1 \/ 4 < 5)
    BY Revisions
  <2>2. QED
    BY <1>3, <1>m2, <1>m3, <1>m4, <1>m5, <2>1, NewBuilt DEF Sharp
<1>d1. Drops(DropEmbeddings, 4, G, 1)
  BY <1>1, <1>3, <1>5 DEF Drops
<1>d2. Drops(DropEmbeddings, 4, G, 2)
  <2>1. /\ ~FallsWith(g2, g1)
    BY <1>2, <1>4
  <2>2. \A j \in 1..(2 - 1) : ~FallsWith(g2, G[j])
    BY <2>1
  <2>3. QED
    BY <1>1, <1>3, <1>5, <1>6, <2>2 DEF Drops
<1>d3. Drops(DropEmbeddings, 4, G, 3)
  <2>1. /\ ~FallsWith(g3, g1)
        /\ ~FallsWith(g3, g2)
    BY <1>2, <1>4
  <2>2. \A j \in 1..(3 - 1) : ~FallsWith(g3, G[j])
    BY <2>1
  <2>3. QED
    BY <1>1, <1>3, <1>5, <1>6, <2>2 DEF Drops
<1>d4. Drops(DropEmbeddings, 4, G, 4)
  <2>1. /\ ~FallsWith(g4, g1)
        /\ ~FallsWith(g4, g2)
        /\ ~FallsWith(g4, g3)
    BY <1>2, <1>4
  <2>2. \A j \in 1..(4 - 1) : ~FallsWith(g4, G[j])
    BY <2>1
  <2>3. QED
    BY <1>1, <1>3, <1>5, <1>6, <2>2 DEF Drops
<1>d5. Drops(DropEmbeddings, 4, G, 5)
  <2>1. /\ ~FallsWith(g5, g1)
        /\ ~FallsWith(g5, g2)
        /\ ~FallsWith(g5, g3)
        /\ ~FallsWith(g5, g4)
    BY <1>2, <1>4
  <2>2. \A j \in 1..(5 - 1) : ~FallsWith(g5, G[j])
    BY <2>1
  <2>3. QED
    BY <1>1, <1>3, <1>5, <1>6, <2>2 DEF Drops
<1>7. ASSUME NEW o, Known(o, 4), Born(o.on, o.cols) = 4
      PROVE  o \in Leftovers \/ \E j \in 1..5 : FallsWith(o, G[j])
  <2>1. \/ o.on = "invoice_embeddings"
    BY <1>7 DEF Born
  <2>2. FallsWith(o, g5)
    BY <1>4, <2>1
  <2>3. QED
    BY <2>2
<1>8. 4 # 1
  OBVIOUS
<1>9. \A k \in 1..5 : Drops(DropEmbeddings, 4, G, k)
  BY <1>d1, <1>d2, <1>d3, <1>d4, <1>d5
<1> HIDE DEF G
<1>10. QED
  BY <1>1, <1>7, <1>8, <1>9, 4 \in 1..14, 4 # 5, UndoneBy

\* DropTenantOfInvoices undoes its revision.
LEMMA DropTenantOfInvoicesUndone == Undone(DropTenantOfInvoices, 5)
<1> DEFINE S == DropTenantOfInvoices
           key == Key("invoices", {"tenant_id", "invoice_number"})
           column == Column("invoices", "tenant_id")
<1>1. Len(S) = 3 /\ S[1] = Drop(key) /\ S[2] = Create({NumberIndex}) /\ S[3] = Drop(column)
  BY DEF DropTenantOfInvoices, NumberIndex
<1>2. /\ key.kind = "key" /\ key.on = "invoices" /\ key.cols = {"tenant_id", "invoice_number"}
      /\ column.kind = "column" /\ column.on = "invoices" /\ column.cols = {"tenant_id"}
  BY Fields DEF Key, Column
<1>3. Sharp(key, 5) /\ Sharp(column, 5)
  <2>1. Born("invoices", {"tenant_id", "invoice_number"}) = 5 /\ Born("invoices", {"tenant_id"}) = 5
    BY DEF Born, Changes, Amounts
  <2>2. QED
    BY <2>1, Sharpness
<1>4. /\ \A o : FallsWith(o, key) => o = key
      /\ \A o : FallsWith(o, column) <=> o.on = "invoices" /\ "tenant_id" \in o.cols
  BY Falling
<1>5. \A o : ~Holds(o, key) /\ ~Holds(o, column)
  BY 5 \in 1..14, Holding
<1>6. key \in AddTenantToInvoices[3].new /\ column \in AddTenantToInvoices[1].new
  BY StatementFields DEF Does, AddTenantToInvoices, Optional, Needed
<1>7. /\ Does(S[1], {}, {}, {key}, {}, {}, {}) /\ Does(S[3], {}, {}, {column}, {}, {}, {})
      /\ Does(S[2], {NumberIndex}, {}, {}, {}, {}, {})
  <2> HIDE DEF S, key, column
  <2> QED BY <1>1, StatementFields
<1>8. Type("invoice_status").on = "invoice_status"
  BY Fields DEF Type
<1> HIDE DEF S, key, column
<1>9. key \in Built(5) /\ column \in Built(5)
  <2>1. 5 \in 1..14 /\ Revision(5, AddTenantToInvoices, 3) /\ 5 # 1
    BY Revisions
  <2>2. QED
    BY <1>3, <1>6, <2>1, NewBuilt DEF Sharp
<1>10. Dropping(S, 0) = {} /\ Dropping(S, 1) = {key} /\ Dropping(S, 2) = {key}
       /\ Dropping(S, 3) = {key, column}
  <2>1. /\ S[1].gone \cup S[1].removed = {key} /\ S[2].gone \cup S[2].removed = {}
        /\ S[3].gone \cup S[3].removed = {column}
    BY <1>7 DEF Does
  <2>2. /\ Dropping(S, 0) = {}
        /\ Dropping(S, 0 + 1) = Dropping(S, 0) \cup (S[0 + 1].gone \cup S[0 + 1].removed)
        /\ Dropping(S, 1 + 1) = Dropping(S, 1) \cup (S[1 + 1].gone \cup S[1 + 1].removed)
        /\ Dropping(S, 2 + 1) = Dropping(S, 2) \cup (S[2 + 1].gone \cup S[2 + 1].removed)
    BY 0 \in Nat, 1 \in Nat, 2 \in Nat, DroppingNext
  <2>3. 0 + 1 = 1 /\ 1 + 1 = 2 /\ 2 + 1 = 3
    OBVIOUS
  <2>4. QED
    BY <2>1, <2>2, <2>3
<1>11. ASSUME NEW k \in 1..3
       PROVE  /\ S[k].ensured = {} /\ S[k].filled = {} /\ S[k].bare = {}
              /\ S[k].new = {g \in {NumberIndex} : 5 = 5 /\ k = 2}
              /\ \A g \in S[k].gone \cup S[k].removed :
                   /\ Sharp(g, 5)
                   /\ \A o : Known(o, 5) /\ Holds(o, g) => \E h \in Dropping(S, k - 1) : FallsWith(o, h)
              /\ \A g \in S[k].gone :
                   g \in Built(5) /\ \A h \in Dropping(S, k - 1) : ~FallsWith(g, h)
  <2>1. CASE k = 1
    BY <1>3, <1>5, <1>7, <1>9, <1>10, <2>1 DEF Does
  <2>2. CASE k = 2
    BY <1>7, <2>2 DEF Does
  <2>3. CASE k = 3
    BY <1>2, <1>3, <1>4, <1>5, <1>7, <1>9, <1>10, <2>3 DEF Does
  <2>4. QED
    BY <2>1, <2>2, <2>3
<1>12. ASSUME NEW o, Known(o, 5), Born(o.on, o.cols) = 5
       PROVE  \E g \in Dropping(S, Len(S)) : FallsWith(o, g)
  <2>1. o.on = "invoices" /\ "tenant_id" \in o.cols
    BY <1>12 DEF Born
  <2>2. FallsWith(o, column)
    BY <1>4, <2>1
  <2>3. QED
    BY <1>1, <1>10, <2>2
<1>13. \A g \in Dropping(S, Len(S)) : ~FallsWith(Type("invoice_status"), g)
  BY <1>1, <1>2, <1>4, <1>8, <1>10
<1>14. Undone(S, 5)
  BY <1>1, <1>11, <1>12, <1>13 DEF Undone
<1>15. QED
  BY <1>14 DEF S

\* DropTenantOfAudit undoes its revision.
LEMMA DropTenantOfAuditUndone == Undone(DropTenantOfAudit, 6)
<1> DEFINE g1 == Index("llm_audit_entries", {"tenant_id"})
           g2 == Column("llm_audit_entries", "tenant_id")
           G == <<g1, g2>>
<1>1. /\ Len(DropTenantOfAudit) = 2 /\ 2 \in Nat
      /\ DropTenantOfAudit[1] = Drop(g1)
      /\ DropTenantOfAudit[2] = Drop(g2)
  BY DEF DropTenantOfAudit
<1>2. /\ g1.kind = "index" /\ g1.on = "llm_audit_entries" /\ g1.cols = {"tenant_id"}
      /\ g2.kind = "column" /\ g2.on = "llm_audit_entries" /\ g2.cols = {"tenant_id"}
  BY Fields DEF Index, Column
<1>3. Sharp(g1, 6) /\ Sharp(g2, 6)
  <2>1. /\ Born("llm_audit_entries", {"tenant_id"}) = 6
    BY DEF Born
  <2>2. QED
    BY <2>1, Sharpness
<1>4. /\ \A o : FallsWith(o, g1) => o = g1
      /\ \A o : FallsWith(o, g2) <=> o.on = "llm_audit_entries" /\ "tenant_id" \in o.cols
  BY Falling
<1>5. /\ \A o : Known(o, 6) => ~Holds(o, g1)
      /\ \A o : Known(o, 6) => ~Holds(o, g2)
  BY 6 \in 1..14, Holding DEF Tables
<1>m1. g1 \in AddTenantToAudit[4].new
  BY StatementFields DEF Does, AddTenantToAudit
<1>m2. g2 \in AddTenantToAudit[1].new
  BY StatementFields DEF Does, AddTenantToAudit, Optional, Needed
<1> HIDE DEF g1, g2
<1>6. g1 \in Built(6) /\ g2 \in Built(6)
  <2>1. 6 \in 1..14 /\ Revision(6, AddTenantToAudit, 4) /\ (6 # 1 \/ 6 < 5)
    BY Revisions
  <2>2. QED
    BY <1>3, <1>m1, <1>m2, <2>1, NewBuilt DEF Sharp
<1>d1. Drops(DropTenantOfAudit, 6, G, 1)
  BY <1>1, <1>3, <1>5, <1>6 DEF Drops
<1>d2. Drops(DropTenantOfAudit, 6, G, 2)
  <2>1. /\ ~FallsWith(g2, g1)
    BY <1>2, <1>4
  <2>2. \A j \in 1..(2 - 1) : ~FallsWith(g2, G[j])
    BY <2>1
  <2>3. QED
    BY <1>1, <1>3, <1>5, <1>6, <2>2 DEF Drops
<1>7. ASSUME NEW o, Known(o, 6), Born(o.on, o.cols) = 6
      PROVE  o \in Leftovers \/ \E j \in 1..2 : FallsWith(o, G[j])
  <2>1. \/ o.on = "llm_audit_entries" /\ "tenant_id" \in o.cols
    BY <1>7 DEF Born
  <2>2. FallsWith(o, g2)
    BY <1>4, <2>1
  <2>3. QED
    BY <2>2
<1>8. 6 # 1
  OBVIOUS
<1>9. \A k \in 1..2 : Drops(DropTenantOfAudit, 6, G, k)
  BY <1>d1, <1>d2
<1> HIDE DEF G
<1>10. QED
  BY <1>1, <1>7, <1>8, <1>9, 6 \in 1..14, 6 # 5, UndoneBy

\* DropUsers undoes its revision.
LEMMA DropUsersUndone == Undone(DropUsers, 7)
<1> DEFINE g1 == Table("users")
           g2 == Table("tenants")
           G == <<g1, g2>>
<1>1. /\ Len(DropUsers) = 2 /\ 2 \in Nat
      /\ DropUsers[1] = Drop(g1)
      /\ DropUsers[2] = Drop(g2)
  BY DEF DropUsers
<1>2. /\ g1.kind = "table" /\ g1.on = "users" /\ g1.cols = {}
      /\ g2.kind = "table" /\ g2.on = "tenants" /\ g2.cols = {}
  BY Fields DEF Table
<1>3. Sharp(g1, 7) /\ Sharp(g2, 7)
  <2>1. /\ Born("users", {}) = 7
        /\ Born("tenants", {}) = 7
    BY DEF Born, Verifications
  <2>2. QED
    BY <2>1, Sharpness
<1>4. /\ \A o : FallsWith(o, g1) <=> o.on = "users"
      /\ \A o : FallsWith(o, g2) <=> o.on = "tenants"
  BY Falling
<1>5. /\ \A o : Known(o, 7) => ~Holds(o, g1)
      /\ \A o : Known(o, 7) => ~Holds(o, g2)
  BY 7 \in 1..14, Holding DEF Tables
<1>m1. g1 \in CreateUsers[2].new
  BY UserColumns DEF HasColumns
<1>m2. g2 \in CreateUsers[1].new
  BY TenantColumns DEF HasColumns
<1> HIDE DEF g1, g2
<1>6. g1 \in Built(7) /\ g2 \in Built(7)
  <2>1. 7 \in 1..14 /\ Revision(7, CreateUsers, 2) /\ (7 # 1 \/ 7 < 5)
    BY Revisions
  <2>2. QED
    BY <1>3, <1>m1, <1>m2, <2>1, NewBuilt DEF Sharp
<1>d1. Drops(DropUsers, 7, G, 1)
  BY <1>1, <1>3, <1>5, <1>6 DEF Drops
<1>d2. Drops(DropUsers, 7, G, 2)
  <2>1. /\ ~FallsWith(g2, g1)
    BY <1>2, <1>4
  <2>2. \A j \in 1..(2 - 1) : ~FallsWith(g2, G[j])
    BY <2>1
  <2>3. QED
    BY <1>1, <1>3, <1>5, <1>6, <2>2 DEF Drops
<1>7. ASSUME NEW o, Known(o, 7), Born(o.on, o.cols) = 7
      PROVE  o \in Leftovers \/ \E j \in 1..2 : FallsWith(o, G[j])
  <2>1. \/ o.on = "users"
        \/ o.on = "tenants"
    BY <1>7 DEF Born
  <2>2. FallsWith(o, g1) \/ FallsWith(o, g2)
    BY <1>4, <2>1
  <2>3. QED
    BY <2>2
<1>8. 7 # 1
  OBVIOUS
<1>9. \A k \in 1..2 : Drops(DropUsers, 7, G, k)
  BY <1>d1, <1>d2
<1> HIDE DEF G
<1>10. QED
  BY <1>1, <1>7, <1>8, <1>9, 7 \in 1..14, 7 # 5, UndoneBy

\* DropFiles undoes its revision.
LEMMA DropFilesUndone == Undone(DropFiles, 8)
<1> DEFINE g1 == Index("invoice_files", {"tenant_id", "created_at"})
           g2 == Index("invoice_files", {"sha256"})
           g3 == Table("invoice_files")
           G == <<g1, g2, g3>>
<1>1. /\ Len(DropFiles) = 3 /\ 3 \in Nat
      /\ DropFiles[1] = Drop(g1)
      /\ DropFiles[2] = Drop(g2)
      /\ DropFiles[3] = Drop(g3)
  BY DEF DropFiles
<1>2. /\ g1.kind = "index" /\ g1.on = "invoice_files" /\ g1.cols = {"tenant_id", "created_at"}
      /\ g2.kind = "index" /\ g2.on = "invoice_files" /\ g2.cols = {"sha256"}
      /\ g3.kind = "table" /\ g3.on = "invoice_files" /\ g3.cols = {}
  BY Fields DEF Index, Table
<1>3. Sharp(g1, 8) /\ Sharp(g2, 8) /\ Sharp(g3, 8)
  <2>1. /\ Born("invoice_files", {"tenant_id", "created_at"}) = 8
        /\ Born("invoice_files", {"sha256"}) = 8
        /\ Born("invoice_files", {}) = 8
    BY DEF Born, Extractions
  <2>2. QED
    BY <2>1, Sharpness
<1>4. /\ \A o : FallsWith(o, g1) => o = g1
      /\ \A o : FallsWith(o, g2) => o = g2
      /\ \A o : FallsWith(o, g3) <=> o.on = "invoice_files"
  BY Falling
<1>5. /\ \A o : Known(o, 8) => ~Holds(o, g1)
      /\ \A o : Known(o, 8) => ~Holds(o, g2)
      /\ \A o : Known(o, 8) => ~Holds(o, g3)
  BY 8 \in 1..14, Holding DEF Tables
<1>m1. g1 \in CreateFiles[3].new
  BY StatementFields DEF Does, CreateFiles
<1>m2. g2 \in CreateFiles[2].new
  BY StatementFields DEF Does, CreateFiles
<1>m3. g3 \in CreateFiles[1].new
  BY FileColumns DEF HasColumns
<1> HIDE DEF g1, g2, g3
<1>6. g1 \in Built(8) /\ g2 \in Built(8) /\ g3 \in Built(8)
  <2>1. 8 \in 1..14 /\ Revision(8, CreateFiles, 3) /\ (8 # 1 \/ 8 < 5)
    BY Revisions
  <2>2. QED
    BY <1>3, <1>m1, <1>m2, <1>m3, <2>1, NewBuilt DEF Sharp
<1>d1. Drops(DropFiles, 8, G, 1)
  BY <1>1, <1>3, <1>5, <1>6 DEF Drops
<1>d2. Drops(DropFiles, 8, G, 2)
  <2>1. /\ ~FallsWith(g2, g1)
    BY <1>2, <1>4
  <2>2. \A j \in 1..(2 - 1) : ~FallsWith(g2, G[j])
    BY <2>1
  <2>3. QED
    BY <1>1, <1>3, <1>5, <1>6, <2>2 DEF Drops
<1>d3. Drops(DropFiles, 8, G, 3)
  <2>1. /\ ~FallsWith(g3, g1)
        /\ ~FallsWith(g3, g2)
    BY <1>2, <1>4
  <2>2. \A j \in 1..(3 - 1) : ~FallsWith(g3, G[j])
    BY <2>1
  <2>3. QED
    BY <1>1, <1>3, <1>5, <1>6, <2>2 DEF Drops
<1>7. ASSUME NEW o, Known(o, 8), Born(o.on, o.cols) = 8
      PROVE  o \in Leftovers \/ \E j \in 1..3 : FallsWith(o, G[j])
  <2>1. \/ o.on = "invoice_files"
    BY <1>7 DEF Born
  <2>2. FallsWith(o, g3)
    BY <1>4, <2>1
  <2>3. QED
    BY <2>2
<1>8. 8 # 1
  OBVIOUS
<1>9. \A k \in 1..3 : Drops(DropFiles, 8, G, k)
  BY <1>d1, <1>d2, <1>d3
<1> HIDE DEF G
<1>10. QED
  BY <1>1, <1>7, <1>8, <1>9, 8 \in 1..14, 8 # 5, UndoneBy

\* DropExtraction undoes its revision.
LEMMA DropExtractionUndone == Undone(DropExtraction, 9)
<1> DEFINE g1 == Column("invoices", "tax_amount")
           g2 == Column("invoices", "net_amount")
           g3 == Index("invoice_files", {"tenant_id", "extraction_status"})
           g4 == Column("invoice_files", "extraction_attempts")
           g5 == Column("invoice_files", "extracted_at")
           g6 == Column("invoice_files", "extraction_error")
           g7 == Column("invoice_files", "extraction_result")
           g8 == Column("invoice_files", "extraction_status")
           g9 == Type("extraction_status")
           G == <<g1, g2, g3, g4, g5, g6, g7, g8, g9>>
<1>1. /\ Len(DropExtraction) = 9 /\ 9 \in Nat
      /\ DropExtraction[1] = Drop(g1)
      /\ DropExtraction[2] = Drop(g2)
      /\ DropExtraction[3] = Drop(g3)
      /\ DropExtraction[4] = Drop(g4)
      /\ DropExtraction[5] = Drop(g5)
      /\ DropExtraction[6] = Drop(g6)
      /\ DropExtraction[7] = Drop(g7)
      /\ DropExtraction[8] = Drop(g8)
      /\ DropExtraction[9] = DropIfExists(g9)
  BY DEF DropExtraction
<1>2. /\ g1.kind = "column" /\ g1.on = "invoices" /\ g1.cols = {"tax_amount"}
      /\ g2.kind = "column" /\ g2.on = "invoices" /\ g2.cols = {"net_amount"}
      /\ g3.kind = "index" /\ g3.on = "invoice_files" /\ g3.cols = {"tenant_id", "extraction_status"}
      /\ g4.kind = "column" /\ g4.on = "invoice_files" /\ g4.cols = {"extraction_attempts"}
      /\ g5.kind = "column" /\ g5.on = "invoice_files" /\ g5.cols = {"extracted_at"}
      /\ g6.kind = "column" /\ g6.on = "invoice_files" /\ g6.cols = {"extraction_error"}
      /\ g7.kind = "column" /\ g7.on = "invoice_files" /\ g7.cols = {"extraction_result"}
      /\ g8.kind = "column" /\ g8.on = "invoice_files" /\ g8.cols = {"extraction_status"}
      /\ g9.kind = "type" /\ g9.on = "extraction_status" /\ g9.cols = {}
  BY Fields DEF Column, Index, Type
<1>3. /\ Sharp(g1, 9) /\ Sharp(g2, 9) /\ Sharp(g3, 9) /\ Sharp(g4, 9) /\ Sharp(g5, 9)
      /\ Sharp(g6, 9) /\ Sharp(g7, 9) /\ Sharp(g8, 9) /\ Sharp(g9, 9)
  <2>1. /\ Born("invoices", {"tax_amount"}) = 9
        /\ Born("invoices", {"net_amount"}) = 9
        /\ Born("invoice_files", {"tenant_id", "extraction_status"}) = 9
        /\ Born("invoice_files", {"extraction_attempts"}) = 9
        /\ Born("invoice_files", {"extracted_at"}) = 9
        /\ Born("invoice_files", {"extraction_error"}) = 9
        /\ Born("invoice_files", {"extraction_result"}) = 9
        /\ Born("invoice_files", {"extraction_status"}) = 9
        /\ Born("extraction_status", {}) = 9
    BY DEF Born, Changes, Amounts, Extractions
  <2>2. QED
    BY <2>1, Sharpness
<1>4. /\ \A o : FallsWith(o, g1) <=> o.on = "invoices" /\ "tax_amount" \in o.cols
      /\ \A o : FallsWith(o, g2) <=> o.on = "invoices" /\ "net_amount" \in o.cols
      /\ \A o : FallsWith(o, g3) => o = g3
      /\ \A o : FallsWith(o, g4) <=> o.on = "invoice_files" /\ "extraction_attempts" \in o.cols
      /\ \A o : FallsWith(o, g5) <=> o.on = "invoice_files" /\ "extracted_at" \in o.cols
      /\ \A o : FallsWith(o, g6) <=> o.on = "invoice_files" /\ "extraction_error" \in o.cols
      /\ \A o : FallsWith(o, g7) <=> o.on = "invoice_files" /\ "extraction_result" \in o.cols
      /\ \A o : FallsWith(o, g8) <=> o.on = "invoice_files" /\ "extraction_status" \in o.cols
      /\ \A o : FallsWith(o, g9) <=> o = Type("extraction_status") \/ (o.kind = "label" /\ o.on = "extraction_status")
  BY Falling
<1>5. /\ \A o : Known(o, 9) => ~Holds(o, g1)
      /\ \A o : Known(o, 9) => ~Holds(o, g2)
      /\ \A o : Known(o, 9) => ~Holds(o, g3)
      /\ \A o : Known(o, 9) => ~Holds(o, g4)
      /\ \A o : Known(o, 9) => ~Holds(o, g5)
      /\ \A o : Known(o, 9) => ~Holds(o, g6)
      /\ \A o : Known(o, 9) => ~Holds(o, g7)
      /\ \A o : Known(o, 9) => ~Holds(o, g8)
      /\ \A o : Known(o, 9) /\ Holds(o, g9) => FallsWith(o, g8)
  BY 9 \in 1..14, Holding DEF Tables
<1>m1. g1 \in AddExtraction[10].new
  BY StatementFields DEF Does, AddExtraction, Optional, Needed
<1>m2. g2 \in AddExtraction[9].new
  BY StatementFields DEF Does, AddExtraction, Optional, Needed
<1>m3. g3 \in AddExtraction[8].new
  BY StatementFields DEF Does, AddExtraction
<1>m4. g4 \in AddExtraction[7].new
  BY StatementFields DEF Does, AddExtraction, Optional, Needed
<1>m5. g5 \in AddExtraction[6].new
  BY StatementFields DEF Does, AddExtraction, Optional, Needed
<1>m6. g6 \in AddExtraction[5].new
  BY StatementFields DEF Does, AddExtraction, Optional, Needed
<1>m7. g7 \in AddExtraction[4].new
  BY StatementFields DEF Does, AddExtraction, Optional, Needed
<1>m8. g8 \in AddExtraction[2].new
  BY StatementFields DEF Does, AddExtraction, Optional, Needed
<1> HIDE DEF g1, g2, g3, g4, g5, g6, g7, g8, g9
<1>6. /\ g1 \in Built(9) /\ g2 \in Built(9) /\ g3 \in Built(9) /\ g4 \in Built(9)
      /\ g5 \in Built(9) /\ g6 \in Built(9) /\ g7 \in Built(9) /\ g8 \in Built(9)
  <2>1. 9 \in 1..14 /\ Revision(9, AddExtraction, 10) /\ (9 # 1 \/ 9 < 5)
    BY Revisions
  <2>2. QED
    BY <1>3, <1>m1, <1>m2, <1>m3, <1>m4, <1>m5, <1>m6, <1>m7, <1>m8, <2>1, NewBuilt DEF Sharp
<1>d1. Drops(DropExtraction, 9, G, 1)
  BY <1>1, <1>3, <1>5, <1>6 DEF Drops
<1>d2. Drops(DropExtraction, 9, G, 2)
  <2>1. /\ ~FallsWith(g2, g1)
    BY <1>2, <1>4
  <2>2. \A j \in 1..(2 - 1) : ~FallsWith(g2, G[j])
    BY <2>1
  <2>3. QED
    BY <1>1, <1>3, <1>5, <1>6, <2>2 DEF Drops
<1>d3. Drops(DropExtraction, 9, G, 3)
  <2>1. /\ ~FallsWith(g3, g1)
        /\ ~FallsWith(g3, g2)
    BY <1>2, <1>4
  <2>2. \A j \in 1..(3 - 1) : ~FallsWith(g3, G[j])
    BY <2>1
  <2>3. QED
    BY <1>1, <1>3, <1>5, <1>6, <2>2 DEF Drops
<1>d4. Drops(DropExtraction, 9, G, 4)
  <2>1. /\ ~FallsWith(g4, g1)
        /\ ~FallsWith(g4, g2)
        /\ ~FallsWith(g4, g3)
    BY <1>2, <1>4
  <2>2. \A j \in 1..(4 - 1) : ~FallsWith(g4, G[j])
    BY <2>1
  <2>3. QED
    BY <1>1, <1>3, <1>5, <1>6, <2>2 DEF Drops
<1>d5. Drops(DropExtraction, 9, G, 5)
  <2>1. /\ ~FallsWith(g5, g1)
        /\ ~FallsWith(g5, g2)
        /\ ~FallsWith(g5, g3)
        /\ ~FallsWith(g5, g4)
    BY <1>2, <1>4
  <2>2. \A j \in 1..(5 - 1) : ~FallsWith(g5, G[j])
    BY <2>1
  <2>3. QED
    BY <1>1, <1>3, <1>5, <1>6, <2>2 DEF Drops
<1>d6. Drops(DropExtraction, 9, G, 6)
  <2>1. /\ ~FallsWith(g6, g1)
        /\ ~FallsWith(g6, g2)
        /\ ~FallsWith(g6, g3)
        /\ ~FallsWith(g6, g4)
        /\ ~FallsWith(g6, g5)
    BY <1>2, <1>4
  <2>2. \A j \in 1..(6 - 1) : ~FallsWith(g6, G[j])
    BY <2>1
  <2>3. QED
    BY <1>1, <1>3, <1>5, <1>6, <2>2 DEF Drops
<1>d7. Drops(DropExtraction, 9, G, 7)
  <2>1. /\ ~FallsWith(g7, g1)
        /\ ~FallsWith(g7, g2)
        /\ ~FallsWith(g7, g3)
        /\ ~FallsWith(g7, g4)
        /\ ~FallsWith(g7, g5)
        /\ ~FallsWith(g7, g6)
    BY <1>2, <1>4
  <2>2. \A j \in 1..(7 - 1) : ~FallsWith(g7, G[j])
    BY <2>1
  <2>3. QED
    BY <1>1, <1>3, <1>5, <1>6, <2>2 DEF Drops
<1>d8. Drops(DropExtraction, 9, G, 8)
  <2>1. /\ ~FallsWith(g8, g1)
        /\ ~FallsWith(g8, g2)
        /\ ~FallsWith(g8, g3)
        /\ ~FallsWith(g8, g4)
        /\ ~FallsWith(g8, g5)
        /\ ~FallsWith(g8, g6)
        /\ ~FallsWith(g8, g7)
    BY <1>2, <1>4
  <2>2. \A j \in 1..(8 - 1) : ~FallsWith(g8, G[j])
    BY <2>1
  <2>3. QED
    BY <1>1, <1>3, <1>5, <1>6, <2>2 DEF Drops
<1>d9. Drops(DropExtraction, 9, G, 9)
  <2>1. 8 \in 1..(9 - 1) /\ G[8] = g8 /\ G[9] = g9
    OBVIOUS
  <2> HIDE DEF G
  <2>2. QED
    BY <1>1, <1>3, <1>5, <2>1 DEF Drops
<1>7. ASSUME NEW o, Known(o, 9), Born(o.on, o.cols) = 9
      PROVE  o \in Leftovers \/ \E j \in 1..9 : FallsWith(o, G[j])
  <2>1. \/ o.on = "invoices" /\ "tax_amount" \in o.cols
        \/ o.on = "invoices" /\ "net_amount" \in o.cols
        \/ o.on = "invoice_files" /\ "extraction_attempts" \in o.cols
        \/ o.on = "invoice_files" /\ "extracted_at" \in o.cols
        \/ o.on = "invoice_files" /\ "extraction_error" \in o.cols
        \/ o.on = "invoice_files" /\ "extraction_result" \in o.cols
        \/ o.on = "invoice_files" /\ "extraction_status" \in o.cols
        \/ o.on = "extraction_status"
    BY <1>7 DEF Born, Amounts, Extractions
  <2>2. CASE o.on = "extraction_status"
    <3>1. FallsWith(o, g9)
      BY <1>4, <1>7, <2>2, OnType DEF Known
    <3>2. QED
      BY <3>1
  <2>3. CASE o.on # "extraction_status"
    <3>1. \/ FallsWith(o, g1) \/ FallsWith(o, g2) \/ FallsWith(o, g4) \/ FallsWith(o, g5)
          \/ FallsWith(o, g6) \/ FallsWith(o, g7) \/ FallsWith(o, g8)
      BY <1>4, <2>1, <2>3
    <3>2. QED
      BY <3>1
  <2>4. QED
    BY <2>2, <2>3
<1>8. 9 # 1
  OBVIOUS
<1>9. \A k \in 1..9 : Drops(DropExtraction, 9, G, k)
  BY <1>d1, <1>d2, <1>d3, <1>d4, <1>d5, <1>d6, <1>d7, <1>d8, <1>d9
<1> HIDE DEF G
<1>10. QED
  BY <1>1, <1>7, <1>8, <1>9, 9 \in 1..14, 9 # 5, UndoneBy

\* DropVerification undoes its revision.
LEMMA DropVerificationUndone == Undone(DropVerification, 10)
<1> DEFINE g1 == Index("users", {"email_verification_token_hash"})
           g2 == Column("users", "email_verification_sent_at")
           g3 == Column("users", "email_verification_expires_at")
           g4 == Column("users", "email_verification_token_hash")
           g5 == Column("users", "email_verified_at")
           G == <<g1, g2, g3, g4, g5>>
<1>1. /\ Len(DropVerification) = 5 /\ 5 \in Nat
      /\ DropVerification[1] = Drop(g1)
      /\ DropVerification[2] = Drop(g2)
      /\ DropVerification[3] = Drop(g3)
      /\ DropVerification[4] = Drop(g4)
      /\ DropVerification[5] = Drop(g5)
  BY DEF DropVerification
<1>2. /\ g1.kind = "index" /\ g1.on = "users" /\ g1.cols = {"email_verification_token_hash"}
      /\ g2.kind = "column" /\ g2.on = "users" /\ g2.cols = {"email_verification_sent_at"}
      /\ g3.kind = "column" /\ g3.on = "users" /\ g3.cols = {"email_verification_expires_at"}
      /\ g4.kind = "column" /\ g4.on = "users" /\ g4.cols = {"email_verification_token_hash"}
      /\ g5.kind = "column" /\ g5.on = "users" /\ g5.cols = {"email_verified_at"}
  BY Fields DEF Index, Column
<1>3. Sharp(g1, 10) /\ Sharp(g2, 10) /\ Sharp(g3, 10) /\ Sharp(g4, 10) /\ Sharp(g5, 10)
  <2>1. /\ Born("users", {"email_verification_token_hash"}) = 10
        /\ Born("users", {"email_verification_sent_at"}) = 10
        /\ Born("users", {"email_verification_expires_at"}) = 10
        /\ Born("users", {"email_verified_at"}) = 10
    BY DEF Born, Verifications
  <2>2. QED
    BY <2>1, Sharpness
<1>4. /\ \A o : FallsWith(o, g1) => o = g1
      /\ \A o : FallsWith(o, g2) <=> o.on = "users" /\ "email_verification_sent_at" \in o.cols
      /\ \A o : FallsWith(o, g3) <=> o.on = "users" /\ "email_verification_expires_at" \in o.cols
      /\ \A o : FallsWith(o, g4) <=> o.on = "users" /\ "email_verification_token_hash" \in o.cols
      /\ \A o : FallsWith(o, g5) <=> o.on = "users" /\ "email_verified_at" \in o.cols
  BY Falling
<1>5. /\ \A o : Known(o, 10) => ~Holds(o, g1)
      /\ \A o : Known(o, 10) => ~Holds(o, g2)
      /\ \A o : Known(o, 10) => ~Holds(o, g3)
      /\ \A o : Known(o, 10) => ~Holds(o, g4)
      /\ \A o : Known(o, 10) => ~Holds(o, g5)
  BY 10 \in 1..14, Holding DEF Tables
<1>m1. g1 \in AddVerification[5].new
  BY StatementFields DEF Does, AddVerification
<1>m2. g2 \in AddVerification[4].new
  BY StatementFields DEF Does, AddVerification, Optional, Needed
<1>m3. g3 \in AddVerification[3].new
  BY StatementFields DEF Does, AddVerification, Optional, Needed
<1>m4. g4 \in AddVerification[2].new
  BY StatementFields DEF Does, AddVerification, Optional, Needed
<1>m5. g5 \in AddVerification[1].new
  BY StatementFields DEF Does, AddVerification, Optional, Needed
<1> HIDE DEF g1, g2, g3, g4, g5
<1>6. /\ g1 \in Built(10) /\ g2 \in Built(10) /\ g3 \in Built(10) /\ g4 \in Built(10)
      /\ g5 \in Built(10)
  <2>1. 10 \in 1..14 /\ Revision(10, AddVerification, 6) /\ (10 # 1 \/ 10 < 5)
    BY Revisions
  <2>2. QED
    BY <1>3, <1>m1, <1>m2, <1>m3, <1>m4, <1>m5, <2>1, NewBuilt DEF Sharp
<1>d1. Drops(DropVerification, 10, G, 1)
  BY <1>1, <1>3, <1>5, <1>6 DEF Drops
<1>d2. Drops(DropVerification, 10, G, 2)
  <2>1. /\ ~FallsWith(g2, g1)
    BY <1>2, <1>4
  <2>2. \A j \in 1..(2 - 1) : ~FallsWith(g2, G[j])
    BY <2>1
  <2>3. QED
    BY <1>1, <1>3, <1>5, <1>6, <2>2 DEF Drops
<1>d3. Drops(DropVerification, 10, G, 3)
  <2>1. /\ ~FallsWith(g3, g1)
        /\ ~FallsWith(g3, g2)
    BY <1>2, <1>4
  <2>2. \A j \in 1..(3 - 1) : ~FallsWith(g3, G[j])
    BY <2>1
  <2>3. QED
    BY <1>1, <1>3, <1>5, <1>6, <2>2 DEF Drops
<1>d4. Drops(DropVerification, 10, G, 4)
  <2>1. /\ ~FallsWith(g4, g1)
        /\ ~FallsWith(g4, g2)
        /\ ~FallsWith(g4, g3)
    BY <1>2, <1>4
  <2>2. \A j \in 1..(4 - 1) : ~FallsWith(g4, G[j])
    BY <2>1
  <2>3. QED
    BY <1>1, <1>3, <1>5, <1>6, <2>2 DEF Drops
<1>d5. Drops(DropVerification, 10, G, 5)
  <2>1. /\ ~FallsWith(g5, g1)
        /\ ~FallsWith(g5, g2)
        /\ ~FallsWith(g5, g3)
        /\ ~FallsWith(g5, g4)
    BY <1>2, <1>4
  <2>2. \A j \in 1..(5 - 1) : ~FallsWith(g5, G[j])
    BY <2>1
  <2>3. QED
    BY <1>1, <1>3, <1>5, <1>6, <2>2 DEF Drops
<1>7. ASSUME NEW o, Known(o, 10), Born(o.on, o.cols) = 10
      PROVE  o \in Leftovers \/ \E j \in 1..5 : FallsWith(o, G[j])
  <2>1. \/ o.on = "users" /\ "email_verification_sent_at" \in o.cols
        \/ o.on = "users" /\ "email_verification_expires_at" \in o.cols
        \/ o.on = "users" /\ "email_verification_token_hash" \in o.cols
        \/ o.on = "users" /\ "email_verified_at" \in o.cols
    BY <1>7 DEF Born, Verifications
  <2>2. FallsWith(o, g2) \/ FallsWith(o, g3) \/ FallsWith(o, g4) \/ FallsWith(o, g5)
    BY <1>4, <2>1
  <2>3. QED
    BY <2>2
<1>8. 10 # 1
  OBVIOUS
<1>9. \A k \in 1..5 : Drops(DropVerification, 10, G, k)
  BY <1>d1, <1>d2, <1>d3, <1>d4, <1>d5
<1> HIDE DEF G
<1>10. QED
  BY <1>1, <1>7, <1>8, <1>9, 10 \in 1..14, 10 # 5, UndoneBy

\* DropEdits undoes its revision.
LEMMA DropEditsUndone == Undone(DropEdits, 11)
<1> DEFINE g1 == Index("invoice_edits", {"tenant_id", "invoice_id"})
           g2 == Table("invoice_edits")
           g3 == Column("invoices", "line_items")
           g4 == Column("invoices", "reviewed_by_user_id")
           g5 == Column("invoices", "reviewed_at")
           g6 == Column("invoices", "is_reviewed")
           g7 == Column("invoices", "version")
           G == <<g1, g2, g3, g4, g5, g6, g7>>
<1>1. /\ Len(DropEdits) = 7 /\ 7 \in Nat
      /\ DropEdits[1] = Drop(g1)
      /\ DropEdits[2] = Drop(g2)
      /\ DropEdits[3] = Drop(g3)
      /\ DropEdits[4] = Drop(g4)
      /\ DropEdits[5] = Drop(g5)
      /\ DropEdits[6] = Drop(g6)
      /\ DropEdits[7] = Drop(g7)
  BY DEF DropEdits
<1>2. /\ g1.kind = "index" /\ g1.on = "invoice_edits" /\ g1.cols = {"tenant_id", "invoice_id"}
      /\ g2.kind = "table" /\ g2.on = "invoice_edits" /\ g2.cols = {}
      /\ g3.kind = "column" /\ g3.on = "invoices" /\ g3.cols = {"line_items"}
      /\ g4.kind = "column" /\ g4.on = "invoices" /\ g4.cols = {"reviewed_by_user_id"}
      /\ g5.kind = "column" /\ g5.on = "invoices" /\ g5.cols = {"reviewed_at"}
      /\ g6.kind = "column" /\ g6.on = "invoices" /\ g6.cols = {"is_reviewed"}
      /\ g7.kind = "column" /\ g7.on = "invoices" /\ g7.cols = {"version"}
  BY Fields DEF Index, Table, Column
<1>3. /\ Sharp(g1, 11) /\ Sharp(g2, 11) /\ Sharp(g3, 11) /\ Sharp(g4, 11) /\ Sharp(g5, 11)
      /\ Sharp(g6, 11) /\ Sharp(g7, 11)
  <2>1. /\ Born("invoice_edits", {"tenant_id", "invoice_id"}) = 11
        /\ Born("invoice_edits", {}) = 11
        /\ Born("invoices", {"line_items"}) = 11
        /\ Born("invoices", {"reviewed_by_user_id"}) = 11
        /\ Born("invoices", {"reviewed_at"}) = 11
        /\ Born("invoices", {"is_reviewed"}) = 11
        /\ Born("invoices", {"version"}) = 11
    BY DEF Born, Changes, Amounts
  <2>2. QED
    BY <2>1, Sharpness
<1>4. /\ \A o : FallsWith(o, g1) => o = g1
      /\ \A o : FallsWith(o, g2) <=> o.on = "invoice_edits"
      /\ \A o : FallsWith(o, g3) <=> o.on = "invoices" /\ "line_items" \in o.cols
      /\ \A o : FallsWith(o, g4) <=> o.on = "invoices" /\ "reviewed_by_user_id" \in o.cols
      /\ \A o : FallsWith(o, g5) <=> o.on = "invoices" /\ "reviewed_at" \in o.cols
      /\ \A o : FallsWith(o, g6) <=> o.on = "invoices" /\ "is_reviewed" \in o.cols
      /\ \A o : FallsWith(o, g7) <=> o.on = "invoices" /\ "version" \in o.cols
  BY Falling
<1>5. /\ \A o : Known(o, 11) => ~Holds(o, g1)
      /\ \A o : Known(o, 11) => ~Holds(o, g2)
      /\ \A o : Known(o, 11) => ~Holds(o, g3)
      /\ \A o : Known(o, 11) => ~Holds(o, g4)
      /\ \A o : Known(o, 11) => ~Holds(o, g5)
      /\ \A o : Known(o, 11) => ~Holds(o, g6)
      /\ \A o : Known(o, 11) => ~Holds(o, g7)
  BY 11 \in 1..14, Holding DEF Tables
<1>m1. g1 \in AddEdits[10].new
  BY StatementFields DEF Does, AddEdits
<1>m2. g2 \in AddEdits[9].new
  BY EditColumns DEF HasColumns
<1>m3. g3 \in AddEdits[6].new
  BY StatementFields DEF Does, AddEdits, Optional, Needed
<1>m4. g4 \in AddEdits[4].new
  BY StatementFields DEF Does, AddEdits, Optional, Needed
<1>m5. g5 \in AddEdits[3].new
  BY StatementFields DEF Does, AddEdits, Optional, Needed
<1>m6. g6 \in AddEdits[2].new
  BY StatementFields DEF Does, AddEdits, Optional, Needed
<1>m7. g7 \in AddEdits[1].new
  BY StatementFields DEF Does, AddEdits, Optional, Needed
<1> HIDE DEF g1, g2, g3, g4, g5, g6, g7
<1>6. /\ g1 \in Built(11) /\ g2 \in Built(11) /\ g3 \in Built(11) /\ g4 \in Built(11)
      /\ g5 \in Built(11) /\ g6 \in Built(11) /\ g7 \in Built(11)
  <2>1. 11 \in 1..14 /\ Revision(11, AddEdits, 10) /\ (11 # 1 \/ 11 < 5)
    BY Revisions
  <2>2. QED
    BY <1>3, <1>m1, <1>m2, <1>m3, <1>m4, <1>m5, <1>m6, <1>m7, <2>1, NewBuilt DEF Sharp
<1>d1. Drops(DropEdits, 11, G, 1)
  BY <1>1, <1>3, <1>5, <1>6 DEF Drops
<1>d2. Drops(DropEdits, 11, G, 2)
  <2>1. /\ ~FallsWith(g2, g1)
    BY <1>2, <1>4
  <2>2. \A j \in 1..(2 - 1) : ~FallsWith(g2, G[j])
    BY <2>1
  <2>3. QED
    BY <1>1, <1>3, <1>5, <1>6, <2>2 DEF Drops
<1>d3. Drops(DropEdits, 11, G, 3)
  <2>1. /\ ~FallsWith(g3, g1)
        /\ ~FallsWith(g3, g2)
    BY <1>2, <1>4
  <2>2. \A j \in 1..(3 - 1) : ~FallsWith(g3, G[j])
    BY <2>1
  <2>3. QED
    BY <1>1, <1>3, <1>5, <1>6, <2>2 DEF Drops
<1>d4. Drops(DropEdits, 11, G, 4)
  <2>1. /\ ~FallsWith(g4, g1)
        /\ ~FallsWith(g4, g2)
        /\ ~FallsWith(g4, g3)
    BY <1>2, <1>4
  <2>2. \A j \in 1..(4 - 1) : ~FallsWith(g4, G[j])
    BY <2>1
  <2>3. QED
    BY <1>1, <1>3, <1>5, <1>6, <2>2 DEF Drops
<1>d5. Drops(DropEdits, 11, G, 5)
  <2>1. /\ ~FallsWith(g5, g1)
        /\ ~FallsWith(g5, g2)
        /\ ~FallsWith(g5, g3)
        /\ ~FallsWith(g5, g4)
    BY <1>2, <1>4
  <2>2. \A j \in 1..(5 - 1) : ~FallsWith(g5, G[j])
    BY <2>1
  <2>3. QED
    BY <1>1, <1>3, <1>5, <1>6, <2>2 DEF Drops
<1>d6. Drops(DropEdits, 11, G, 6)
  <2>1. /\ ~FallsWith(g6, g1)
        /\ ~FallsWith(g6, g2)
        /\ ~FallsWith(g6, g3)
        /\ ~FallsWith(g6, g4)
        /\ ~FallsWith(g6, g5)
    BY <1>2, <1>4
  <2>2. \A j \in 1..(6 - 1) : ~FallsWith(g6, G[j])
    BY <2>1
  <2>3. QED
    BY <1>1, <1>3, <1>5, <1>6, <2>2 DEF Drops
<1>d7. Drops(DropEdits, 11, G, 7)
  <2>1. /\ ~FallsWith(g7, g1)
        /\ ~FallsWith(g7, g2)
        /\ ~FallsWith(g7, g3)
        /\ ~FallsWith(g7, g4)
        /\ ~FallsWith(g7, g5)
        /\ ~FallsWith(g7, g6)
    BY <1>2, <1>4
  <2>2. \A j \in 1..(7 - 1) : ~FallsWith(g7, G[j])
    BY <2>1
  <2>3. QED
    BY <1>1, <1>3, <1>5, <1>6, <2>2 DEF Drops
<1>7. ASSUME NEW o, Known(o, 11), Born(o.on, o.cols) = 11
      PROVE  o \in Leftovers \/ \E j \in 1..7 : FallsWith(o, G[j])
  <2>1. \/ o.on = "invoice_edits"
        \/ o.on = "invoices" /\ "line_items" \in o.cols
        \/ o.on = "invoices" /\ "reviewed_by_user_id" \in o.cols
        \/ o.on = "invoices" /\ "reviewed_at" \in o.cols
        \/ o.on = "invoices" /\ "is_reviewed" \in o.cols
        \/ o.on = "invoices" /\ "version" \in o.cols
    BY <1>7 DEF Born, Changes
  <2>2. \/ FallsWith(o, g2) \/ FallsWith(o, g3) \/ FallsWith(o, g4) \/ FallsWith(o, g5)
        \/ FallsWith(o, g6) \/ FallsWith(o, g7)
    BY <1>4, <2>1
  <2>3. QED
    BY <2>2
<1>8. 11 # 1
  OBVIOUS
<1>9. \A k \in 1..7 : Drops(DropEdits, 11, G, k)
  BY <1>d1, <1>d2, <1>d3, <1>d4, <1>d5, <1>d6, <1>d7
<1> HIDE DEF G
<1>10. QED
  BY <1>1, <1>7, <1>8, <1>9, 11 \in 1..14, 11 # 5, UndoneBy

\* DropMappings undoes its revision.
LEMMA DropMappingsUndone == Undone(DropMappings, 12)
<1> DEFINE g1 == Index("vendor_account_mappings", {"tenant_id", "last_used_at"})
           g2 == Table("vendor_account_mappings")
           G == <<g1, g2>>
<1>1. /\ Len(DropMappings) = 2 /\ 2 \in Nat
      /\ DropMappings[1] = Drop(g1)
      /\ DropMappings[2] = Drop(g2)
  BY DEF DropMappings
<1>2. /\ g1.kind = "index" /\ g1.on = "vendor_account_mappings" /\ g1.cols = {"tenant_id", "last_used_at"}
      /\ g2.kind = "table" /\ g2.on = "vendor_account_mappings" /\ g2.cols = {}
  BY Fields DEF Index, Table
<1>3. Sharp(g1, 12) /\ Sharp(g2, 12)
  <2>1. /\ Born("vendor_account_mappings", {"tenant_id", "last_used_at"}) = 12
        /\ Born("vendor_account_mappings", {}) = 12
    BY DEF Born
  <2>2. QED
    BY <2>1, Sharpness
<1>4. /\ \A o : FallsWith(o, g1) => o = g1
      /\ \A o : FallsWith(o, g2) <=> o.on = "vendor_account_mappings"
  BY Falling
<1>5. /\ \A o : Known(o, 12) => ~Holds(o, g1)
      /\ \A o : Known(o, 12) => ~Holds(o, g2)
  BY 12 \in 1..14, Holding DEF Tables
<1>m1. g1 \in CreateMappings[3].new
  BY StatementFields DEF Does, CreateMappings
<1>m2. g2 \in CreateMappings[2].new
  BY MappingColumns DEF HasColumns
<1> HIDE DEF g1, g2
<1>6. g1 \in Built(12) /\ g2 \in Built(12)
  <2>1. 12 \in 1..14 /\ Revision(12, CreateMappings, 3) /\ (12 # 1 \/ 12 < 5)
    BY Revisions
  <2>2. QED
    BY <1>3, <1>m1, <1>m2, <2>1, NewBuilt DEF Sharp
<1>d1. Drops(DropMappings, 12, G, 1)
  BY <1>1, <1>3, <1>5, <1>6 DEF Drops
<1>d2. Drops(DropMappings, 12, G, 2)
  <2>1. /\ ~FallsWith(g2, g1)
    BY <1>2, <1>4
  <2>2. \A j \in 1..(2 - 1) : ~FallsWith(g2, G[j])
    BY <2>1
  <2>3. QED
    BY <1>1, <1>3, <1>5, <1>6, <2>2 DEF Drops
<1>7. ASSUME NEW o, Known(o, 12), Born(o.on, o.cols) = 12
      PROVE  o \in Leftovers \/ \E j \in 1..2 : FallsWith(o, G[j])
  <2>1. o.on = "vendor_account_mappings" \/ o.on = "pgcrypto"
    BY <1>7 DEF Born
  <2>2. CASE o.on = "vendor_account_mappings"
    BY <1>4, <2>2
  <2>3. CASE o.on = "pgcrypto"
    BY <1>7, <2>3, OnType DEF Known, Leftovers
  <2>4. QED
    BY <2>1, <2>2, <2>3
<1>8. 12 # 1
  OBVIOUS
<1>9. \A k \in 1..2 : Drops(DropMappings, 12, G, k)
  BY <1>d1, <1>d2
<1> HIDE DEF G
<1>10. QED
  BY <1>1, <1>7, <1>8, <1>9, 12 \in 1..14, 12 # 5, UndoneBy

\* DropMethod undoes its revision.
LEMMA DropMethodUndone == Undone(DropMethod, 13)
<1> DEFINE g1 == Column("invoice_files", "extraction_method")
           g2 == Type("extraction_method")
           G == <<g1, g2>>
<1>1. /\ Len(DropMethod) = 2 /\ 2 \in Nat
      /\ DropMethod[1] = Drop(g1)
      /\ DropMethod[2] = DropIfExists(g2)
  BY DEF DropMethod
<1>2. /\ g1.kind = "column" /\ g1.on = "invoice_files" /\ g1.cols = {"extraction_method"}
      /\ g2.kind = "type" /\ g2.on = "extraction_method" /\ g2.cols = {}
  BY Fields DEF Column, Type
<1>3. Sharp(g1, 13) /\ Sharp(g2, 13)
  <2>1. /\ Born("invoice_files", {"extraction_method"}) = 13
        /\ Born("extraction_method", {}) = 13
    BY DEF Born
  <2>2. QED
    BY <2>1, Sharpness
<1>4. /\ \A o : FallsWith(o, g1) <=> o.on = "invoice_files" /\ "extraction_method" \in o.cols
      /\ \A o : FallsWith(o, g2) <=> o = Type("extraction_method") \/ (o.kind = "label" /\ o.on = "extraction_method")
  BY Falling
<1>5. /\ \A o : Known(o, 13) => ~Holds(o, g1)
      /\ \A o : Known(o, 13) /\ Holds(o, g2) => FallsWith(o, g1)
  BY 13 \in 1..14, Holding DEF Tables
<1>m1. g1 \in AddMethod[2].new
  BY StatementFields DEF Does, AddMethod, Optional, Needed
<1> HIDE DEF g1, g2
<1>6. g1 \in Built(13)
  <2>1. 13 \in 1..14 /\ Revision(13, AddMethod, 3) /\ (13 # 1 \/ 13 < 5)
    BY Revisions
  <2>2. QED
    BY <1>3, <1>m1, <2>1, NewBuilt DEF Sharp
<1>d1. Drops(DropMethod, 13, G, 1)
  BY <1>1, <1>3, <1>5, <1>6 DEF Drops
<1>d2. Drops(DropMethod, 13, G, 2)
  <2>1. 1 \in 1..(2 - 1) /\ G[1] = g1 /\ G[2] = g2
    OBVIOUS
  <2> HIDE DEF G
  <2>2. QED
    BY <1>1, <1>3, <1>5, <2>1 DEF Drops
<1>7. ASSUME NEW o, Known(o, 13), Born(o.on, o.cols) = 13
      PROVE  o \in Leftovers \/ \E j \in 1..2 : FallsWith(o, G[j])
  <2>1. \/ o.on = "invoice_files" /\ "extraction_method" \in o.cols
        \/ o.on = "extraction_method"
    BY <1>7 DEF Born
  <2>2. CASE o.on = "invoice_files" /\ "extraction_method" \in o.cols
    BY <1>4, <2>2
  <2>3. CASE o.on = "extraction_method"
    <3>1. FallsWith(o, g2)
      BY <1>4, <1>7, <2>3, OnType DEF Known
    <3>2. QED
      BY <3>1
  <2>4. QED
    BY <2>1, <2>2, <2>3
<1>8. 13 # 1
  OBVIOUS
<1>9. \A k \in 1..2 : Drops(DropMethod, 13, G, k)
  BY <1>d1, <1>d2
<1> HIDE DEF G
<1>10. QED
  BY <1>1, <1>7, <1>8, <1>9, 13 \in 1..14, 13 # 5, UndoneBy

\* KeepNotAnInvoice undoes its revision.
LEMMA KeepNotAnInvoiceUndone == Undone(KeepNotAnInvoice, 14)
<1>1. Len(KeepNotAnInvoice) = 0 /\ 0 \in Nat
  BY DEF KeepNotAnInvoice
<1>2. ASSUME NEW o, Known(o, 14), Born(o.on, o.cols) = 14 PROVE o \in Leftovers
  <2>1. o.on = "extraction_status" /\ "not_an_invoice" \in o.cols
    BY <1>2 DEF Born
  <2>2. Type(o.on).cols = {}
    BY Fields DEF Type
  <2>3. PICK l : o = Label(o.on, l) /\ o.cols = {l}
    BY <1>2, <2>1, <2>2, OnType DEF Known
  <2>4. QED
    BY <2>1, <2>3 DEF Leftovers
<1>3. \A k \in 1..0 : Drops(KeepNotAnInvoice, 14, <<>>, k)
  OBVIOUS
<1>4. QED
  BY <1>1, <1>2, <1>3, 14 \in 1..14, UndoneBy

\* Every downgrade undoes its revision.
LEMMA AllUndone ==
    ASSUME NEW r \in 1..14
    PROVE  Undone(Downgrades[r], r)
<1>1. Downgrades[1] = DropInvoices
  BY DEF Downgrades
<1>2. Downgrades[2] = DisableVector
  BY DEF Downgrades
<1>3. Downgrades[3] = DropAudit
  BY DEF Downgrades
<1>4. Downgrades[4] = DropEmbeddings
  BY DEF Downgrades
<1>5. Downgrades[5] = DropTenantOfInvoices
  BY DEF Downgrades
<1>6. Downgrades[6] = DropTenantOfAudit
  BY DEF Downgrades
<1>7. Downgrades[7] = DropUsers
  BY DEF Downgrades
<1>8. Downgrades[8] = DropFiles
  BY DEF Downgrades
<1>9. Downgrades[9] = DropExtraction
  BY DEF Downgrades
<1>10. Downgrades[10] = DropVerification
  BY DEF Downgrades
<1>11. Downgrades[11] = DropEdits
  BY DEF Downgrades
<1>12. Downgrades[12] = DropMappings
  BY DEF Downgrades
<1>13. Downgrades[13] = DropMethod
  BY DEF Downgrades
<1>14. Downgrades[14] = KeepNotAnInvoice
  BY DEF Downgrades
<1>15. QED
  BY <1>1, <1>2, <1>3, <1>4, <1>5, <1>6, <1>7, <1>8, <1>9, <1>10, <1>11, <1>12, <1>13, <1>14,
     DropInvoicesUndone, DisableVectorUndone, DropAuditUndone, DropEmbeddingsUndone,
        DropTenantOfInvoicesUndone, DropTenantOfAuditUndone, DropUsersUndone, DropFilesUndone,
        DropExtractionUndone, DropVerificationUndone, DropEditsUndone, DropMappingsUndone,
        DropMethodUndone, KeepNotAnInvoiceUndone

-----------------------------------------------------------------------------
(* Histories of commands.                                                  *)

\* A database that is at a revision.
Sound(d) ==
    /\ IsDatabase(d) /\ d.ok = TRUE /\ d.rev \in 0..14
    /\ Fits(d.schema, d.rev)
    /\ RowsFit(d) /\ Grounded(d.schema)

\* Rows that keep their values.
Kept(old, new) == \A t \in Tables : \A r \in old[t] : \E s \in new[t] : r \subseteq s

\* The users that can log in.
Verified(rows) == \A r \in rows["users"] : "email_verified_at" \in r

\* What the running command has made of the committed database: a command moves in
\* one direction, and what it has not changed is as it was.
Running ==
    /\ target = NoRun => work = db
    /\ target # NoRun => \/ db.rev <= work.rev /\ work.rev <= target
                         \/ target <= work.rev /\ work.rev <= db.rev
    /\ db.rev = work.rev => work = db
    /\ db.rev <= work.rev => Kept(db.rows, work.rows)
    /\ db.rev < 10 /\ work.rev >= 10 => Verified(work.rows)

IInv ==
    /\ Sound(db) /\ Sound(work)
    /\ target \in {NoRun} \cup 0..14
    /\ inserts \in 0..MaxInserts
    /\ Running

\* Setting the revision leaves the rest of a database.
LEMMA SetRevision ==
    ASSUME NEW d, IsDatabase(d), NEW n
    PROVE  /\ IsDatabase([d EXCEPT !.rev = n])
           /\ [d EXCEPT !.rev = n].schema = d.schema /\ [d EXCEPT !.rev = n].rows = d.rows
           /\ [d EXCEPT !.rev = n].ok = d.ok /\ [d EXCEPT !.rev = n].rev = n
BY DEF IsDatabase

\* One revision up, when it applies.
LEMMA UpgradedSound ==
    ASSUME NEW d, Sound(d), d.rev < 14
    PROVE  LET r == d.rev + 1
               e == Executed(d, Upgrades[r])
           IN  /\ r \in 1..14
               /\ Upgraded(d).ok = e.ok /\ Upgraded(d).rev = r /\ Upgraded(d).rows = e.rows
               /\ \/ Upgraded(d).ok
                  \/ r = 5 /\ d.rows["invoices"] # {}
                  \/ r = 1 /\ Type("invoice_status") \in d.schema
               /\ Upgraded(d).ok => /\ Sound(Upgraded(d))
                                    /\ Grew(d.rows, Upgraded(d).rows)
                                    /\ \A j \in 1..Len(Upgrades[r]) :
                                         Filled(Upgraded(d).rows, Upgrades[r][j].filled)
<1> DEFINE r == d.rev + 1
           e == Executed(d, Upgrades[r])
<1>1. /\ r \in 1..14 /\ r - 1 = d.rev /\ IsDatabase(d) /\ d.ok /\ Fits(d.schema, r - 1)
      /\ RowsFit(d) /\ Grounded(d.schema)
  BY DEF Sound
<1>2. IsDatabase(e) /\ e.rev = d.rev
  BY <1>1, History, Through
<1>3. Upgraded(d) = [e EXCEPT !.rev = r]
  <2>1. Upgraded(d) = [e EXCEPT !.rev = @ + 1]
    BY DEF Upgraded
  <2>2. QED
    BY <1>2, <2>1
<1> HIDE DEF e, r
<1>4. /\ IsDatabase(Upgraded(d)) /\ Upgraded(d).schema = e.schema /\ Upgraded(d).rows = e.rows
      /\ Upgraded(d).ok = e.ok /\ Upgraded(d).rev = r
  BY <1>2, <1>3, SetRevision
<1>5. \/ e.ok
      \/ r = 5 /\ d.rows["invoices"] # {}
      \/ r = 1 /\ Type("invoice_status") \in d.schema
  BY <1>1, UpgradeFits DEF e
<1>6. ASSUME e.ok
      PROVE  /\ Fits(e.schema, r) /\ RowsFit(e) /\ Grounded(e.schema)
             /\ Grew(d.rows, e.rows)
             /\ \A j \in 1..Len(Upgrades[r]) : Filled(e.rows, Upgrades[r][j].filled)
  <2>1. /\ r = 1 => Type("invoice_status") \notin d.schema
        /\ r = 5 => d.rows["invoices"] = {}
        /\ RowsFit(e) /\ Grounded(e.schema)
    BY <1>1, <1>6, UpgradeNeeds DEF e
  <2>2. QED
    BY <1>1, <2>1, UpgradeFits DEF e
<1>7. ASSUME e.ok PROVE Sound(Upgraded(d))
  <2>1. RowsFit(Upgraded(d))
    BY <1>4, <1>6, <1>7 DEF RowsFit
  <2>2. r \in 0..14 /\ Upgraded(d).ok = TRUE
    BY <1>1, <1>2, <1>4, <1>7 DEF IsDatabase
  <2>3. QED
    BY <1>4, <1>6, <1>7, <2>1, <2>2 DEF Sound
<1>8. QED
  BY <1>1, <1>4, <1>5, <1>6, <1>7 DEF e, r

\* One revision down.
LEMMA DowngradedSound ==
    ASSUME NEW d, Sound(d), d.rev > 0
    PROVE  Sound(Downgraded(d)) /\ Downgraded(d).rev = d.rev - 1 /\ Downgraded(d).ok
<1> DEFINE r == d.rev
           e == Executed(d, Downgrades[r])
<1>1. /\ r \in 1..14 /\ IsDatabase(d) /\ d.ok /\ Fits(d.schema, r)
      /\ RowsFit(d) /\ Grounded(d.schema)
  BY DEF Sound
<1>2. Undone(Downgrades[r], r) /\ Len(Downgrades[r]) \in Nat
  BY <1>1, AllUndone DEF Undone
<1>3. IsDatabase(e) /\ e.rev = d.rev
  BY <1>1, <1>2, Through
<1>4. e.ok /\ Fits(e.schema, r - 1) /\ RowsFit(e) /\ Grounded(e.schema)
  BY <1>1, <1>2, DowngradeFits
<1>5. Downgraded(d) = [e EXCEPT !.rev = r - 1]
  <2>1. Downgraded(d) = [e EXCEPT !.rev = @ - 1]
    BY DEF Downgraded
  <2>2. QED
    BY <1>3, <2>1
<1> HIDE DEF e
<1>6. /\ IsDatabase(Downgraded(d)) /\ Downgraded(d).schema = e.schema /\ Downgraded(d).rows = e.rows
      /\ Downgraded(d).ok = e.ok /\ Downgraded(d).rev = r - 1
  BY <1>3, <1>5, SetRevision
<1>7. RowsFit(Downgraded(d))
  BY <1>4, <1>6 DEF RowsFit
<1>8. r - 1 \in 0..14 /\ Downgraded(d).ok = TRUE
  BY <1>1, <1>3, <1>4, <1>6 DEF IsDatabase
<1>9. QED
  BY <1>4, <1>6, <1>7, <1>8 DEF Sound

\* A row comes into a table.
Grown(old, new, t, row) ==
    new[t] = old[t] \cup {row} /\ \A u \in Tables : u # t => new[u] = old[u]
Inserted(d, t, row, e) == e = [d EXCEPT !.rows[t] = @ \cup {row}]

\* Inserting a row into a table that has its columns leaves a database sound.
LEMMA InsertSound ==
    ASSUME NEW d, Sound(d), NEW t \in Tables, NEW row, row \subseteq Names(d.schema, "column", t),
           NEW e, Inserted(d, t, row, e)
    PROVE  /\ Sound(e) /\ e.rev = d.rev
           /\ Grown(d.rows, e.rows, t, row)
<1> DEFINE rows == [d.rows EXCEPT ![t] = @ \cup {row}]
<1>1. d.rows = [u \in Tables |-> d.rows[u]] /\ IsDatabase(d)
  BY DEF Sound, IsDatabase
<1>2. /\ rows = [u \in Tables |-> rows[u]]
      /\ \A u \in Tables : rows[u] = IF u = t THEN d.rows[u] \cup {row} ELSE d.rows[u]
  BY <1>1
<1>3. e = [d EXCEPT !.rows = rows]
  BY DEF Inserted
<1> HIDE DEF rows
<1>4. /\ IsDatabase(e) /\ e.schema = d.schema /\ e.rows = rows /\ e.rev = d.rev /\ e.ok = d.ok
  BY <1>1, <1>2, <1>3 DEF IsDatabase
<1>5. RowsFit(e)
  BY <1>2, <1>4 DEF RowsFit, Sound
<1>6. Sound(e)
  BY <1>4, <1>5 DEF Sound
<1>7. Grown(d.rows, e.rows, t, row)
  BY <1>2, <1>4 DEF Grown
<1>8. QED
  BY <1>4, <1>6, <1>7

\* The empty database is sound.
LEMMA EmptySound == Sound(Empty) /\ Empty.rev = 0
<1>1. /\ IsDatabase(Empty) /\ Empty.ok = TRUE /\ Empty.rev = 0 /\ Empty.schema = {}
      /\ \A t \in Tables : Empty.rows[t] = {}
  BY DEF Empty, IsDatabase
<1>2. Fits({}, 0)
  BY BuiltNext DEF Fits
<1>3. RowsFit(Empty) /\ Grounded({})
  BY <1>1 DEF RowsFit, Grounded
<1>4. QED
  BY <1>1, <1>2, <1>3 DEF Sound

-----------------------------------------------------------------------------
(* The inductive invariant.                                                *)

\* The invariant holds initially.
LEMMA InitHolds == Init => IInv
<1>1. SUFFICES ASSUME Init PROVE IInv
  OBVIOUS
<1>2. db = Empty /\ work = Empty /\ target = NoRun /\ inserts = 0
  BY <1>1 DEF Init
<1>3. Kept(Empty.rows, Empty.rows)
  BY DEF Kept
<1>4. 0 \in 0..MaxInserts
  BY MigrationsAssumption
<1>5. QED
  BY <1>2, <1>3, <1>4, EmptySound DEF IInv, Running

\* The column that upgrades to the tenth revision fill.
LEMMA VerificationFilled ==
    /\ 6 \in 1..Len(Upgrades[10])
    /\ Upgrades[10][6].filled = {<<"users", "email_verified_at">>}
    /\ Column("users", "email_verified_at") \in New(10)
    /\ Born("users", {"email_verified_at"}) = 10
<1>1. Upgrades[10] = AddVerification /\ Len(Upgrades[10]) = 6
  BY Revisions DEF Revision
<1>2. AddVerification[6] = Update("users", "email_verified_at")
  BY DEF AddVerification
<1>3. AddVerification[1] = AddColumn("users", "email_verified_at")
  BY DEF AddVerification
<1>4. /\ Update("users", "email_verified_at").filled = {<<"users", "email_verified_at">>}
      /\ AddColumn("users", "email_verified_at").new = {Column("users", "email_verified_at")}
  BY StatementFields DEF Does, Optional
<1>5. Column("users", "email_verified_at") \in New(10)
  BY <1>1, <1>3, <1>4 DEF New, Created
<1>6. Born("users", {"email_verified_at"}) = 10
  BY DEF Born, Verifications
<1>7. QED
  BY <1>1, <1>2, <1>4, <1>5, <1>6

\* The column on which logging in depends is there from the tenth revision on.
LEMMA VerificationColumn ==
    ASSUME NEW d, Sound(d)
    PROVE  Column("users", "email_verified_at") \in d.schema <=> d.rev >= 10
<1> DEFINE o == Column("users", "email_verified_at")
<1>1. o.kind = "column" /\ o.on = "users" /\ o.cols = {"email_verified_at"}
  BY Fields DEF Column
<1>2. o \in New(10) /\ Born(o.on, o.cols) = 10
  BY <1>1, VerificationFilled
<1> HIDE DEF o
<1>3. ASSUME d.rev >= 10 PROVE o \in d.schema
  <2>1. 10 \in 1..d.rev /\ Fits(d.schema, d.rev)
    BY <1>3 DEF Sound
  <2>2. o # NumberIndex
    BY <1>1, NumberIndexBorn
  <2>3. QED
    BY <1>2, <2>1, <2>2 DEF Fits, Built
<1>4. ASSUME o \in d.schema PROVE d.rev >= 10
  <2>1. o \notin Leftovers
    BY <1>1, LeftoversDated
  <2>2. Known(o, d.rev) /\ d.rev \in 0..14
    BY <1>4, <2>1, FitsKnown DEF Sound
  <2>3. 10 <= d.rev
    BY <1>2, <2>2 DEF Known
  <2>4. QED
    BY <2>2, <2>3
<1>5. QED
  BY <1>3, <1>4 DEF o

\* Upgrading keeps the invariant.
LEMMA UpgradeStep ==
    ASSUME IInv, Upgrade
    PROVE  IInv'
<1> DEFINE r == work.rev + 1
<1>1. /\ work.rev < target /\ Upgraded(work).ok /\ work' = Upgraded(work)
      /\ db' = db /\ target' = target /\ inserts' = inserts
  BY DEF Upgrade
<1>2. Sound(db) /\ Sound(work) /\ target \in {NoRun} \cup 0..14 /\ Running
  BY DEF IInv
<1>3. db.rev \in 0..14 /\ work.rev \in 0..14
  BY <1>2 DEF Sound
<1>4. target # NoRun /\ target \in 0..14
  BY <1>1, <1>2, <1>3 DEF NoRun
<1>5. db.rev <= work.rev /\ work.rev < 14 /\ r \in 1..14 /\ r <= target
  BY <1>1, <1>2, <1>3, <1>4 DEF Running
<1>6. /\ Sound(work') /\ work'.rev = r /\ Grew(work.rows, work'.rows)
      /\ \A j \in 1..Len(Upgrades[r]) : Filled(work'.rows, Upgrades[r][j].filled)
  BY <1>1, <1>2, <1>5, UpgradedSound
<1>7. Kept(db.rows, work'.rows)
  <2>1. Kept(db.rows, work.rows)
    BY <1>2, <1>5 DEF Running
  <2>2. ASSUME NEW t \in Tables, NEW x \in db.rows[t] PROVE \E y \in work'.rows[t] : x \subseteq y
    <3>1. PICK z \in work.rows[t] : x \subseteq z
      BY <2>1 DEF Kept
    <3>2. PICK y \in work'.rows[t] : z \subseteq y
      BY <1>6, <3>1 DEF Grew
    <3>3. QED
      BY <3>1, <3>2
  <2>3. QED
    BY <2>2 DEF Kept
<1>8. ASSUME db.rev < 10, work'.rev >= 10 PROVE Verified(work'.rows)
  <2>1. CASE work.rev >= 10
    <3>1. Verified(work.rows)
      BY <1>2, <1>8, <2>1 DEF Running
    <3>2. ASSUME NEW y \in work'.rows["users"] PROVE "email_verified_at" \in y
      <4>1. PICK x \in work.rows["users"] : x \subseteq y
        BY <1>6 DEF Grew, Tables
      <4>2. QED
        BY <3>1, <4>1 DEF Verified
    <3>3. QED
      BY <3>2 DEF Verified
  <2>2. CASE work.rev < 10
    <3>1. r = 10
      <4>1. work'.rev = work.rev + 1
        BY <1>6
      <4>2. QED
        BY <1>3, <1>8, <2>2, <4>1
    <3>2. Filled(work'.rows, {<<"users", "email_verified_at">>})
      BY <1>6, <3>1, VerificationFilled
    <3>3. QED
      BY <3>2 DEF Filled, Verified, Tables
  <2>3. QED
    BY <1>3, <2>1, <2>2
<1>9. Running'
  <2>1. work'.rev = work.rev + 1
    BY <1>6
  <2>2. db.rev <= work'.rev /\ work'.rev <= target /\ db.rev # work'.rev
    BY <1>3, <1>4, <1>5, <2>1
  <2>3. QED
    BY <1>1, <1>4, <1>7, <1>8, <2>2 DEF Running
<1>10. QED
  BY <1>1, <1>2, <1>6, <1>9 DEF IInv

\* Downgrading keeps the invariant.
LEMMA DowngradeStep ==
    ASSUME IInv, Downgrade
    PROVE  IInv'
<1>1. /\ target # NoRun /\ target < work.rev /\ work' = Downgraded(work)
      /\ db' = db /\ target' = target /\ inserts' = inserts
  BY DEF Downgrade
<1>2. Sound(db) /\ Sound(work) /\ target \in {NoRun} \cup 0..14 /\ Running
  BY DEF IInv
<1>3. db.rev \in 0..14 /\ work.rev \in 0..14 /\ target \in 0..14
  BY <1>1, <1>2 DEF Sound
<1>4. work.rev <= db.rev /\ work.rev > 0
  BY <1>1, <1>2, <1>3 DEF Running
<1>5. Sound(work') /\ work'.rev = work.rev - 1
  BY <1>1, <1>2, <1>4, DowngradedSound
<1>6. Running'
  <2>1. target <= work'.rev /\ work'.rev < db.rev
    BY <1>1, <1>3, <1>4, <1>5
  <2>2. ~(db.rev <= work'.rev) /\ db.rev # work'.rev /\ ~(db.rev < 10 /\ work'.rev >= 10)
        /\ work'.rev <= db.rev
    BY <1>3, <1>5, <2>1
  <2>3. QED
    BY <1>1, <2>1, <2>2 DEF Running
<1>7. QED
  BY <1>1, <1>2, <1>5, <1>6 DEF IInv

\* Starting, committing and rolling back a command keep the invariant.
LEMMA CommandStep ==
    ASSUME IInv, (\E to \in 0..Latest : Begin(to)) \/ CommitWithin \/ Finish \/ Abort
    PROVE  IInv'
<1>1. /\ Sound(db) /\ Sound(work) /\ target \in {NoRun} \cup 0..14 /\ Running
      /\ inserts \in 0..MaxInserts
  BY DEF IInv
<1>2. db.rev \in 0..14 /\ work.rev \in 0..14
  BY <1>1 DEF Sound
<1>3. \A rows : Kept(rows, rows)
  BY DEF Kept
<1>4. ASSUME NEW to \in 0..Latest, Begin(to) PROVE IInv'
  <2>1. work' = db /\ db' = db /\ target' = to /\ inserts' = inserts /\ to \in 0..14
    BY <1>4 DEF Begin, Latest
  <2>2. Running'
    BY <1>2, <1>3, <2>1 DEF Running, NoRun
  <2>3. QED
    BY <1>1, <2>1, <2>2 DEF IInv
<1>5. CASE CommitWithin
  <2>1. work' = work /\ db' = work /\ target' = 14 /\ inserts' = inserts /\ work.rev = 13
    BY <1>5 DEF CommitWithin, Latest
  <2>2. Running'
    BY <1>2, <1>3, <2>1 DEF Running, NoRun
  <2>3. QED
    BY <1>1, <2>1, <2>2 DEF IInv
<1>6. CASE Finish
  <2>1. work' = work /\ db' = work /\ target' = NoRun /\ inserts' = inserts
    BY <1>6 DEF Finish
  <2>2. Running'
    BY <1>2, <1>3, <2>1 DEF Running
  <2>3. QED
    BY <1>1, <2>1, <2>2 DEF IInv
<1>7. CASE Abort
  <2>1. work' = db /\ db' = db /\ target' = NoRun /\ inserts' = inserts
    BY <1>7 DEF Abort
  <2>2. Running'
    BY <1>2, <1>3, <2>1 DEF Running
  <2>3. QED
    BY <1>1, <2>1, <2>2 DEF IInv
<1>8. QED
  BY <1>4, <1>5, <1>6, <1>7

\* A row fits its table in both databases, and the running command has not
\* touched the table.
LEMMA InsertStep ==
    ASSUME IInv, NEW t \in Used, NEW kind \in {"column", "not_null"}, Insert(t, kind)
    PROVE  IInv'
<1>0. PICK row : row = Names(db.schema, kind, t)
  OBVIOUS
<1>1. /\ inserts < MaxInserts
      /\ target # NoRun => t \notin Locked
      /\ db' = [db EXCEPT !.rows[t] = @ \cup {row}]
      /\ work' = [work EXCEPT !.rows[t] = @ \cup {row}]
      /\ inserts' = inserts + 1 /\ target' = target
  BY <1>0 DEF Insert
<1>2. /\ Sound(db) /\ Sound(work) /\ target \in {NoRun} \cup 0..14 /\ Running
      /\ inserts \in 0..MaxInserts /\ t \in Tables
  BY MigrationsAssumption DEF IInv
<1>3. db.rev \in 0..14 /\ work.rev \in 0..14
  BY <1>2 DEF Sound
<1>4. row \subseteq Names(db.schema, "column", t)
  <2>1. CASE kind = "column"
    BY <1>0, <2>1
  <2>2. CASE kind = "not_null"
    <3>1. ASSUME NEW c \in row PROVE c \in Names(db.schema, "column", t)
      <4>1. PICK o \in db.schema : o.kind = "not_null" /\ o.on = t /\ c \in o.cols
        BY <1>0, <2>2, <3>1 DEF Names
      <4>2. Column(t, c) \in db.schema
        BY <1>2, <4>1 DEF Sound, Grounded, Attached
      <4>3. Column(t, c).kind = "column" /\ Column(t, c).on = t /\ Column(t, c).cols = {c}
        BY Fields DEF Column
      <4>4. QED
        BY <4>2, <4>3 DEF Names
    <3>2. QED
      BY <3>1
  <2>3. QED
    BY <2>1, <2>2
<1>5. \A o : o.on = t => (o \in db.schema <=> o \in work.schema)
  <2>1. CASE target = NoRun
    BY <1>2, <2>1 DEF Running
  <2>2. CASE target # NoRun
    BY <1>1, <2>2 DEF Locked
  <2>3. QED
    BY <2>1, <2>2
<1>6. row \subseteq Names(work.schema, "column", t)
  BY <1>4, <1>5 DEF Names
<1>7. /\ Sound(db') /\ db'.rev = db.rev /\ Grown(db.rows, db'.rows, t, row)
  <2>1. Inserted(db, t, row, db')
    BY <1>1 DEF Inserted
  <2>2. QED
    BY <1>2, <1>4, <2>1, InsertSound
<1>8. /\ Sound(work') /\ work'.rev = work.rev /\ Grown(work.rows, work'.rows, t, row)
  <2>1. Inserted(work, t, row, work')
    BY <1>1 DEF Inserted
  <2>2. QED
    BY <1>2, <1>6, <2>1, InsertSound
<1>9. ASSUME db.rev < 10, work.rev >= 10 PROVE Verified(work'.rows)
  <2>1. Column("users", "email_verified_at").on = "users"
    BY Fields DEF Column
  <2>2. t # "users"
    BY <1>2, <1>3, <1>5, <1>9, <2>1, VerificationColumn
  <2>3. Verified(work.rows)
    BY <1>2, <1>9 DEF Running
  <2>4. QED
    BY <1>8, <2>2, <2>3 DEF Verified, Tables, Grown
<1>10. ASSUME Kept(db.rows, work.rows) PROVE Kept(db'.rows, work'.rows)
  <2>1. ASSUME NEW u \in Tables, NEW x \in db'.rows[u] PROVE \E y \in work'.rows[u] : x \subseteq y
    <3>1. CASE x \in db.rows[u]
      BY <1>8, <1>10, <3>1 DEF Kept, Grown
    <3>2. CASE x \notin db.rows[u]
      <4>1. u = t /\ x = row
        BY <1>7, <2>1, <3>2 DEF Grown
      <4>2. row \in work'.rows[u]
        BY <1>8, <4>1 DEF Grown
      <4>3. QED
        BY <4>1, <4>2
    <3>3. QED
      BY <3>1, <3>2
  <2>2. QED
    BY <2>1 DEF Kept
<1>11. Running'
  <2>1. work = db => work' = db'
    BY <1>1
  <2>2. QED
    BY <1>1, <1>2, <1>7, <1>8, <1>9, <1>10, <2>1 DEF Running
<1>12. inserts' \in 0..MaxInserts
  <2>1. inserts \in Nat /\ inserts < MaxInserts /\ MaxInserts \in Nat
    BY <1>1, <1>2, MigrationsAssumption
  <2>2. inserts + 1 \in 0..MaxInserts
    BY <2>1
  <2>3. QED
    BY <1>1, <2>2
<1>13. QED
  BY <1>1, <1>2, <1>7, <1>8, <1>11, <1>12 DEF IInv

\* Every step keeps the invariant.
LEMMA StepHolds == IInv /\ [Next]_vars => IInv'
<1>1. SUFFICES ASSUME IInv, [Next]_vars PROVE IInv'
  OBVIOUS
<1>2. CASE UNCHANGED vars
  BY <1>1, <1>2 DEF vars, IInv, Running
<1>3. CASE (\E to \in 0..Latest : Begin(to)) \/ CommitWithin \/ Finish \/ Abort
  BY <1>1, <1>3, CommandStep
<1>4. CASE Upgrade
  BY <1>1, <1>4, UpgradeStep
<1>5. CASE Downgrade
  BY <1>1, <1>5, DowngradeStep
<1>6. ASSUME NEW t \in Used, NEW kind \in {"column", "not_null"}, Insert(t, kind) PROVE IInv'
  BY <1>1, <1>6, InsertStep
<1>7. QED
  BY <1>1, <1>2, <1>3, <1>4, <1>5, <1>6 DEF Next

\* Every reachable state satisfies the invariant.
THEOREM InvariantHolds == Spec => []IInv
BY InitHolds, StepHolds, PTL DEF Spec

\* A revision applies wherever a history of commands can lead, with the two
\* exceptions (migrations/versions).
THEOREM RevisionsAlwaysApply == Spec => []RevisionsApply
<1>1. IInv => RevisionsApply
  <2>1. SUFFICES ASSUME IInv PROVE RevisionsApply
    OBVIOUS
  <2>2. Sound(work) /\ work.rev \in 0..14
    BY <2>1 DEF IInv, Sound
  <2>3. ASSUME work.rev < 14
        PROVE  \/ Upgraded(work).ok
               \/ work.rev = 4 /\ work.rows["invoices"] # {}
               \/ work.rev = 0 /\ Type("invoice_status") \in work.schema
    BY <2>2, <2>3, UpgradedSound
  <2>4. work.rev > 0 => Downgraded(work).ok
    BY <2>2, DowngradedSound
  <2>5. QED
    BY <2>3, <2>4 DEF RevisionsApply, Latest
<1>2. QED
  BY <1>1, InvariantHolds, PTL

\* An upgrade takes no value from any row, and who could log in still can
\* (migrations/versions, b7f9c2a4d1e0:42).
THEOREM UpgradesAlwaysKeepData == Spec => UpgradesKeepData
<1> DEFINE A == /\ db.rev <= db'.rev
                     => \A t \in Tables : \A r \in db.rows[t] : \E s \in db'.rows[t] : r \subseteq s
                /\ db.rev < Verification /\ db'.rev >= Verification
                     => \A r \in db'.rows["users"] : "email_verified_at" \in r
<1>1. IInv /\ [Next]_vars => [A]_vars
  <2>1. SUFFICES ASSUME IInv, Next PROVE A
    OBVIOUS
  <2>2. /\ Sound(db) /\ Sound(work) /\ target \in {NoRun} \cup 0..14 /\ Running
        /\ db.rev \in 0..14
    BY <2>1 DEF IInv, Sound
  <2>3. CASE db' = db
    BY <2>2, <2>3 DEF Verification
  <2>4. CASE db' = work
    BY <2>2, <2>4 DEF Running, Kept, Verified, Verification
  <2>5. ASSUME NEW t \in Used, NEW kind \in {"column", "not_null"}, Insert(t, kind) PROVE A
    <3> DEFINE row == Names(db.schema, kind, t)
    <3>1. db' = [db EXCEPT !.rows[t] = @ \cup {row}]
      BY <2>5 DEF Insert
    <3> HIDE DEF row
    <3>2. t \in Tables /\ IsDatabase(db)
      BY <2>2, MigrationsAssumption DEF Sound
    <3>3. /\ db'.rev = db.rev
          /\ \A u \in Tables : db.rows[u] \subseteq db'.rows[u]
      BY <3>1, <3>2 DEF IsDatabase
    <3>4. QED
      BY <2>2, <3>3 DEF Verification
  <2>6. QED
    BY <2>1, <2>3, <2>4, <2>5 DEF Next, Begin, Upgrade, Downgrade, CommitWithin, Finish, Abort
<1>2. QED
  BY <1>1, InvariantHolds, PTL DEF Spec, UpgradesKeepData

-----------------------------------------------------------------------------
(* The schema of a revision is the one that upgrades build from nothing.   *)

\* A database without rows.
LEMMA OnlySchema ==
    ASSUME NEW X
    PROVE  LET d == [Empty EXCEPT !.schema = X]
           IN  /\ IsDatabase(d) /\ d.ok /\ d.schema = X
               /\ \A t \in Tables : d.rows[t] = {}
<1>1. IsDatabase(Empty) /\ Empty.ok /\ \A t \in Tables : Empty.rows[t] = {}
  BY DEF Empty, IsDatabase
<1>2. ASSUME NEW e, IsDatabase(e)
      PROVE  /\ IsDatabase([e EXCEPT !.schema = X]) /\ [e EXCEPT !.schema = X].ok = e.ok
             /\ [e EXCEPT !.schema = X].schema = X /\ [e EXCEPT !.schema = X].rows = e.rows
  BY <1>2 DEF IsDatabase
<1>3. QED
  BY <1>1, <1>2

\* One upgrade of a database without rows.
LEMMA BuildsNext ==
    ASSUME NEW r \in 1..14
    PROVE  Executed([Empty EXCEPT !.schema = Built(r - 1)], Upgrades[r]).schema = Built(r)
<1> DEFINE d == [Empty EXCEPT !.schema = Built(r - 1)]
<1>1. /\ IsDatabase(d) /\ d.ok /\ d.schema = Built(r - 1)
      /\ \A t \in Tables : d.rows[t] = {}
  BY OnlySchema
<1>2. Fits(Built(r - 1), r - 1)
  <2>1. Built(r - 1) \cap InvoiceStatuses # {} => Type("invoice_status") \in Built(r - 1)
    <3>1. CASE r = 1
      BY <3>1, BuiltNext
    <3>2. CASE r # 1
      <4>1. r - 1 \in 1..14
        BY <3>2
      <4>2. QED
        BY <4>1, StatusBuilt
    <3>3. QED
      BY <3>1, <3>2
  <2>2. QED
    BY <2>1 DEF Fits
<1>3. r = 1 => Type("invoice_status") \notin Built(r - 1)
  BY BuiltNext
<1>4. d.rows["invoices"] = {}
  BY <1>1 DEF Tables
<1> HIDE DEF d
<1>5. Executed(d, Upgrades[r]).schema = {o \in Built(r - 1) \cup New(r) : r = 5 => o # NumberIndex}
  BY <1>1, <1>2, <1>3, <1>4, UpgradeFits
<1>6. Executed(d, Upgrades[r]).schema = Built(r)
  BY <1>5, BuiltNext
<1>7. QED
  BY <1>6 DEF d

\* The schema of every revision.
LEMMA SchemaBuilt == \A r \in 0..14 : SchemaAt[r] = Built(r)
<1> DEFINE From(X, r) == Executed([Empty EXCEPT !.schema = X], Upgrades[r]).schema
           Follows(f) == f = [r \in 0..Latest |-> IF r = 0 THEN {} ELSE From(f[r - 1], r)]
           B == [r \in 0..14 |-> Built(r)]
<1>1. \A r \in 1..14 : From(Built(r - 1), r) = Built(r)
  BY BuildsNext
<1>2. SchemaAt = CHOOSE f : Follows(f)
  BY DEF SchemaAt
<1> HIDE DEF From
<1>3. Follows(B)
  <2>1. ASSUME NEW r \in 0..14 PROVE B[r] = IF r = 0 THEN {} ELSE From(B[r - 1], r)
    <3>1. CASE r = 0
      BY <3>1, BuiltNext
    <3>2. CASE r # 0
      <4>1. r \in 1..14 /\ r - 1 \in 0..14
        BY <3>2
      <4>2. QED
        BY <1>1, <3>2, <4>1
    <3>3. QED
      BY <3>1, <3>2
  <2>2. B = [r \in 0..14 |-> IF r = 0 THEN {} ELSE From(B[r - 1], r)]
    BY <2>1
  <2>3. QED
    BY <2>2 DEF Latest
<1>4. PICK f : Follows(f) /\ SchemaAt = f
  <2> HIDE DEF Follows, B
  <2> QED BY <1>2, <1>3
<1>5. f[0] = {} /\ \A r \in 1..14 : f[r] = From(f[r - 1], r)
  <2>1. \A r \in 0..14 : f[r] = IF r = 0 THEN {} ELSE From(f[r - 1], r)
    BY <1>4 DEF Latest
  <2>2. QED
    BY <2>1
<1> DEFINE Good == {r \in Nat : f[r] = Built(r)}
<1>6. 0 \in Good
  BY <1>5, BuiltNext
<1>7. ASSUME NEW r \in 0..(14 - 1), r \in Good PROVE r + 1 \in Good
  <2>1. r + 1 \in 1..14 /\ (r + 1) - 1 = r
    OBVIOUS
  <2>2. f[r] = Built(r)
    BY <1>7
  <2>3. f[r + 1] = From(Built(r), r + 1)
    BY <1>5, <2>1, <2>2
  <2>4. From(Built(r), r + 1) = Built(r + 1)
    BY <1>1, <2>1
  <2>5. QED
    BY <2>3, <2>4
<1>8. 0..14 \subseteq Good
  <2> HIDE DEF Good
  <2> QED BY <1>6, <1>7, UpTo
<1>9. QED
  BY <1>4, <1>8

-----------------------------------------------------------------------------
(* The last schema is the one that the ORM models declare.                 *)

\* What a statement of an upgrade adds.
Part(r, k) == Upgrades[r][k].new \cup Upgrades[r][k].ensured

\* What the statements of the upgrades add.
LEMMA CreateInvoicesParts ==
    /\ Part(1, 1) = {Table("invoices")} \cup Standard("invoices")
           \cup Needed("invoices", {"invoice_number", "vendor_name", "invoice_date",
           "total_amount", "currency", "status"}) \cup Enum("invoice_status", {"RECEIVED",
           "PROCESSING", "BOOKED", "ERROR"}) \cup {Typed("invoices", "status",
           "invoice_status")}
    /\ Part(1, 2) = {Index("invoices", {"invoice_number"})}
    /\ Part(1, 3) = {Index("invoices", {"status"})}
    /\ Part(1, 4) = {Index("invoices", {"vendor_name"})}
<1>1. Upgrades[1] = CreateInvoices
  BY Revisions DEF Revision
<1>2. CreateInvoices[1].new \cup CreateInvoices[1].ensured
        = {Table("invoices")} \cup Standard("invoices")
          \cup Needed("invoices", {"invoice_number", "vendor_name", "invoice_date",
          "total_amount", "currency", "status"})
          \cup Enum("invoice_status", {"RECEIVED", "PROCESSING", "BOOKED", "ERROR"})
          \cup {Typed("invoices", "status", "invoice_status")}
  BY StatementFields DEF Does, CreateInvoices, CreateTable
<1>3. CreateInvoices[2].new \cup CreateInvoices[2].ensured
        = {Index("invoices", {"invoice_number"})}
  BY StatementFields DEF Does, CreateInvoices
<1>4. CreateInvoices[3].new \cup CreateInvoices[3].ensured
        = {Index("invoices", {"status"})}
  BY StatementFields DEF Does, CreateInvoices
<1>5. CreateInvoices[4].new \cup CreateInvoices[4].ensured
        = {Index("invoices", {"vendor_name"})}
  BY StatementFields DEF Does, CreateInvoices
<1>6. QED
  BY <1>1, <1>2, <1>3, <1>4, <1>5 DEF Part

\* What the statements of EnableVector add.
LEMMA EnableVectorParts ==
    /\ Part(2, 1) = {Extension("vector")}
<1>1. Upgrades[2] = EnableVector
  BY Revisions DEF Revision
<1>2. EnableVector[1].new \cup EnableVector[1].ensured
        = {Extension("vector")}
  BY StatementFields DEF Does, EnableVector
<1>3. QED
  BY <1>1, <1>2 DEF Part

\* What the statements of CreateAudit add.
LEMMA CreateAuditParts ==
    /\ Part(3, 1) = {Table("llm_audit_entries")} \cup Standard("llm_audit_entries")
           \cup Needed("llm_audit_entries", {"provider_name", "operation", "model",
           "prompt_text", "prompt_chars", "response_chars", "duration_ms", "success"})
           \cup Optional("llm_audit_entries", {"error_message"})
    /\ Part(3, 2) = {Index("llm_audit_entries", {c}) : c \in {"model", "operation",
           "provider_name", "success"}}
<1>1. Upgrades[3] = CreateAudit
  BY Revisions DEF Revision
<1>2. CreateAudit[1].new \cup CreateAudit[1].ensured
        = {Table("llm_audit_entries")} \cup Standard("llm_audit_entries")
          \cup Needed("llm_audit_entries", {"provider_name", "operation", "model",
          "prompt_text", "prompt_chars", "response_chars", "duration_ms", "success"})
          \cup Optional("llm_audit_entries", {"error_message"})
  BY StatementFields DEF Does, CreateAudit, CreateTable
<1>3. CreateAudit[2].new \cup CreateAudit[2].ensured
        = {Index("llm_audit_entries", {c}) : c \in {"model", "operation", "provider_name",
          "success"}}
  BY StatementFields DEF Does, CreateAudit
<1>4. QED
  BY <1>1, <1>2, <1>3 DEF Part

\* What the statements of CreateEmbeddings add.
LEMMA CreateEmbeddingsParts ==
    /\ Part(4, 1) = {Table("invoice_embeddings")} \cup Standard("invoice_embeddings")
           \cup Needed("invoice_embeddings", {"tenant_id", "invoice_id", "embedding", "model",
           "source_text"}) \cup {Typed("invoice_embeddings", "embedding", "vector"),
           Reference("invoice_embeddings", "invoice_id", "invoices", "CASCADE")}
    /\ Part(4, 2) = {Index("invoice_embeddings", cols) : cols \in {{"invoice_id"},
           {"tenant_id"}, {"tenant_id", "invoice_id"}}}
    /\ Part(4, 3) = {CosineIndex}
<1>1. Upgrades[4] = CreateEmbeddings
  BY Revisions DEF Revision
<1>2. CreateEmbeddings[1].new \cup CreateEmbeddings[1].ensured
        = {Table("invoice_embeddings")} \cup Standard("invoice_embeddings")
          \cup Needed("invoice_embeddings", {"tenant_id", "invoice_id", "embedding",
          "model", "source_text"}) \cup {Typed("invoice_embeddings", "embedding",
          "vector"), Reference("invoice_embeddings", "invoice_id", "invoices",
          "CASCADE")}
  BY StatementFields DEF Does, CreateEmbeddings, CreateTable
<1>3. CreateEmbeddings[2].new \cup CreateEmbeddings[2].ensured
        = {Index("invoice_embeddings", cols) : cols \in {{"invoice_id"}, {"tenant_id"},
          {"tenant_id", "invoice_id"}}}
  BY StatementFields DEF Does, CreateEmbeddings
<1>4. CreateEmbeddings[3].new \cup CreateEmbeddings[3].ensured
        = {CosineIndex}
  BY StatementFields DEF Does, CreateEmbeddings
<1>5. QED
  BY <1>1, <1>2, <1>3, <1>4 DEF Part

\* What the statements of AddTenantToInvoices add.
LEMMA AddTenantToInvoicesParts ==
    /\ Part(5, 1) = Needed("invoices", {"tenant_id"})
    /\ Part(5, 2) = {}
    /\ Part(5, 3) = {Key("invoices", {"tenant_id", "invoice_number"})}
<1>1. Upgrades[5] = AddTenantToInvoices
  BY Revisions DEF Revision
<1>2. AddTenantToInvoices[1].new \cup AddTenantToInvoices[1].ensured
        = Needed("invoices", {"tenant_id"})
  BY StatementFields DEF Does, AddTenantToInvoices
<1>3. AddTenantToInvoices[2].new \cup AddTenantToInvoices[2].ensured
        = {}
  BY StatementFields DEF Does, AddTenantToInvoices
<1>4. AddTenantToInvoices[3].new \cup AddTenantToInvoices[3].ensured
        = {Key("invoices", {"tenant_id", "invoice_number"})}
  BY StatementFields DEF Does, AddTenantToInvoices
<1>5. QED
  BY <1>1, <1>2, <1>3, <1>4 DEF Part

\* What the statements of AddTenantToAudit add.
LEMMA AddTenantToAuditParts ==
    /\ Part(6, 1) = Optional("llm_audit_entries", {"tenant_id"})
    /\ Part(6, 2) = {}
    /\ Part(6, 3) = {NotNull("llm_audit_entries", "tenant_id")}
    /\ Part(6, 4) = {Index("llm_audit_entries", {"tenant_id"})}
<1>1. Upgrades[6] = AddTenantToAudit
  BY Revisions DEF Revision
<1>2. AddTenantToAudit[1].new \cup AddTenantToAudit[1].ensured
        = Optional("llm_audit_entries", {"tenant_id"})
  BY StatementFields DEF Does, AddTenantToAudit
<1>3. AddTenantToAudit[2].new \cup AddTenantToAudit[2].ensured
        = {}
  BY StatementFields DEF Does, AddTenantToAudit
<1>4. AddTenantToAudit[3].new \cup AddTenantToAudit[3].ensured
        = {NotNull("llm_audit_entries", "tenant_id")}
  BY StatementFields DEF Does, AddTenantToAudit
<1>5. AddTenantToAudit[4].new \cup AddTenantToAudit[4].ensured
        = {Index("llm_audit_entries", {"tenant_id"})}
  BY StatementFields DEF Does, AddTenantToAudit
<1>6. QED
  BY <1>1, <1>2, <1>3, <1>4, <1>5 DEF Part

\* What the statements of CreateUsers add.
LEMMA CreateUsersParts ==
    /\ Part(7, 1) = {Table("tenants")} \cup Standard("tenants") \cup Needed("tenants", {"slug",
           "display_name"}) \cup {Key("tenants", {"slug"})}
    /\ Part(7, 2) = {Table("users")} \cup Standard("users") \cup Needed("users", {"tenant_id",
           "email", "password_hash"}) \cup Optional("users", {"full_name"})
           \cup {Key("users", {"tenant_id", "email"})}
<1>1. Upgrades[7] = CreateUsers
  BY Revisions DEF Revision
<1>2. CreateUsers[1].new \cup CreateUsers[1].ensured
        = {Table("tenants")} \cup Standard("tenants") \cup Needed("tenants", {"slug",
          "display_name"}) \cup {Key("tenants", {"slug"})}
  BY StatementFields DEF Does, CreateUsers, CreateTable
<1>3. CreateUsers[2].new \cup CreateUsers[2].ensured
        = {Table("users")} \cup Standard("users") \cup Needed("users", {"tenant_id", "email",
          "password_hash"}) \cup Optional("users", {"full_name"})
          \cup {Key("users", {"tenant_id", "email"})}
  BY StatementFields DEF Does, CreateUsers, CreateTable
<1>4. QED
  BY <1>1, <1>2, <1>3 DEF Part

\* What the statements of CreateFiles add.
LEMMA CreateFilesParts ==
    /\ Part(8, 1) = {Table("invoice_files")} \cup Standard("invoice_files")
           \cup Needed("invoice_files", {"tenant_id", "filename", "mime_type", "size_bytes",
           "sha256", "storage_path"}) \cup Optional("invoice_files", {"uploaded_by_user_id",
           "invoice_id"}) \cup {Reference("invoice_files", "uploaded_by_user_id", "users",
           "SET_NULL"), Reference("invoice_files", "invoice_id", "invoices", "SET_NULL"),
           Key("invoice_files", {"tenant_id", "sha256"})}
    /\ Part(8, 2) = {Index("invoice_files", {"sha256"})}
    /\ Part(8, 3) = {Index("invoice_files", {"tenant_id", "created_at"})}
<1>1. Upgrades[8] = CreateFiles
  BY Revisions DEF Revision
<1>2. CreateFiles[1].new \cup CreateFiles[1].ensured
        = {Table("invoice_files")} \cup Standard("invoice_files")
          \cup Needed("invoice_files", {"tenant_id", "filename", "mime_type",
          "size_bytes", "sha256", "storage_path"})
          \cup Optional("invoice_files", {"uploaded_by_user_id", "invoice_id"})
          \cup {Reference("invoice_files", "uploaded_by_user_id", "users",
          "SET_NULL"), Reference("invoice_files", "invoice_id", "invoices",
          "SET_NULL"), Key("invoice_files", {"tenant_id", "sha256"})}
  BY StatementFields DEF Does, CreateFiles, CreateTable
<1>3. CreateFiles[2].new \cup CreateFiles[2].ensured
        = {Index("invoice_files", {"sha256"})}
  BY StatementFields DEF Does, CreateFiles
<1>4. CreateFiles[3].new \cup CreateFiles[3].ensured
        = {Index("invoice_files", {"tenant_id", "created_at"})}
  BY StatementFields DEF Does, CreateFiles
<1>5. QED
  BY <1>1, <1>2, <1>3, <1>4 DEF Part

\* What the statements of AddExtraction add.
LEMMA AddExtractionParts ==
    /\ Part(9, 1) = Enum("extraction_status", {"pending", "processing", "completed", "failed"})
    /\ Part(9, 2) = Needed("invoice_files", {"extraction_status"})
    /\ Part(9, 3) = {Typed("invoice_files", "extraction_status", "extraction_status")}
    /\ Part(9, 4) = Optional("invoice_files", {"extraction_result"})
    /\ Part(9, 5) = Optional("invoice_files", {"extraction_error"})
    /\ Part(9, 6) = Optional("invoice_files", {"extracted_at"})
    /\ Part(9, 7) = Needed("invoice_files", {"extraction_attempts"})
    /\ Part(9, 8) = {Index("invoice_files", {"tenant_id", "extraction_status"})}
    /\ Part(9, 9) = Optional("invoices", {"net_amount"})
    /\ Part(9, 10) = Optional("invoices", {"tax_amount"})
<1>1. Upgrades[9] = AddExtraction
  BY Revisions DEF Revision
<1>2. AddExtraction[1].new \cup AddExtraction[1].ensured
        = Enum("extraction_status", {"pending", "processing", "completed", "failed"})
  BY StatementFields DEF Does, AddExtraction
<1>3. AddExtraction[2].new \cup AddExtraction[2].ensured
        = Needed("invoice_files", {"extraction_status"})
  BY StatementFields DEF Does, AddExtraction
<1>4. AddExtraction[3].new \cup AddExtraction[3].ensured
        = {Typed("invoice_files", "extraction_status", "extraction_status")}
  BY StatementFields DEF Does, AddExtraction
<1>5. AddExtraction[4].new \cup AddExtraction[4].ensured
        = Optional("invoice_files", {"extraction_result"})
  BY StatementFields DEF Does, AddExtraction
<1>6. AddExtraction[5].new \cup AddExtraction[5].ensured
        = Optional("invoice_files", {"extraction_error"})
  BY StatementFields DEF Does, AddExtraction
<1>7. AddExtraction[6].new \cup AddExtraction[6].ensured
        = Optional("invoice_files", {"extracted_at"})
  BY StatementFields DEF Does, AddExtraction
<1>8. AddExtraction[7].new \cup AddExtraction[7].ensured
        = Needed("invoice_files", {"extraction_attempts"})
  BY StatementFields DEF Does, AddExtraction
<1>9. AddExtraction[8].new \cup AddExtraction[8].ensured
        = {Index("invoice_files", {"tenant_id", "extraction_status"})}
  BY StatementFields DEF Does, AddExtraction
<1>10. AddExtraction[9].new \cup AddExtraction[9].ensured
        = Optional("invoices", {"net_amount"})
  BY StatementFields DEF Does, AddExtraction
<1>11. AddExtraction[10].new \cup AddExtraction[10].ensured
        = Optional("invoices", {"tax_amount"})
  BY StatementFields DEF Does, AddExtraction
<1>12. QED
  BY <1>1, <1>2, <1>3, <1>4, <1>5, <1>6, <1>7, <1>8, <1>9, <1>10, <1>11 DEF Part

\* What the statements of AddVerification add.
LEMMA AddVerificationParts ==
    /\ Part(10, 1) = Optional("users", {"email_verified_at"})
    /\ Part(10, 2) = Optional("users", {"email_verification_token_hash"})
    /\ Part(10, 3) = Optional("users", {"email_verification_expires_at"})
    /\ Part(10, 4) = Optional("users", {"email_verification_sent_at"})
    /\ Part(10, 5) = {Index("users", {"email_verification_token_hash"})}
    /\ Part(10, 6) = {}
<1>1. Upgrades[10] = AddVerification
  BY Revisions DEF Revision
<1>2. AddVerification[1].new \cup AddVerification[1].ensured
        = Optional("users", {"email_verified_at"})
  BY StatementFields DEF Does, AddVerification
<1>3. AddVerification[2].new \cup AddVerification[2].ensured
        = Optional("users", {"email_verification_token_hash"})
  BY StatementFields DEF Does, AddVerification
<1>4. AddVerification[3].new \cup AddVerification[3].ensured
        = Optional("users", {"email_verification_expires_at"})
  BY StatementFields DEF Does, AddVerification
<1>5. AddVerification[4].new \cup AddVerification[4].ensured
        = Optional("users", {"email_verification_sent_at"})
  BY StatementFields DEF Does, AddVerification
<1>6. AddVerification[5].new \cup AddVerification[5].ensured
        = {Index("users", {"email_verification_token_hash"})}
  BY StatementFields DEF Does, AddVerification
<1>7. AddVerification[6].new \cup AddVerification[6].ensured
        = {}
  BY StatementFields DEF Does, AddVerification
<1>8. QED
  BY <1>1, <1>2, <1>3, <1>4, <1>5, <1>6, <1>7 DEF Part

\* What the statements of AddEdits add.
LEMMA AddEditsParts ==
    /\ Part(11, 1) = Needed("invoices", {"version"})
    /\ Part(11, 2) = Needed("invoices", {"is_reviewed"})
    /\ Part(11, 3) = Optional("invoices", {"reviewed_at"})
    /\ Part(11, 4) = Optional("invoices", {"reviewed_by_user_id"})
    /\ Part(11, 5) = {Reference("invoices", "reviewed_by_user_id", "users", "SET_NULL")}
    /\ Part(11, 6) = Optional("invoices", {"line_items"})
    /\ Part(11, 7) = {}
    /\ Part(11, 8) = {}
    /\ Part(11, 9) = {Table("invoice_edits")} \cup Needed("invoice_edits", {"id", "tenant_id",
           "invoice_id", "field", "created_at"}) \cup Optional("invoice_edits", {"user_id",
           "old_value", "new_value"}) \cup {Reference("invoice_edits", "invoice_id", "invoices",
           "CASCADE"), Reference("invoice_edits", "user_id", "users", "SET_NULL")}
    /\ Part(11, 10) = {Index("invoice_edits", {"tenant_id", "invoice_id"})}
<1>1. Upgrades[11] = AddEdits
  BY Revisions DEF Revision
<1>2. AddEdits[1].new \cup AddEdits[1].ensured
        = Needed("invoices", {"version"})
  BY StatementFields DEF Does, AddEdits
<1>3. AddEdits[2].new \cup AddEdits[2].ensured
        = Needed("invoices", {"is_reviewed"})
  BY StatementFields DEF Does, AddEdits
<1>4. AddEdits[3].new \cup AddEdits[3].ensured
        = Optional("invoices", {"reviewed_at"})
  BY StatementFields DEF Does, AddEdits
<1>5. AddEdits[4].new \cup AddEdits[4].ensured
        = Optional("invoices", {"reviewed_by_user_id"})
  BY StatementFields DEF Does, AddEdits
<1>6. AddEdits[5].new \cup AddEdits[5].ensured
        = {Reference("invoices", "reviewed_by_user_id", "users", "SET_NULL")}
  BY StatementFields DEF Does, AddEdits
<1>7. AddEdits[6].new \cup AddEdits[6].ensured
        = Optional("invoices", {"line_items"})
  BY StatementFields DEF Does, AddEdits
<1>8. AddEdits[7].new \cup AddEdits[7].ensured
        = {}
  BY StatementFields DEF Does, AddEdits
<1>9. AddEdits[8].new \cup AddEdits[8].ensured
        = {}
  BY StatementFields DEF Does, AddEdits
<1>10. AddEdits[9].new \cup AddEdits[9].ensured
        = {Table("invoice_edits")} \cup Needed("invoice_edits", {"id", "tenant_id",
          "invoice_id", "field", "created_at"})
          \cup Optional("invoice_edits", {"user_id", "old_value", "new_value"})
          \cup {Reference("invoice_edits", "invoice_id", "invoices", "CASCADE"),
          Reference("invoice_edits", "user_id", "users", "SET_NULL")}
  BY StatementFields DEF Does, AddEdits, CreateTable
<1>11. AddEdits[10].new \cup AddEdits[10].ensured
        = {Index("invoice_edits", {"tenant_id", "invoice_id"})}
  BY StatementFields DEF Does, AddEdits
<1>12. QED
  BY <1>1, <1>2, <1>3, <1>4, <1>5, <1>6, <1>7, <1>8, <1>9, <1>10, <1>11 DEF Part

\* What the statements of CreateMappings add.
LEMMA CreateMappingsParts ==
    /\ Part(12, 1) = {Extension("pgcrypto")}
    /\ Part(12, 2) = {Table("vendor_account_mappings")} \cup Standard("vendor_account_mappings")
           \cup Needed("vendor_account_mappings", {"tenant_id", "vendor_name_normalized",
           "vendor_name_raw", "creditor_account_number", "usage_count", "last_used_at"})
           \cup {Key("vendor_account_mappings", {"tenant_id", "vendor_name_normalized"})}
    /\ Part(12, 3) = {Index("vendor_account_mappings", {"tenant_id", "last_used_at"})}
<1>1. Upgrades[12] = CreateMappings
  BY Revisions DEF Revision
<1>2. CreateMappings[1].new \cup CreateMappings[1].ensured
        = {Extension("pgcrypto")}
  BY StatementFields DEF Does, CreateMappings
<1>3. CreateMappings[2].new \cup CreateMappings[2].ensured
        = {Table("vendor_account_mappings")} \cup Standard("vendor_account_mappings")
          \cup Needed("vendor_account_mappings", {"tenant_id",
          "vendor_name_normalized", "vendor_name_raw", "creditor_account_number",
          "usage_count", "last_used_at"})
          \cup {Key("vendor_account_mappings", {"tenant_id",
          "vendor_name_normalized"})}
  BY StatementFields DEF Does, CreateMappings, CreateTable
<1>4. CreateMappings[3].new \cup CreateMappings[3].ensured
        = {Index("vendor_account_mappings", {"tenant_id", "last_used_at"})}
  BY StatementFields DEF Does, CreateMappings
<1>5. QED
  BY <1>1, <1>2, <1>3, <1>4 DEF Part

\* What the statements of AddMethod add.
LEMMA AddMethodParts ==
    /\ Part(13, 1) = Enum("extraction_method", Methods)
    /\ Part(13, 2) = Optional("invoice_files", {"extraction_method"})
    /\ Part(13, 3) = {Typed("invoice_files", "extraction_method", "extraction_method")}
<1>1. Upgrades[13] = AddMethod
  BY Revisions DEF Revision
<1>2. AddMethod[1].new \cup AddMethod[1].ensured
        = Enum("extraction_method", Methods)
  BY StatementFields DEF Does, AddMethod
<1>3. AddMethod[2].new \cup AddMethod[2].ensured
        = Optional("invoice_files", {"extraction_method"})
  BY StatementFields DEF Does, AddMethod
<1>4. AddMethod[3].new \cup AddMethod[3].ensured
        = {Typed("invoice_files", "extraction_method", "extraction_method")}
  BY StatementFields DEF Does, AddMethod
<1>5. QED
  BY <1>1, <1>2, <1>3, <1>4 DEF Part

\* What the statements of AddNotAnInvoice add.
LEMMA AddNotAnInvoiceParts ==
    /\ Part(14, 1) = {Label("extraction_status", "not_an_invoice")}
<1>1. Upgrades[14] = AddNotAnInvoice
  BY Revisions DEF Revision
<1>2. AddNotAnInvoice[1].new \cup AddNotAnInvoice[1].ensured
        = {Label("extraction_status", "not_an_invoice")}
  BY StatementFields DEF Does, AddNotAnInvoice
<1>3. QED
  BY <1>1, <1>2 DEF Part

\* What CreateInvoices adds, statement by statement.
LEMMA CreateInvoicesNews == New(1) = Part(1, 1) \cup Part(1, 2) \cup Part(1, 3) \cup Part(1, 4)
<1>1. Upgrades[1] = CreateInvoices /\ Len(CreateInvoices) = 4
  BY Revisions DEF Revision
<1>2. \A k \in Nat : k \in 1..4 <=> k = 1 \/ k = 2 \/ k = 3 \/ k = 4
  OBVIOUS
<1>3. \A x : x \in New(1) <=> \E k \in 1..4 : x \in Part(1, k)
  BY <1>1 DEF New, Created, Part
<1>4. QED
  BY <1>2, <1>3

\* What EnableVector adds, statement by statement.
LEMMA EnableVectorNews == New(2) = Part(2, 1)
<1>1. Upgrades[2] = EnableVector /\ Len(EnableVector) = 1
  BY Revisions DEF Revision
<1>2. \A k \in Nat : k \in 1..1 <=> k = 1
  OBVIOUS
<1>3. \A x : x \in New(2) <=> \E k \in 1..1 : x \in Part(2, k)
  BY <1>1 DEF New, Created, Part
<1>4. QED
  BY <1>2, <1>3

\* What CreateAudit adds, statement by statement.
LEMMA CreateAuditNews == New(3) = Part(3, 1) \cup Part(3, 2)
<1>1. Upgrades[3] = CreateAudit /\ Len(CreateAudit) = 2
  BY Revisions DEF Revision
<1>2. \A k \in Nat : k \in 1..2 <=> k = 1 \/ k = 2
  OBVIOUS
<1>3. \A x : x \in New(3) <=> \E k \in 1..2 : x \in Part(3, k)
  BY <1>1 DEF New, Created, Part
<1>4. QED
  BY <1>2, <1>3

\* What CreateEmbeddings adds, statement by statement.
LEMMA CreateEmbeddingsNews == New(4) = Part(4, 1) \cup Part(4, 2) \cup Part(4, 3)
<1>1. Upgrades[4] = CreateEmbeddings /\ Len(CreateEmbeddings) = 3
  BY Revisions DEF Revision
<1>2. \A k \in Nat : k \in 1..3 <=> k = 1 \/ k = 2 \/ k = 3
  OBVIOUS
<1>3. \A x : x \in New(4) <=> \E k \in 1..3 : x \in Part(4, k)
  BY <1>1 DEF New, Created, Part
<1>4. QED
  BY <1>2, <1>3

\* What AddTenantToInvoices adds, statement by statement.
LEMMA AddTenantToInvoicesNews == New(5) = Part(5, 1) \cup Part(5, 2) \cup Part(5, 3)
<1>1. Upgrades[5] = AddTenantToInvoices /\ Len(AddTenantToInvoices) = 3
  BY Revisions DEF Revision
<1>2. \A k \in Nat : k \in 1..3 <=> k = 1 \/ k = 2 \/ k = 3
  OBVIOUS
<1>3. \A x : x \in New(5) <=> \E k \in 1..3 : x \in Part(5, k)
  BY <1>1 DEF New, Created, Part
<1>4. QED
  BY <1>2, <1>3

\* What AddTenantToAudit adds, statement by statement.
LEMMA AddTenantToAuditNews == New(6) = Part(6, 1) \cup Part(6, 2) \cup Part(6, 3) \cup Part(6, 4)
<1>1. Upgrades[6] = AddTenantToAudit /\ Len(AddTenantToAudit) = 4
  BY Revisions DEF Revision
<1>2. \A k \in Nat : k \in 1..4 <=> k = 1 \/ k = 2 \/ k = 3 \/ k = 4
  OBVIOUS
<1>3. \A x : x \in New(6) <=> \E k \in 1..4 : x \in Part(6, k)
  BY <1>1 DEF New, Created, Part
<1>4. QED
  BY <1>2, <1>3

\* What CreateUsers adds, statement by statement.
LEMMA CreateUsersNews == New(7) = Part(7, 1) \cup Part(7, 2)
<1>1. Upgrades[7] = CreateUsers /\ Len(CreateUsers) = 2
  BY Revisions DEF Revision
<1>2. \A k \in Nat : k \in 1..2 <=> k = 1 \/ k = 2
  OBVIOUS
<1>3. \A x : x \in New(7) <=> \E k \in 1..2 : x \in Part(7, k)
  BY <1>1 DEF New, Created, Part
<1>4. QED
  BY <1>2, <1>3

\* What CreateFiles adds, statement by statement.
LEMMA CreateFilesNews == New(8) = Part(8, 1) \cup Part(8, 2) \cup Part(8, 3)
<1>1. Upgrades[8] = CreateFiles /\ Len(CreateFiles) = 3
  BY Revisions DEF Revision
<1>2. \A k \in Nat : k \in 1..3 <=> k = 1 \/ k = 2 \/ k = 3
  OBVIOUS
<1>3. \A x : x \in New(8) <=> \E k \in 1..3 : x \in Part(8, k)
  BY <1>1 DEF New, Created, Part
<1>4. QED
  BY <1>2, <1>3

\* What AddExtraction adds, statement by statement.
LEMMA AddExtractionNews == New(9) = Part(9, 1) \cup Part(9, 2) \cup Part(9, 3) \cup Part(9, 4)
    \cup Part(9, 5) \cup Part(9, 6) \cup Part(9, 7)
    \cup Part(9, 8) \cup Part(9, 9) \cup Part(9, 10)
<1>1. Upgrades[9] = AddExtraction /\ Len(AddExtraction) = 10
  BY Revisions DEF Revision
<1>2. \A k \in Nat : k \in 1..10 <=> \/ k = 1 \/ k = 2 \/ k = 3 \/ k = 4 \/ k = 5
                                     \/ k = 6 \/ k = 7 \/ k = 8 \/ k = 9 \/ k = 10
  OBVIOUS
<1>3. \A x : x \in New(9) <=> \E k \in 1..10 : x \in Part(9, k)
  BY <1>1 DEF New, Created, Part
<1>4. QED
  BY <1>2, <1>3

\* What AddVerification adds, statement by statement.
LEMMA AddVerificationNews == New(10) = Part(10, 1) \cup Part(10, 2) \cup Part(10, 3)
    \cup Part(10, 4) \cup Part(10, 5) \cup Part(10, 6)
<1>1. Upgrades[10] = AddVerification /\ Len(AddVerification) = 6
  BY Revisions DEF Revision
<1>2. \A k \in Nat : k \in 1..6 <=> k = 1 \/ k = 2 \/ k = 3 \/ k = 4 \/ k = 5 \/ k = 6
  OBVIOUS
<1>3. \A x : x \in New(10) <=> \E k \in 1..6 : x \in Part(10, k)
  BY <1>1 DEF New, Created, Part
<1>4. QED
  BY <1>2, <1>3

\* What AddEdits adds, statement by statement.
LEMMA AddEditsNews == New(11) = Part(11, 1) \cup Part(11, 2) \cup Part(11, 3)
    \cup Part(11, 4) \cup Part(11, 5) \cup Part(11, 6)
    \cup Part(11, 7) \cup Part(11, 8) \cup Part(11, 9)
    \cup Part(11, 10)
<1>1. Upgrades[11] = AddEdits /\ Len(AddEdits) = 10
  BY Revisions DEF Revision
<1>2. \A k \in Nat : k \in 1..10 <=> \/ k = 1 \/ k = 2 \/ k = 3 \/ k = 4 \/ k = 5
                                     \/ k = 6 \/ k = 7 \/ k = 8 \/ k = 9 \/ k = 10
  OBVIOUS
<1>3. \A x : x \in New(11) <=> \E k \in 1..10 : x \in Part(11, k)
  BY <1>1 DEF New, Created, Part
<1>4. QED
  BY <1>2, <1>3

\* What CreateMappings adds, statement by statement.
LEMMA CreateMappingsNews == New(12) = Part(12, 1) \cup Part(12, 2) \cup Part(12, 3)
<1>1. Upgrades[12] = CreateMappings /\ Len(CreateMappings) = 3
  BY Revisions DEF Revision
<1>2. \A k \in Nat : k \in 1..3 <=> k = 1 \/ k = 2 \/ k = 3
  OBVIOUS
<1>3. \A x : x \in New(12) <=> \E k \in 1..3 : x \in Part(12, k)
  BY <1>1 DEF New, Created, Part
<1>4. QED
  BY <1>2, <1>3

\* What AddMethod adds, statement by statement.
LEMMA AddMethodNews == New(13) = Part(13, 1) \cup Part(13, 2) \cup Part(13, 3)
<1>1. Upgrades[13] = AddMethod /\ Len(AddMethod) = 3
  BY Revisions DEF Revision
<1>2. \A k \in Nat : k \in 1..3 <=> k = 1 \/ k = 2 \/ k = 3
  OBVIOUS
<1>3. \A x : x \in New(13) <=> \E k \in 1..3 : x \in Part(13, k)
  BY <1>1 DEF New, Created, Part
<1>4. QED
  BY <1>2, <1>3

\* What AddNotAnInvoice adds, statement by statement.
LEMMA AddNotAnInvoiceNews == New(14) = Part(14, 1)
<1>1. Upgrades[14] = AddNotAnInvoice /\ Len(AddNotAnInvoice) = 1
  BY Revisions DEF Revision
<1>2. \A k \in Nat : k \in 1..1 <=> k = 1
  OBVIOUS
<1>3. \A x : x \in New(14) <=> \E k \in 1..1 : x \in Part(14, k)
  BY <1>1 DEF New, Created, Part
<1>4. QED
  BY <1>2, <1>3

\* The models declare what the upgrades add to their tables.
LEMMA InvoicesDeclared ==
    {Table("invoices")} \cup InvoiceModel = Part(1, 1) \cup Part(1, 3) \cup Part(1, 4)
        \cup Part(5, 1) \cup Part(5, 3) \cup Part(9, 9) \cup Part(9, 10) \cup Part(11, 1)
        \cup Part(11, 2) \cup Part(11, 3) \cup Part(11, 4) \cup Part(11, 5) \cup Part(11, 6)
<1>1. Needed("invoices", {"invoice_number", "vendor_name", "invoice_date", "total_amount", "currency",
          "status", "version", "is_reviewed"})
        = Needed("invoices", {"invoice_number", "vendor_name", "invoice_date", "total_amount",
          "currency", "status"}) \cup Needed("invoices", {"version"})
          \cup Needed("invoices", {"is_reviewed"})
  BY DEF Needed, Optional
<1>2. Optional("invoices", {"net_amount", "tax_amount", "reviewed_at", "reviewed_by_user_id",
          "line_items"})
        = Optional("invoices", {"net_amount"}) \cup Optional("invoices", {"tax_amount"})
          \cup Optional("invoices", {"reviewed_at"})
          \cup Optional("invoices", {"reviewed_by_user_id"})
          \cup Optional("invoices", {"line_items"})
  BY DEF Optional
<1>3. Indexed("invoices", {"vendor_name", "status"})
        = {Index("invoices", {"vendor_name"})} \cup {Index("invoices", {"status"})}
  BY DEF Indexed
<1>4. QED
  BY <1>1, <1>2, <1>3, CreateInvoicesParts, AddTenantToInvoicesParts, AddExtractionParts,
     AddEditsParts DEF InvoiceModel, TenantColumn

\* The model and what upgrades add to its table (Edits).
LEMMA EditsDeclared ==
    {Table("invoice_edits")} \cup InvoiceEditModel = Part(11, 9) \cup Part(11, 10)
<1>1. Needed("invoice_edits", {"id", "tenant_id", "invoice_id", "field", "created_at"})
        = Needed("invoice_edits", {"tenant_id"}) \cup Needed("invoice_edits", {"id",
          "invoice_id", "field", "created_at"})
  BY DEF Needed, Optional
<1>2. QED
  BY <1>1, AddEditsParts DEF InvoiceEditModel, TenantColumn

\* The model and what upgrades add to its table (Embeddings).
LEMMA EmbeddingsDeclared ==
    {Table("invoice_embeddings")} \cup InvoiceEmbeddingModel = Part(4, 1) \cup Part(4, 2)
<1>1. Needed("invoice_embeddings", {"tenant_id", "invoice_id", "embedding", "model", "source_text"})
        = Needed("invoice_embeddings", {"tenant_id"})
          \cup Needed("invoice_embeddings", {"invoice_id", "embedding", "model", "source_text"})
  BY DEF Needed, Optional
<1>2. Indexed("invoice_embeddings", {"tenant_id", "invoice_id"})
        = {Index("invoice_embeddings", {"tenant_id"})}
          \cup {Index("invoice_embeddings", {"invoice_id"})}
  BY DEF Indexed
<1>3. {Index("invoice_embeddings", cols) : cols \in {{"invoice_id"}, {"tenant_id"}, {"tenant_id",
          "invoice_id"}}}
        = {Index("invoice_embeddings", {"invoice_id"})}
          \cup {Index("invoice_embeddings", {"tenant_id"})}
          \cup {Index("invoice_embeddings", {"tenant_id", "invoice_id"})}
  OBVIOUS
<1>4. QED
  BY <1>1, <1>2, <1>3, CreateEmbeddingsParts DEF InvoiceEmbeddingModel, TenantColumn

\* The model and what upgrades add to its table (Files).
LEMMA FilesDeclared ==
    {Table("invoice_files")} \cup InvoiceFileModel = Part(8, 1) \cup Part(8, 2) \cup Part(8, 3)
        \cup Part(9, 1) \cup Part(9, 2) \cup Part(9, 3) \cup Part(9, 4) \cup Part(9, 5)
        \cup Part(9, 6) \cup Part(9, 7) \cup Part(9, 8) \cup Part(13, 1) \cup Part(13, 2)
        \cup Part(13, 3) \cup Part(14, 1)
<1>1. Needed("invoice_files", {"tenant_id", "filename", "mime_type", "size_bytes", "sha256",
          "storage_path"})
        = Needed("invoice_files", {"tenant_id"}) \cup Needed("invoice_files", {"filename",
          "mime_type", "size_bytes", "sha256", "storage_path"})
  BY DEF Needed, Optional
<1>2. Needed("invoice_files", {"filename", "mime_type", "size_bytes", "sha256", "storage_path",
          "extraction_status", "extraction_attempts"})
        = Needed("invoice_files", {"filename", "mime_type", "size_bytes", "sha256",
          "storage_path"}) \cup Needed("invoice_files", {"extraction_status"})
          \cup Needed("invoice_files", {"extraction_attempts"})
  BY DEF Needed, Optional
<1>3. Optional("invoice_files", {"uploaded_by_user_id", "invoice_id", "extraction_result",
          "extraction_error", "extraction_method", "extracted_at"})
        = Optional("invoice_files", {"uploaded_by_user_id", "invoice_id"})
          \cup Optional("invoice_files", {"extraction_result"})
          \cup Optional("invoice_files", {"extraction_error"})
          \cup Optional("invoice_files", {"extraction_method"})
          \cup Optional("invoice_files", {"extracted_at"})
  BY DEF Optional
<1>4. Enum("extraction_status", {"pending", "processing", "completed", "failed", "not_an_invoice"})
        = Enum("extraction_status", {"pending", "processing", "completed", "failed"})
          \cup {Label("extraction_status", "not_an_invoice")}
  BY DEF Enum
<1>5. Indexed("invoice_files", {"sha256"})
        = {Index("invoice_files", {"sha256"})}
  BY DEF Indexed
<1>6. QED
  BY <1>1, <1>2, <1>3, <1>4, <1>5, CreateFilesParts, AddExtractionParts, AddMethodParts,
     AddNotAnInvoiceParts DEF InvoiceFileModel, TenantColumn

\* The model and what upgrades add to its table (Audit).
LEMMA AuditDeclared ==
    {Table("llm_audit_entries")} \cup LLMAuditEntryModel = Part(3, 1) \cup Part(3, 2)
        \cup Part(6, 1) \cup Part(6, 3) \cup Part(6, 4)
<1>1. Needed("llm_audit_entries", {"tenant_id"})
        = Optional("llm_audit_entries", {"tenant_id"})
          \cup {NotNull("llm_audit_entries", "tenant_id")}
  BY DEF Needed
<1>2. Indexed("llm_audit_entries", {"tenant_id", "provider_name", "operation", "model", "success"})
        = {Index("llm_audit_entries", {"tenant_id"})}
          \cup {Index("llm_audit_entries", {c}) : c \in {"model", "operation", "provider_name",
          "success"}}
  BY DEF Indexed
<1>3. QED
  BY <1>1, <1>2, CreateAuditParts, AddTenantToAuditParts DEF LLMAuditEntryModel, TenantColumn

\* The model and what upgrades add to its table (Tenants).
LEMMA TenantsDeclared ==
    {Table("tenants")} \cup TenantModel = Part(7, 1)
<1>1. QED
  BY CreateUsersParts DEF TenantModel, TenantColumn

\* The model and what upgrades add to its table (Users).
LEMMA UsersDeclared ==
    {Table("users")} \cup UserModel = Part(7, 2) \cup Part(10, 1) \cup Part(10, 2)
        \cup Part(10, 3) \cup Part(10, 4) \cup Part(10, 5)
<1>1. Needed("users", {"tenant_id", "email", "password_hash"})
        = Needed("users", {"tenant_id"}) \cup Needed("users", {"email", "password_hash"})
  BY DEF Needed, Optional
<1>2. Optional("users", {"full_name", "email_verified_at", "email_verification_token_hash",
          "email_verification_expires_at", "email_verification_sent_at"})
        = Optional("users", {"full_name"}) \cup Optional("users", {"email_verified_at"})
          \cup Optional("users", {"email_verification_token_hash"})
          \cup Optional("users", {"email_verification_expires_at"})
          \cup Optional("users", {"email_verification_sent_at"})
  BY DEF Optional
<1>3. Indexed("users", {"email_verification_token_hash"})
        = {Index("users", {"email_verification_token_hash"})}
  BY DEF Indexed
<1>4. QED
  BY <1>1, <1>2, <1>3, CreateUsersParts, AddVerificationParts DEF UserModel, TenantColumn

\* The model and what upgrades add to its table (Mappings).
LEMMA MappingsDeclared ==
    {Table("vendor_account_mappings")} \cup VendorAccountMappingModel = Part(12, 2)
        \cup Part(12, 3)
<1>1. Needed("vendor_account_mappings", {"tenant_id", "vendor_name_normalized", "vendor_name_raw",
          "creditor_account_number", "usage_count", "last_used_at"})
        = Needed("vendor_account_mappings", {"tenant_id"})
          \cup Needed("vendor_account_mappings", {"vendor_name_normalized", "vendor_name_raw",
          "creditor_account_number", "usage_count", "last_used_at"})
  BY DEF Needed, Optional
<1>2. QED
  BY <1>1, CreateMappingsParts DEF VendorAccountMappingModel, TenantColumn

\* The models declare what upgrades build but for the vector index and the
\* extensions.
LEMMA MetadataBuilt ==
    /\ Metadata \subseteq Built(14)
    /\ Built(14) \cup Leftovers
         \subseteq Metadata \cup {CosineIndex, Extension("vector"), Extension("pgcrypto")}
<1>1. \A x : x \in Metadata <=>
        \/ x \in {Table("invoices")} \cup InvoiceModel
        \/ x \in {Table("invoice_edits")} \cup InvoiceEditModel
        \/ x \in {Table("invoice_embeddings")} \cup InvoiceEmbeddingModel
        \/ x \in {Table("invoice_files")} \cup InvoiceFileModel
        \/ x \in {Table("llm_audit_entries")} \cup LLMAuditEntryModel
        \/ x \in {Table("tenants")} \cup TenantModel
        \/ x \in {Table("users")} \cup UserModel
        \/ x \in {Table("vendor_account_mappings")} \cup VendorAccountMappingModel
  BY DEF Metadata, Tables
<1>2. \A x : x \in Metadata <=>
        \/ x \in Part(1, 1) \/ x \in Part(1, 3) \/ x \in Part(1, 4) \/ x \in Part(5, 1)
           \/ x \in Part(5, 3) \/ x \in Part(9, 9) \/ x \in Part(9, 10) \/ x \in Part(11, 1)
           \/ x \in Part(11, 2) \/ x \in Part(11, 3) \/ x \in Part(11, 4) \/ x \in Part(11, 5)
           \/ x \in Part(11, 6)
        \/ x \in Part(11, 9) \/ x \in Part(11, 10)
        \/ x \in Part(4, 1) \/ x \in Part(4, 2)
        \/ x \in Part(8, 1) \/ x \in Part(8, 2) \/ x \in Part(8, 3) \/ x \in Part(9, 1)
           \/ x \in Part(9, 2) \/ x \in Part(9, 3) \/ x \in Part(9, 4) \/ x \in Part(9, 5)
           \/ x \in Part(9, 6) \/ x \in Part(9, 7) \/ x \in Part(9, 8) \/ x \in Part(13, 1)
           \/ x \in Part(13, 2) \/ x \in Part(13, 3) \/ x \in Part(14, 1)
        \/ x \in Part(3, 1) \/ x \in Part(3, 2) \/ x \in Part(6, 1) \/ x \in Part(6, 3)
           \/ x \in Part(6, 4)
        \/ x \in Part(7, 1)
        \/ x \in Part(7, 2) \/ x \in Part(10, 1) \/ x \in Part(10, 2) \/ x \in Part(10, 3)
           \/ x \in Part(10, 4) \/ x \in Part(10, 5)
        \/ x \in Part(12, 2) \/ x \in Part(12, 3)
  BY <1>1, InvoicesDeclared, EditsDeclared, EmbeddingsDeclared, FilesDeclared,
     AuditDeclared, TenantsDeclared, UsersDeclared, MappingsDeclared
<1>3. \A q : q \in 1..14 <=> \/ q = 1 \/ q = 2 \/ q = 3 \/ q = 4 \/ q = 5 \/ q = 6 \/ q = 7
                            \/ q = 8 \/ q = 9 \/ q = 10 \/ q = 11 \/ q = 12 \/ q = 13 \/ q = 14
  OBVIOUS
<1>4. \A x : x \in Built(14) <=> x # NumberIndex /\ \E q \in 1..14 : x \in New(q)
  BY DEF Built
<1>5. \A x : (\E q \in 1..14 : x \in New(q)) <=>
        \/ x \in New(1) \/ x \in New(2) \/ x \in New(3) \/ x \in New(4) \/ x \in New(5)
        \/ x \in New(6) \/ x \in New(7) \/ x \in New(8) \/ x \in New(9) \/ x \in New(10)
        \/ x \in New(11) \/ x \in New(12) \/ x \in New(13) \/ x \in New(14)
  BY <1>3
<1>6. /\ Part(5, 2) = {} /\ Part(6, 2) = {} /\ Part(10, 6) = {}
      /\ Part(11, 7) = {} /\ Part(11, 8) = {}
      /\ Part(1, 2) = {NumberIndex} /\ Part(2, 1) = {Extension("vector")}
      /\ Part(4, 3) = {CosineIndex} /\ Part(12, 1) = {Extension("pgcrypto")}
  BY AddTenantToInvoicesParts, AddTenantToAuditParts, AddVerificationParts, AddEditsParts,
     CreateInvoicesParts, EnableVectorParts, CreateEmbeddingsParts, CreateMappingsParts
  DEF NumberIndex
<1>7. \A x : (\E q \in 1..14 : x \in New(q)) <=>
        \/ x \in Metadata \/ x = NumberIndex
        \/ x \in {CosineIndex, Extension("vector"), Extension("pgcrypto")}
  BY <1>2, <1>5, <1>6, CreateInvoicesNews, EnableVectorNews, CreateAuditNews,
     CreateEmbeddingsNews, AddTenantToInvoicesNews, AddTenantToAuditNews, CreateUsersNews,
     CreateFilesNews, AddExtractionNews, AddVerificationNews, AddEditsNews,
     CreateMappingsNews, AddMethodNews, AddNotAnInvoiceNews
<1>8. NumberIndex \notin Metadata
  <2>1. ASSUME NEW r \in 1..14, NEW k \in 1..Len(Upgrades[r]), NumberIndex \in Part(r, k)
        PROVE  r = 1 /\ k = 2
    <3>1. ASSUME NEW s \in 1..14, NEW j \in 1..Len(Upgrades[s]), NumberIndex \in Part(s, j)
          PROVE  Dated(NumberIndex, s, j)
      BY <3>1, History DEF Part, Planned, AllDated
    <3>2. 2 \in 1..Len(Upgrades[1])
      BY Revisions DEF Revision
    <3>3. Dated(NumberIndex, 1, 2)
      BY <1>6, <3>1, <3>2, 1 \in 1..14
    <3>4. Dated(NumberIndex, r, k)
      BY <2>1, <3>1
    <3>5. QED
      BY <3>3, <3>4 DEF Dated
  <2>2. \A r \in 2..14 : NumberIndex \notin New(r)
    <3>1. ASSUME NEW r \in 2..14, NumberIndex \in New(r) PROVE FALSE
      <4>1. PICK k \in 1..Len(Upgrades[r]) : NumberIndex \in Part(r, k)
        BY <3>1 DEF New, Created, Part
      <4>2. r \in 1..14 /\ r # 1
        OBVIOUS
      <4>3. QED
        BY <2>1, <4>1, <4>2
    <3>2. QED
      BY <3>1
  <2>3. /\ NumberIndex \notin Part(1, 1) /\ NumberIndex \notin Part(1, 3)
        /\ NumberIndex \notin Part(1, 4)
    <3>1. 1 \in 1..Len(Upgrades[1]) /\ 3 \in 1..Len(Upgrades[1]) /\ 4 \in 1..Len(Upgrades[1])
      BY Revisions DEF Revision
    <3>2. QED
      BY <2>1, <3>1, 1 \in 1..14
  <2>4. \A x : x \in Metadata =>
          \/ x \in Part(1, 1) \/ x \in Part(1, 3) \/ x \in Part(1, 4)
          \/ x \in New(3) \/ x \in New(4) \/ x \in New(5) \/ x \in New(6) \/ x \in New(7)
          \/ x \in New(8) \/ x \in New(9) \/ x \in New(10) \/ x \in New(11) \/ x \in New(12)
          \/ x \in New(13) \/ x \in New(14)
    BY <1>2, CreateAuditNews, CreateEmbeddingsNews, AddTenantToInvoicesNews,
       AddTenantToAuditNews, CreateUsersNews, CreateFilesNews, AddExtractionNews,
       AddVerificationNews, AddEditsNews, CreateMappingsNews, AddMethodNews,
       AddNotAnInvoiceNews
  <2>5. /\ 3 \in 2..14 /\ 4 \in 2..14 /\ 5 \in 2..14 /\ 6 \in 2..14 /\ 7 \in 2..14 /\ 8 \in 2..14
        /\ 9 \in 2..14 /\ 10 \in 2..14 /\ 11 \in 2..14 /\ 12 \in 2..14 /\ 13 \in 2..14
        /\ 14 \in 2..14
    OBVIOUS
  <2>6. QED
    BY <2>2, <2>3, <2>4, <2>5
<1>9. Leftovers \subseteq Metadata \cup {Extension("pgcrypto")}
  <2>1. Label("extraction_status", "not_an_invoice") \in Metadata
    BY <1>2, AddNotAnInvoiceParts
  <2>2. Enum("invoice_status", {"RECEIVED", "PROCESSING", "BOOKED", "ERROR"}) \subseteq Metadata
    BY <1>2, CreateInvoicesParts
  <2>3. QED
    BY <2>1, <2>2 DEF Leftovers
<1>10. QED
  BY <1>4, <1>7, <1>8, <1>9

\* Databases of the invariant are well formed, and have the schema of their revision.
LEMMA SoundShows ==
    ASSUME NEW d, Sound(d)
    PROVE  /\ Databases(d)
           /\ SchemaAt[d.rev] \subseteq d.schema
           /\ d.schema \subseteq SchemaAt[d.rev] \cup Leftovers
           /\ d.rev = Latest =>
                /\ Metadata \subseteq d.schema
                /\ d.schema \ Metadata
                     \subseteq {CosineIndex, Extension("vector"), Extension("pgcrypto")}
<1>1. d.rev \in 0..14 /\ d.ok = TRUE /\ Fits(d.schema, d.rev) /\ RowsFit(d)
  BY DEF Sound
<1>2. \A o \in d.schema : IsObject(o)
  BY <1>1, FitsKnown
<1>3. Databases(d)
  BY <1>1, <1>2 DEF Databases, RowsFit, Latest
<1>4. SchemaAt[d.rev] = Built(d.rev)
  BY <1>1, SchemaBuilt
<1>5. Built(d.rev) \subseteq d.schema /\ d.schema \subseteq Built(d.rev) \cup Leftovers
  BY <1>1 DEF Fits
<1>6. d.rev = Latest =>
        /\ Metadata \subseteq d.schema
        /\ d.schema \ Metadata \subseteq {CosineIndex, Extension("vector"), Extension("pgcrypto")}
  BY <1>5, MetadataBuilt DEF Latest
<1>7. QED
  BY <1>3, <1>4, <1>5, <1>6

\* The schema of the database is that of its revision, the head revision is what
\* the ORM models declare, and rows fit it (migrations/versions, the models).
THEOREM SchemaIsAlwaysSound == Spec => []SchemaIsSound
<1>1. IInv => SchemaIsSound
  <2>1. SUFFICES ASSUME IInv PROVE SchemaIsSound
    OBVIOUS
  <2>2. Sound(db) /\ Sound(work) /\ target \in {NoRun} \cup 0..14 /\ inserts \in 0..MaxInserts
    BY <2>1 DEF IInv
  <2>3. TypeOK
    BY <2>2, SoundShows DEF TypeOK, Latest
  <2>4. SchemaOfRevision
    BY <2>2, SoundShows DEF SchemaOfRevision
  <2>5. LatestServesModels
    BY <2>2, SoundShows DEF LatestServesModels
  <2>6. QED
    BY <2>3, <2>4, <2>5 DEF SchemaIsSound
<1>2. QED
  BY <1>1, InvariantHolds, PTL

=============================================================================
