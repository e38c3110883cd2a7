
-------------------------- MODULE Algorithms_proofs --------------------------
(***************************************************************************)
(* Proofs about the algorithms, for every input.                           *)
(***************************************************************************)
EXTENDS Algorithms, WellFoundedInduction, FiniteSetTheorems, TLAPS

-----------------------------------------------------------------------------
(* Induction over numbers, and what folds pass through.                    *)

\* The order of the numbers as a set of pairs.
Smaller == {p \in Nat \X Nat : p[1] < p[2]}

\* There is no endless descent in it: this stands in for induction.
LEMMA SmallerIsWellFounded == IsWellFoundedOn(Smaller, Nat)
BY NatLessThanWellFounded DEF OpToRel, Smaller

\* Some numbers have a least one among them.
LEMMA Least ==
    ASSUME NEW T, T \subseteq Nat, T # {}
    PROVE  \E n \in T : \A m \in T : n <= m
<1>1. PICK x \in T : \A y \in T : ~(<<y, x>> \in Smaller)
  BY SmallerIsWellFounded, WFMin
<1>2. ASSUME NEW y \in T PROVE x <= y
  <2>1. <<y, x>> \in Nat \X Nat /\ x \in Nat /\ y \in Nat
    OBVIOUS
  <2>2. ~(y < x)
    BY <1>1, <2>1 DEF Smaller
  <2>3. QED
    BY <2>1, <2>2
<1>3. QED
  BY <1>2

\* A set that has 0 and with each number the next one has all numbers.
LEMMA SetInduction ==
    ASSUME NEW S, 0 \in S, \A n \in Nat : n \in S => n + 1 \in S
    PROVE  Nat \subseteq S
<1>1. SUFFICES ASSUME Nat \ S # {} PROVE FALSE
  OBVIOUS
<1>2. PICK n \in Nat \ S : \A m \in Nat \ S : n <= m
  BY <1>1, Least
<1>3. n # 0 /\ n - 1 \in Nat /\ n - 1 \in S
  BY <1>2
<1>4. QED
  BY <1>3

\* A set of numbers that has a bound has a greatest element.
LEMMA Greatest ==
    ASSUME NEW n \in Nat, NEW T \in SUBSET (1..n), T # {}
    PROVE  Max(T) \in T /\ \A m \in T : m <= Max(T)
<1> DEFINE Below == {n - m : m \in T}
<1>0. Below \subseteq Nat /\ Below # {}
  <2>1. \A m \in T : m \in 1..n /\ n - m \in Nat
    OBVIOUS
  <2>2. PICK m \in T : TRUE
    OBVIOUS
  <2>3. n - m \in Below
    BY <2>2
  <2>4. QED
    BY <2>1, <2>3
<1>1. PICK x \in Below : \A y \in Below : x <= y
  <2> HIDE DEF Below
  <2> QED BY <1>0, Least
<1>2. PICK k \in T : x = n - k
  BY <1>1
<1>3. \A m \in T : k >= m
  <2>1. TAKE m \in T
  <2>2. n - m \in Below
    OBVIOUS
  <2>3. QED
    BY <1>1, <1>2, <2>2
<1>4. QED
  BY <1>3 DEF Max

\* A set of numbers up to n + 1 with n + 1 in it.
LEMMA GreatestIsNew ==
    ASSUME NEW n \in Nat, NEW s \in SUBSET (1..(n + 1)), n + 1 \in s
    PROVE  Max(s) = n + 1 /\ s \ {n + 1} \in SUBSET (1..n)
<1>1. n + 1 \in Nat
  OBVIOUS
<1>2. Max(s) \in s /\ \A m \in s : m <= Max(s)
  BY <1>1, Greatest
<1>3. \A m \in s : m \in 1..(n + 1)
  OBVIOUS
<1>4. Max(s) = n + 1
  <2>1. n + 1 <= Max(s)
    BY <1>2
  <2>2. Max(s) \in 1..(n + 1)
    BY <1>2, <1>3
  <2>3. QED
    BY <2>1, <2>2
<1>5. \A m \in s \ {n + 1} : m \in 1..n
  BY <1>3
<1>6. QED
  BY <1>4, <1>5

\* The functions that fold the subsets of 1..n, the greatest element last, as
\* MapThenFoldSet does with a CHOOSE that takes the greatest.
Folds(n, S, base, step) ==
    {f \in [SUBSET (1..n) -> S] :
        \A s \in SUBSET (1..n) :
            f[s] = IF s = {} THEN base ELSE step[<<Max(s), f[s \ {Max(s)}]>>]}

\* There is such a function for every number of elements.
LEMMA FoldExists ==
    ASSUME NEW S, NEW base \in S, NEW n \in Nat, NEW step \in [(1..n) \X S -> S]
    PROVE  Folds(n, S, base, step) # {}
<1> DEFINE Good == {k \in Nat : k <= n => Folds(k, S, base, step) # {}}
<1>1. 0 \in Good
  <2>1. \A s \in SUBSET (1..0) : s = {}
    OBVIOUS
  <2> DEFINE f == [s \in SUBSET (1..0) |-> base]
  <2>2. f \in [SUBSET (1..0) -> S] /\ \A s \in SUBSET (1..0) : f[s] = base
    OBVIOUS
  <2>3. f \in Folds(0, S, base, step)
    <3> HIDE DEF f
    <3> QED BY <2>1, <2>2 DEF Folds
  <2>4. QED
    BY <2>3
<1>2. ASSUME NEW k \in Nat, k \in Good PROVE k + 1 \in Good
  <2>1. SUFFICES ASSUME k + 1 <= n PROVE Folds(k + 1, S, base, step) # {}
    OBVIOUS
  <2>2. PICK f : f \in Folds(k, S, base, step)
    BY <1>2, <2>1
  <2> DEFINE g == [s \in SUBSET (1..(k + 1)) |->
                     IF k + 1 \in s THEN step[<<k + 1, f[s \ {k + 1}]>>] ELSE f[s]]
  <2>3. f \in [SUBSET (1..k) -> S]
    BY <2>2 DEF Folds
  <2>4. ASSUME NEW s \in SUBSET (1..(k + 1)), k + 1 \in s
        PROVE  /\ s # {} /\ g[s] \in S
               /\ g[s] = step[<<Max(s), g[s \ {Max(s)}]>>]
    <3>1. Max(s) = k + 1 /\ s \ {k + 1} \in SUBSET (1..k)
      BY <2>4, GreatestIsNew
    <3>2. g[s \ {k + 1}] = f[s \ {k + 1}] /\ f[s \ {k + 1}] \in S
      <4>1. s \ {k + 1} \in SUBSET (1..(k + 1)) /\ k + 1 \notin s \ {k + 1}
        OBVIOUS
      <4>2. QED
        BY <3>1, <4>1, <2>3
    <3>3. g[s] = step[<<k + 1, f[s \ {k + 1}]>>]
      BY <2>4
    <3>4. <<k + 1, f[s \ {k + 1}]>> \in (1..n) \X S
      BY <3>2, <2>1
    <3>5. g[s] \in S
      BY <3>3, <3>4
    <3>6. QED
      BY <3>1, <3>2, <3>3, <3>5, <2>4
  <2>5. ASSUME NEW s \in SUBSET (1..(k + 1)), k + 1 \notin s
        PROVE  /\ g[s] \in S
               /\ g[s] = IF s = {} THEN base ELSE step[<<Max(s), g[s \ {Max(s)}]>>]
    <3>1. s \in SUBSET (1..k)
      BY <2>5
    <3>2. g[s] = f[s] /\ f[s] \in S
      BY <2>3, <2>5, <3>1
    <3>3. s \ {Max(s)} \in SUBSET (1..k) /\ s \ {Max(s)} \in SUBSET (1..(k + 1))
      BY <3>1
    <3>4. g[s \ {Max(s)}] = f[s \ {Max(s)}]
      BY <3>3, <2>5
    <3>5. f[s] = IF s = {} THEN base ELSE step[<<Max(s), f[s \ {Max(s)}]>>]
      BY <2>2, <3>1 DEF Folds
    <3>6. QED
      BY <3>2, <3>4, <3>5
  <2>6. g \in Folds(k + 1, S, base, step)
    <3>1. \A s \in SUBSET (1..(k + 1)) : g[s] \in S
      BY <2>4, <2>5
    <3>2. g \in [SUBSET (1..(k + 1)) -> S]
      BY <3>1
    <3>3. ASSUME NEW s \in SUBSET (1..(k + 1))
          PROVE  g[s] = IF s = {} THEN base ELSE step[<<Max(s), g[s \ {Max(s)}]>>]
      <4> HIDE DEF g
      <4> QED BY <2>4, <2>5
    <3> HIDE DEF g
    <3>4. QED
      BY <3>2, <3>3 DEF Folds
  <2>7. QED
    BY <2>6
<1>3. Nat \subseteq Good
  <2> HIDE DEF Good
  <2> QED BY <1>1, <1>2, SetInduction
<1>4. QED
  BY <1>3

\* The numbers up to k without the greatest of them.
LEMMA UpToIsFolded ==
    ASSUME NEW n \in Nat, NEW k \in 1..n
    PROVE  /\ 1..k \in SUBSET (1..n) /\ 1..k # {}
           /\ Max(1..k) = k /\ (1..k) \ {k} = 1..(k - 1)
<1>1. k - 1 \in Nat /\ (k - 1) + 1 = k
  OBVIOUS
<1>2. 1..k \in SUBSET (1..((k - 1) + 1)) /\ k \in 1..k /\ 1..k # {}
  OBVIOUS
<1>3. Max(1..k) = k
  BY <1>1, <1>2, GreatestIsNew
<1>4. (1..k) \ {k} = 1..(k - 1)
  OBVIOUS
<1>5. QED
  BY <1>2, <1>3, <1>4

\* Induction as far as a number.
LEMMA Climb ==
    ASSUME NEW n \in Nat, NEW T, 0 \in T, \A k \in 1..n : k - 1 \in T => k \in T
    PROVE  0..n \subseteq T
<1> DEFINE Reach == {k \in Nat : k <= n => k \in T}
<1>1. 0 \in Reach
  OBVIOUS
<1>2. ASSUME NEW k \in Nat, k \in Reach PROVE k + 1 \in Reach
  <2>1. SUFFICES ASSUME k + 1 <= n PROVE k + 1 \in T
    OBVIOUS
  <2>2. k + 1 \in 1..n /\ (k + 1) - 1 = k /\ k \in T
    BY <1>2, <2>1
  <2>3. QED
    BY <2>2
<1>3. Nat \subseteq Reach
  <2> HIDE DEF Reach
  <2> QED BY <1>1, <1>2, SetInduction
<1>4. QED
  BY <1>3

\* The values that a fold passes through are right as far as they are of the
\* kind that a step is defined for, so all of them are.
Passes(n, S, base, step) ==
    {h \in [0..n -> S] : h[0] = base /\ \A k \in 1..n : h[k] = step[<<k, h[k - 1]>>]}

\* A fold of the beginnings 1..k passes through what its steps give.
LEMMA FoldPasses ==
    ASSUME NEW S, NEW base \in S, NEW n \in Nat, NEW step \in [(1..n) \X S -> S], NEW g,
           g[{}] = base,
           \A s \in SUBSET (1..n) :
               s # {} /\ g[s \ {Max(s)}] \in S => g[s] = step[<<Max(s), g[s \ {Max(s)}]>>]
    PROVE  [k \in 0..n |-> g[1..k]] \in Passes(n, S, base, step)
<1> DEFINE h == [k \in 0..n |-> g[1..k]]
           T == {k \in 0..n : h[k] \in S}
<1>1. h[0] = base
  <2>1. 1..0 = {}
    OBVIOUS
  <2>2. QED
    BY <2>1
<1>2. ASSUME NEW k \in 1..n, h[k - 1] \in S PROVE h[k] = step[<<k, h[k - 1]>>] /\ h[k] \in S
  <2>1. /\ 1..k \in SUBSET (1..n) /\ 1..k # {}
        /\ Max(1..k) = k /\ (1..k) \ {k} = 1..(k - 1)
    BY UpToIsFolded
  <2>2. h[k - 1] = g[1..(k - 1)] /\ h[k] = g[1..k]
    OBVIOUS
  <2>3. g[1..k] = step[<<k, g[1..(k - 1)]>>]
    BY <1>2, <2>1, <2>2
  <2>4. QED
    BY <1>2, <2>2, <2>3
<1>3. 0..n \subseteq T
  <2>1. 0 \in T
    BY <1>1
  <2>2. ASSUME NEW k \in 1..n, k - 1 \in T PROVE k \in T
    <3>1. k \in 0..n /\ h[k - 1] \in S
      BY <2>2
    <3>2. h[k] \in S
      BY <1>2, <3>1
    <3>3. QED
      BY <3>1, <3>2
  <2> HIDE DEF T
  <2>3. QED
    BY <2>1, <2>2, Climb
<1>4. h \in [0..n -> S] /\ \A k \in 1..n : k - 1 \in 0..n
  BY <1>3
<1>5. QED
  <2>1. \A k \in 1..n : h[k] = step[<<k, h[k - 1]>>]
    BY <1>2, <1>4
  <2>2. h \in Passes(n, S, base, step)
    <3> HIDE DEF h
    <3> QED BY <1>1, <1>4, <2>1 DEF Passes
  <2>3. QED
    BY <2>2

\* What a fold of the kind looks like step by step.
Unfolded(f, n, S, base, step) ==
    /\ f \in [SUBSET (1..n) -> S] /\ f[{}] = base
    /\ \A s \in SUBSET (1..n) : s # {} =>
          /\ <<Max(s), f[s \ {Max(s)}]>> \in (1..n) \X S
          /\ f[s] = step[<<Max(s), f[s \ {Max(s)}]>>]

\* There is a function that looks like a fold.
LEMMA FoldUnfolds ==
    ASSUME NEW S, NEW base \in S, NEW n \in Nat, NEW step \in [(1..n) \X S -> S]
    PROVE  \E f : Unfolded(f, n, S, base, step)
<1> PICK f \in Folds(n, S, base, step) : TRUE
  BY FoldExists
<1>1. f \in [SUBSET (1..n) -> S]
  BY DEF Folds
<1>2. {} \in SUBSET (1..n)
  OBVIOUS
<1>3. ASSUME NEW s \in SUBSET (1..n), s # {}
      PROVE  /\ <<Max(s), f[s \ {Max(s)}]>> \in (1..n) \X S
             /\ f[s] = step[<<Max(s), f[s \ {Max(s)}]>>]
  <2>1. Max(s) \in 1..n
    BY <1>3, Greatest
  <2>2. s \ {Max(s)} \in SUBSET (1..n)
    OBVIOUS
  <2>3. QED
    BY <1>1, <1>3, <2>1, <2>2 DEF Folds
<1>4. Unfolded(f, n, S, base, step)
  BY <1>1, <1>2, <1>3 DEF Folds, Unfolded
<1>5. QED
  BY <1>4

-----------------------------------------------------------------------------
(* Unmasking.                                                              *)

\* What one step of unmasking does.
Replaced(answer, e) ==
    [n \in DOMAIN answer |-> IF answer[n] = e.placeholder THEN e.original ELSE answer[n]]

\* h are the answers on the way from the response to what Unmask returns.
UnmasksBy(h, S, entities, response) ==
    /\ h \in [0..Len(entities) -> S]
    /\ h[0] = response
    /\ \A k \in 1..Len(entities) : h[k] = Replaced(h[k - 1], entities[k])
    /\ Unmask(entities, response) = h[Len(entities)]

\* Unmasking is one replacement after the other.
LEMMA UnmaskPasses ==
    ASSUME NEW S, NEW Ent, NEW entities \in Seq(Ent), NEW response \in S,
           \A a \in S, e \in Ent : Replaced(a, e) \in S
    PROVE  \E h : UnmasksBy(h, S, entities, response)
<1> DEFINE n == Len(entities)
           step == [p \in (1..n) \X S |-> Replaced(p[2], entities[p[1]])]
           Fold(g) == g = [s \in SUBSET (1..n) |->
                             IF s = {} THEN response
                             ELSE Replaced(g[s \ {Max(s)}], entities[Max(s)])]
<1>1. n \in Nat /\ DOMAIN entities = 1..n
  OBVIOUS
<1>2. step \in [(1..n) \X S -> S]
  OBVIOUS
<1>3. PICK f : Unfolded(f, n, S, response, step)
  <2> HIDE DEF step, n
  <2> QED BY <1>1, <1>2, FoldUnfolds
<1>5. Fold(f)
  BY <1>3 DEF Unfolded
<1>6. Unmask(entities, response) = (CHOOSE g : Fold(g))[1..n]
  BY <1>1 DEF Unmask, FoldLeft, MapThenFoldSet, Replaced, Max
<1>7. PICK g : Fold(g) /\ Unmask(entities, response) = g[1..n]
  <2> HIDE DEF Fold
  <2> QED BY <1>5, <1>6
<1>8. g[{}] = response
  BY <1>7
<1>9. ASSUME NEW s \in SUBSET (1..n), s # {}, g[s \ {Max(s)}] \in S
      PROVE  g[s] = step[<<Max(s), g[s \ {Max(s)}]>>]
  <2>1. Max(s) \in 1..n
    BY <1>1, <1>9, Greatest
  <2>2. QED
    BY <1>7, <1>9, <2>1
<1> DEFINE h == [k \in 0..n |-> g[1..k]]
<1>10. h \in Passes(n, S, response, step)
  <2> HIDE DEF step, n, Fold
  <2> QED BY <1>1, <1>2, <1>8, <1>9, FoldPasses
<1>11. h[n] = g[1..n]
  BY <1>1
<1>12. /\ h \in [0..n -> S] /\ h[0] = response
       /\ \A k \in 1..n : h[k] = Replaced(h[k - 1], entities[k])
  <2>1. h \in [0..n -> S] /\ h[0] = response /\ \A k \in 1..n : h[k] = step[<<k, h[k - 1]>>]
    <3> HIDE DEF h, step
    <3> QED BY <1>10 DEF Passes
  <2>2. \A k \in 1..n : <<k, h[k - 1]>> \in (1..n) \X S
    <3> HIDE DEF h
    <3> QED BY <1>1, <2>1
  <2>3. QED
    <3> HIDE DEF h
    <3> QED BY <2>1, <2>2
<1>13. UnmasksBy(h, S, entities, response)
  <2> HIDE DEF h
  <2> QED BY <1>7, <1>11, <1>12 DEF UnmasksBy
<1>14. QED
  BY <1>13

-----------------------------------------------------------------------------
(* Masking.                                                                *)

\* The values of a kind in a text.
ValuesOf(text, kind) == {text[n].value : n \in Matches(text, kind)}

\* Values and those at later places are finite sets, no larger than the text.
LEMMA ValuesAreFinite ==
    ASSUME NEW text \in Seq(Piece), NEW kind
    PROVE  /\ IsFiniteSet(ValuesOf(text, kind))
           /\ Cardinality(ValuesOf(text, kind)) \in 0..Len(text)
           /\ \A n \in DOMAIN text :
                 /\ Later(text, kind, n) \subseteq ValuesOf(text, kind)
                 /\ IsFiniteSet(Later(text, kind, n))
                 /\ Cardinality(Later(text, kind, n)) \in 0..Cardinality(ValuesOf(text, kind))
<1> DEFINE P == Matches(text, kind)
           V == ValuesOf(text, kind)
           f == [n \in P |-> text[n].value]
<1>1. Len(text) \in Nat /\ DOMAIN text = 1..Len(text)
  OBVIOUS
<1>2. IsFiniteSet(1..Len(text)) /\ Cardinality(1..Len(text)) = Len(text)
  BY <1>1, FS_Interval
<1>3. P \in SUBSET (1..Len(text))
  BY <1>1 DEF Matches
<1>4. IsFiniteSet(P) /\ Cardinality(P) <= Len(text)
  BY <1>2, <1>3, FS_Subset
<1>5. f \in Surjection(P, V)
  BY DEF Surjection, ValuesOf
<1>6. IsFiniteSet(V) /\ Cardinality(V) <= Cardinality(P)
  <2> HIDE DEF f, P, V
  <2> QED BY <1>4, <1>5, FS_Surjection
<1>7. Cardinality(V) \in Nat /\ Cardinality(P) \in Nat
  BY <1>4, <1>6, FS_CardinalityType
<1>8. ASSUME NEW n \in DOMAIN text
      PROVE  /\ Later(text, kind, n) \in SUBSET V
             /\ IsFiniteSet(Later(text, kind, n))
             /\ Cardinality(Later(text, kind, n)) \in 0..Cardinality(V)
  <2>1. Later(text, kind, n) \in SUBSET V
    BY DEF Later, ValuesOf
  <2>2. /\ IsFiniteSet(Later(text, kind, n))
        /\ Cardinality(Later(text, kind, n)) <= Cardinality(V)
    BY <1>6, <2>1, FS_Subset
  <2>3. Cardinality(Later(text, kind, n)) \in Nat
    BY <2>2, FS_CardinalityType
  <2>4. QED
    BY <1>7, <2>1, <2>2, <2>3
<1>9. QED
  BY <1>1, <1>4, <1>6, <1>7, <1>8

\* The place where a value gets its number.
LastAt(text, kind, value, n) ==
    /\ n \in Matches(text, kind)
    /\ text[n].value = value
    /\ \A m \in Matches(text, kind) : text[m].value = value => m <= n

\* A value has the number of values from its last place on.
LEMMA Numbered ==
    ASSUME NEW text \in Seq(Piece), NEW kind, NEW value \in ValuesOf(text, kind)
    PROVE  \E n \in DOMAIN text :
              /\ LastAt(text, kind, value, n)
              /\ NumberOf(text, kind, value) = Cardinality(Later(text, kind, n))
              /\ NumberOf(text, kind, value) \in 1..Cardinality(ValuesOf(text, kind))
<1> DEFINE Places == {n \in Matches(text, kind) : text[n].value = value}
<1>1. Len(text) \in Nat /\ DOMAIN text = 1..Len(text)
  OBVIOUS
<1>2. Places # {} /\ Places \in SUBSET (1..Len(text))
  BY <1>1 DEF ValuesOf, Matches
<1>3. Max(Places) \in Places /\ \A m \in Places : m <= Max(Places)
  BY <1>1, <1>2, Greatest
<1>4. LastAt(text, kind, value, Max(Places)) /\ Max(Places) \in DOMAIN text
  BY <1>1, <1>2, <1>3 DEF LastAt
<1> DEFINE Numbers(k) == \E n \in Matches(text, kind) :
              /\ text[n].value = value
              /\ \A m \in Matches(text, kind) : text[m].value = value => m <= n
              /\ k = Cardinality(Later(text, kind, n))
<1>5. ASSUME NEW n \in DOMAIN text, LastAt(text, kind, value, n)
      PROVE  /\ Cardinality(Later(text, kind, n)) \in 1..Cardinality(ValuesOf(text, kind))
             /\ Cardinality(Later(text, kind, n)) \in 1..Len(text)
  <2>1. value \in Later(text, kind, n)
    BY <1>1, <1>5 DEF LastAt, Later, Matches
  <2>2. Cardinality(Later(text, kind, n)) # 0
    BY <2>1, ValuesAreFinite, FS_EmptySet
  <2>3. QED
    BY <2>2, ValuesAreFinite
<1>6. \E k \in 1..Len(text) : Numbers(k)
  BY <1>4, <1>5 DEF LastAt
<1>7. NumberOf(text, kind, value) = CHOOSE k \in 1..Len(text) : Numbers(k)
  BY DEF NumberOf
<1>8. Numbers(NumberOf(text, kind, value))
  <2> HIDE DEF Numbers
  <2> QED BY <1>6, <1>7
<1>9. QED
  BY <1>1, <1>5, <1>8 DEF LastAt, Matches

\* Two values of a kind have two numbers: there are fewer values after a later place.
LEMMA NumbersDiffer ==
    ASSUME NEW text \in Seq(Piece), NEW kind,
           NEW v \in ValuesOf(text, kind), NEW w \in ValuesOf(text, kind),
           NumberOf(text, kind, v) = NumberOf(text, kind, w)
    PROVE  v = w
<1>1. Len(text) \in Nat /\ DOMAIN text = 1..Len(text)
  OBVIOUS
<1>2. ASSUME NEW a \in ValuesOf(text, kind), NEW b \in ValuesOf(text, kind),
             NEW m \in DOMAIN text, NEW n \in DOMAIN text,
             LastAt(text, kind, a, m), LastAt(text, kind, b, n), m < n
      PROVE  Cardinality(Later(text, kind, m)) # Cardinality(Later(text, kind, n))
  <2>1. a \in Later(text, kind, m) /\ a \notin Later(text, kind, n)
    BY <1>1, <1>2 DEF LastAt, Later, Matches
  <2>2. Later(text, kind, n) \in SUBSET Later(text, kind, m)
    BY <1>1, <1>2 DEF Later, Matches
  <2>3. IsFiniteSet(Later(text, kind, m))
    BY ValuesAreFinite
  <2>4. QED
    BY <2>1, <2>2, <2>3, FS_Subset
<1>3. PICK m \in DOMAIN text :
          LastAt(text, kind, v, m)
          /\ NumberOf(text, kind, v) = Cardinality(Later(text, kind, m))
  BY Numbered
<1>4. PICK n \in DOMAIN text :
          LastAt(text, kind, w, n)
          /\ NumberOf(text, kind, w) = Cardinality(Later(text, kind, n))
  BY Numbered
<1>5. ~(m < n) /\ ~(n < m)
  BY <1>2, <1>3, <1>4
<1>6. m = n
  BY <1>1, <1>5
<1>7. QED
  BY <1>3, <1>4, <1>6 DEF LastAt

\* Equal placeholders stand for equal pieces.
LEMMA PlaceholdersDiffer ==
    ASSUME NEW text \in Seq(Piece), NEW m \in DOMAIN text, NEW n \in DOMAIN text
    PROVE  /\ Masked(text)[m] = Masked(text)[n] <=> text[m] = text[n]
           /\ text[m].kind = "word" <=> Masked(text)[m] = text[m]
<1>1. text[m] \in Piece /\ text[n] \in Piece
  OBVIOUS
<1>2. text[m].kind # "placeholder" /\ text[n].kind # "placeholder"
  BY <1>1 DEF Piece, ToSet, MaskingOrder
<1>3. \A k \in {m, n} :
         /\ text[k].value \in ValuesOf(text, text[k].kind)
         /\ Masked(text)[k] =
               IF text[k].kind = "word" THEN text[k]
               ELSE [kind |-> "placeholder",
                     value |-> <<text[k].kind, NumberOf(text, text[k].kind, text[k].value)>>]
  BY DEF ValuesOf, Matches, Masked, Placeholder
<1>4. text[m] = text[n] <=> text[m].kind = text[n].kind /\ text[m].value = text[n].value
  BY <1>1 DEF Piece
<1>5. ASSUME text[m].kind # "word", text[n].kind # "word", Masked(text)[m] = Masked(text)[n]
      PROVE  text[m] = text[n]
  <2>1. /\ text[m].kind = text[n].kind
        /\ NumberOf(text, text[m].kind, text[m].value)
             = NumberOf(text, text[n].kind, text[n].value)
    BY <1>3, <1>5
  <2>2. text[m].value = text[n].value
    BY <1>3, <2>1, NumbersDiffer
  <2>3. QED
    BY <1>4, <2>1, <2>2
<1>6. text[m] = text[n] => Masked(text)[m] = Masked(text)[n]
  BY <1>3
<1>7. QED
  BY <1>2, <1>3, <1>5, <1>6

\* Elements of sequences.
LEMMA ElementsOfBoth ==
    ASSUME NEW T, NEW a \in Seq(T), NEW b \in Seq(T)
    PROVE  a \o b \in Seq(T) /\ ToSet(a \o b) = ToSet(a) \cup ToSet(b)
<1>1. /\ a \o b \in Seq(T) /\ Len(a \o b) = Len(a) + Len(b)
      /\ DOMAIN a = 1..Len(a) /\ DOMAIN b = 1..Len(b) /\ DOMAIN (a \o b) = 1..Len(a \o b)
      /\ Len(a) \in Nat /\ Len(b) \in Nat
  OBVIOUS
<1>2. /\ \A n \in 1..Len(a) : (a \o b)[n] = a[n] /\ n \in 1..Len(a \o b)
      /\ \A n \in 1..Len(b) : (a \o b)[Len(a) + n] = b[n] /\ Len(a) + n \in 1..Len(a \o b)
  BY <1>1
<1>3. \A n \in 1..Len(a \o b) : n \in 1..Len(a) \/ (n - Len(a) \in 1..Len(b)
                                                   /\ n = Len(a) + (n - Len(a)))
  BY <1>1
<1>4. ToSet(a \o b) \subseteq ToSet(a) \cup ToSet(b)
  <2>1. ASSUME NEW n \in 1..Len(a \o b) PROVE (a \o b)[n] \in ToSet(a) \cup ToSet(b)
    <3>1. CASE n \in 1..Len(a)
      BY <1>1, <1>2, <3>1 DEF ToSet
    <3>2. CASE n - Len(a) \in 1..Len(b) /\ n = Len(a) + (n - Len(a))
      <4> DEFINE m == n - Len(a)
      <4>1. m \in 1..Len(b) /\ n = Len(a) + m
        BY <3>2
      <4> HIDE DEF m
      <4>2. QED
        BY <1>1, <1>2, <4>1 DEF ToSet
    <3>3. QED
      BY <1>3, <3>1, <3>2
  <2>2. QED
    BY <1>1, <2>1 DEF ToSet
<1>5. ToSet(a) \subseteq ToSet(a \o b) /\ ToSet(b) \subseteq ToSet(a \o b)
  BY <1>1, <1>2 DEF ToSet
<1>6. QED
  BY <1>1, <1>4, <1>5

\* A reversed sequence has the same elements.
LEMMA ElementsOfReverse ==
    ASSUME NEW T, NEW a \in Seq(T)
    PROVE  Reverse(a) \in Seq(T) /\ ToSet(Reverse(a)) = ToSet(a)
<1>1. /\ Len(a) \in Nat /\ DOMAIN a = 1..Len(a)
      /\ \A n \in 1..Len(a) : (Len(a) - n) + 1 \in 1..Len(a) /\ a[n] \in T
      /\ \A n \in 1..Len(a) : (Len(a) - ((Len(a) - n) + 1)) + 1 = n
  OBVIOUS
<1>2. Reverse(a) = [n \in 1..Len(a) |-> a[(Len(a) - n) + 1]]
  BY DEF Reverse
<1>3. Reverse(a) \in Seq(T) /\ DOMAIN Reverse(a) = 1..Len(a)
  BY <1>1, <1>2
<1>4. \A n \in 1..Len(a) : Reverse(a)[n] = a[(Len(a) - n) + 1]
  BY <1>2
<1>5. \A n \in 1..Len(a) : Reverse(a)[(Len(a) - n) + 1] = a[n]
  BY <1>1, <1>4
<1>6. QED
  BY <1>1, <1>3, <1>4, <1>5 DEF ToSet

\* The entities of all kinds together.
Kinds == ToSet(MaskingOrder)
EntitiesIn(text) == UNION {ToSet(EntitiesOf(text, kind)) : kind \in Kinds}

\* The entities of a kind are numbered by the values of the kind.
LEMMA EntitiesOfKind ==
    ASSUME NEW text \in Seq(Piece), NEW kind \in Kinds
    PROVE  /\ EntitiesOf(text, kind) \in Seq(EntitiesIn(text))
           /\ DOMAIN EntitiesOf(text, kind) = 1..Cardinality(ValuesOf(text, kind))
           /\ \A k \in 1..Cardinality(ValuesOf(text, kind)) :
                 EntitiesOf(text, kind)[k] =
                   [placeholder |-> Placeholder(kind, k),
                    original |-> [kind |-> kind,
                                  value |-> CHOOSE v \in ValuesOf(text, kind) :
                                               NumberOf(text, kind, v) = k]]
<1> DEFINE n == Cardinality(ValuesOf(text, kind))
           q == EntitiesOf(text, kind)
<1>1. n \in Nat
  BY ValuesAreFinite
<1>2. q = [k \in 1..n |->
             [placeholder |-> Placeholder(kind, k),
              original |-> [kind |-> kind,
                            value |-> CHOOSE v \in ValuesOf(text, kind) :
                                         NumberOf(text, kind, v) = k]]]
  BY DEF EntitiesOf, ValuesOf
<1>3. DOMAIN q = 1..n
  BY <1>2
<1>4. \A k \in 1..n : q[k] \in EntitiesIn(text)
  <2> HIDE DEF q, n
  <2>1. ToSet(q) \subseteq EntitiesIn(text)
    BY DEF EntitiesIn, q
  <2>2. QED
    BY <1>3, <2>1 DEF ToSet
<1>5. q \in Seq(EntitiesIn(text))
  BY <1>1, <1>2, <1>4
<1>6. QED
  BY <1>2, <1>3, <1>5

\* The entities are collected kind by kind and reversed at last.
LEMMA EntitiesPass ==
    ASSUME NEW text \in Seq(Piece)
    PROVE  \E h \in [0..5 -> Seq(EntitiesIn(text))] :
              /\ h[0] = << >>
              /\ \A k \in 1..5 : h[k] = h[k - 1] \o EntitiesOf(text, MaskingOrder[k])
              /\ Entities(text) = Reverse(h[5])
<1> DEFINE S == Seq(EntitiesIn(text))
           step == [p \in (1..5) \X S |-> p[2] \o EntitiesOf(text, MaskingOrder[p[1]])]
           Fold(g) == g = [s \in SUBSET (1..5) |->
                             IF s = {} THEN << >>
                             ELSE g[s \ {Max(s)}] \o EntitiesOf(text, MaskingOrder[Max(s)])]
<1>1. << >> \in S /\ DOMAIN MaskingOrder = 1..5 /\ 5 \in Nat
  BY DEF MaskingOrder
<1>2. ASSUME NEW k \in 1..5 PROVE EntitiesOf(text, MaskingOrder[k]) \in S
  <2> DEFINE kind == MaskingOrder[k]
  <2>1. kind \in Kinds
    BY <1>1 DEF Kinds, ToSet
  <2> HIDE DEF kind
  <2>2. EntitiesOf(text, kind) \in S
    BY <2>1, EntitiesOfKind
  <2>3. QED
    BY <2>2 DEF kind
<1>3. step \in [(1..5) \X S -> S]
  BY <1>2
<1>4. PICK f : Unfolded(f, 5, S, << >>, step)
  <2> HIDE DEF step, S
  <2> QED BY <1>1, <1>3, FoldUnfolds
<1>5. Fold(f)
  BY <1>4 DEF Unfolded
<1>6. Entities(text) = Reverse((CHOOSE g : Fold(g))[1..5])
  BY <1>1 DEF Entities, FoldLeft, MapThenFoldSet, Max
<1>7. PICK g : Fold(g) /\ Entities(text) = Reverse(g[1..5])
  <2> HIDE DEF Fold
  <2> QED BY <1>5, <1>6
<1>8. g[{}] = << >>
  BY <1>7
<1>9. ASSUME NEW s \in SUBSET (1..5), s # {}, g[s \ {Max(s)}] \in S
      PROVE  g[s] = step[<<Max(s), g[s \ {Max(s)}]>>]
  <2>1. Max(s) \in 1..5
    BY <1>1, <1>9, Greatest
  <2>2. QED
    BY <1>7, <1>9, <2>1
<1> DEFINE h == [k \in 0..5 |-> g[1..k]]
<1>10. h \in Passes(5, S, << >>, step)
  <2> HIDE DEF step, S, Fold
  <2> QED BY <1>1, <1>3, <1>8, <1>9, FoldPasses
<1>11. h[5] = g[1..5]
  OBVIOUS
<1>12. h \in [0..5 -> S] /\ h[0] = << >> /\ \A k \in 1..5 : h[k] = step[<<k, h[k - 1]>>]
  <2> HIDE DEF h, step, S
  <2> QED BY <1>10 DEF Passes
<1>13. \A k \in 1..5 : h[k] = h[k - 1] \o EntitiesOf(text, MaskingOrder[k])
  <2> HIDE DEF h
  <2>1. \A k \in 1..5 : <<k, h[k - 1]>> \in (1..5) \X S
    <3> HIDE DEF S
    <3> QED BY <1>12
  <2>2. QED
    BY <1>12, <2>1
<1>14. QED
  <2> HIDE DEF h
  <2> QED BY <1>7, <1>11, <1>12, <1>13

\* The list of entities has those of each kind.
LEMMA EntitiesAreAll ==
    ASSUME NEW text \in Seq(Piece)
    PROVE  /\ Entities(text) \in Seq(EntitiesIn(text))
           /\ \A e \in EntitiesIn(text) :
                 \E k \in 1..Len(Entities(text)) : Entities(text)[k] = e
<1>1. PICK h \in [0..5 -> Seq(EntitiesIn(text))] :
         /\ h[0] = << >>
         /\ \A k \in 1..5 : h[k] = h[k - 1] \o EntitiesOf(text, MaskingOrder[k])
         /\ Entities(text) = Reverse(h[5])
  BY EntitiesPass
<1>2. \A k \in 1..5 : h[k - 1] \in Seq(EntitiesIn(text)) /\ h[k] \in Seq(EntitiesIn(text))
  OBVIOUS
<1>3. \A k \in 1..5 : EntitiesOf(text, MaskingOrder[k]) \in Seq(EntitiesIn(text))
  <2>1. \A k \in 1..5 : MaskingOrder[k] \in Kinds
    BY DEF Kinds, ToSet, MaskingOrder
  <2>2. QED
    BY <2>1, EntitiesOfKind
<1>4. ASSUME NEW k \in 1..5
      PROVE  ToSet(h[k]) = ToSet(h[k - 1]) \cup ToSet(EntitiesOf(text, MaskingOrder[k]))
  <2> DEFINE a == h[k - 1]
             b == EntitiesOf(text, MaskingOrder[k])
  <2>1. a \in Seq(EntitiesIn(text)) /\ b \in Seq(EntitiesIn(text)) /\ h[k] = a \o b
    BY <1>1, <1>2, <1>3
  <2> HIDE DEF a, b
  <2>2. ToSet(a \o b) = ToSet(a) \cup ToSet(b)
    BY <2>1, ElementsOfBoth
  <2>3. QED
    BY <2>1, <2>2 DEF a, b
<1>5. EntitiesIn(text) \subseteq ToSet(h[5])
  <2>1. \A kind \in Kinds : \E k \in 1..5 : kind = MaskingOrder[k]
    BY DEF Kinds, ToSet, MaskingOrder
  <2>2. \A k \in 1..5 : ToSet(h[k]) \subseteq ToSet(h[5])
    <3>1. /\ ToSet(h[1]) \subseteq ToSet(h[2]) /\ ToSet(h[2]) \subseteq ToSet(h[3])
          /\ ToSet(h[3]) \subseteq ToSet(h[4]) /\ ToSet(h[4]) \subseteq ToSet(h[5])
      <4>1. /\ ToSet(h[2 - 1]) \subseteq ToSet(h[2]) /\ ToSet(h[3 - 1]) \subseteq ToSet(h[3])
            /\ ToSet(h[4 - 1]) \subseteq ToSet(h[4]) /\ ToSet(h[5 - 1]) \subseteq ToSet(h[5])
        BY <1>4
      <4>2. QED
        BY <4>1
    <3>2. \A k \in 1..5 : k = 1 \/ k = 2 \/ k = 3 \/ k = 4 \/ k = 5
      OBVIOUS
    <3>3. QED
      BY <3>1, <3>2
  <2>3. ASSUME NEW kind \in Kinds PROVE ToSet(EntitiesOf(text, kind)) \subseteq ToSet(h[5])
    <3>1. PICK k \in 1..5 : kind = MaskingOrder[k]
      BY <2>1
    <3>2. QED
      BY <1>4, <2>2, <3>1
  <2>4. QED
    BY <2>3 DEF EntitiesIn
<1>6. /\ Entities(text) \in Seq(EntitiesIn(text))
      /\ ToSet(Entities(text)) = ToSet(h[5])
  BY <1>1, <1>2, ElementsOfReverse
<1>7. DOMAIN Entities(text) = 1..Len(Entities(text))
  BY <1>6
<1>8. QED
  BY <1>5, <1>6, <1>7 DEF ToSet

\* An entity stands for every piece with its placeholder, and every piece that
\* was replaced has one.
LEMMA EntitiesFit ==
    ASSUME NEW text \in Seq(Piece), NEW n \in DOMAIN text
    PROVE  /\ \A e \in EntitiesIn(text) :
                 /\ e.placeholder = Masked(text)[n] => e.original = text[n]
                 /\ e.placeholder # text[n]
           /\ text[n].kind # "word" =>
                 \E e \in EntitiesIn(text) : e.placeholder = Masked(text)[n]
<1> DEFINE kind == text[n].kind
           value == text[n].value
<1>1. text[n] \in Piece /\ text[n] = [kind |-> kind, value |-> value]
  <2>1. text[n] \in Piece
    OBVIOUS
  <2>2. QED
    BY <2>1 DEF Piece
<1>2. kind # "placeholder" /\ (kind = "word" \/ kind \in Kinds)
  BY <1>1 DEF Piece, Kinds, ToSet, MaskingOrder
<1>3. value \in ValuesOf(text, kind)
  BY DEF ValuesOf, Matches
<1>4. Masked(text)[n] = IF kind = "word" THEN text[n]
                          ELSE Placeholder(kind, NumberOf(text, kind, value))
  BY DEF Masked
<1>5. ASSUME NEW e \in EntitiesIn(text)
      PROVE  /\ e.placeholder = Masked(text)[n] => e.original = text[n]
             /\ e.placeholder # text[n]
  <2>1. PICK other \in Kinds : e \in ToSet(EntitiesOf(text, other))
    BY <1>5 DEF EntitiesIn
  <2>2. PICK k \in 1..Cardinality(ValuesOf(text, other)) : e = EntitiesOf(text, other)[k]
    BY <2>1, EntitiesOfKind DEF ToSet
  <2> DEFINE chosen == CHOOSE v \in ValuesOf(text, other) : NumberOf(text, other, v) = k
  <2>3. e = [placeholder |-> Placeholder(other, k),
             original |-> [kind |-> other, value |-> chosen]]
    BY <2>2, EntitiesOfKind
  <2>4. e.placeholder = [kind |-> "placeholder", value |-> <<other, k>>]
        /\ e.original = [kind |-> other, value |-> chosen]
    <3> HIDE DEF chosen
    <3> QED BY <2>3 DEF Placeholder
  <2>5. e.placeholder # text[n]
    BY <1>2, <2>4
  <2>6. ASSUME e.placeholder = Masked(text)[n] PROVE e.original = text[n]
    <3>1. kind # "word" /\ Masked(text)[n] = [kind |-> "placeholder",
                              value |-> <<kind, NumberOf(text, kind, value)>>]
      BY <1>4, <2>5, <2>6 DEF Placeholder
    <3>2. other = kind /\ k = NumberOf(text, kind, value)
      <4>1. <<other, k>> = <<kind, NumberOf(text, kind, value)>>
        BY <2>4, <2>6, <3>1
      <4>2. QED
        BY <4>1
    <3>3. chosen \in ValuesOf(text, kind) /\ NumberOf(text, kind, chosen) = k
      <4> HIDE DEF kind, value
      <4> QED BY <1>3, <3>2
    <3> HIDE DEF chosen
    <3>4. chosen = value
      BY <1>3, <3>2, <3>3, NumbersDiffer
    <3>5. QED
      BY <1>1, <2>4, <3>2, <3>4
  <2>7. QED
    BY <2>5, <2>6
<1>6. ASSUME kind # "word"
      PROVE  \E e \in EntitiesIn(text) : e.placeholder = Masked(text)[n]
  <2> DEFINE k == NumberOf(text, kind, value)
             q == EntitiesOf(text, kind)
  <2>1. kind \in Kinds /\ k \in 1..Cardinality(ValuesOf(text, kind))
    BY <1>2, <1>3, <1>6, Numbered
  <2>2. q[k].placeholder = Placeholder(kind, k) /\ q[k] \in ToSet(q)
    <3> HIDE DEF k, kind
    <3>1. /\ k \in DOMAIN q
          /\ q[k] = [placeholder |-> Placeholder(kind, k),
                     original |-> [kind |-> kind,
                                   value |-> CHOOSE v \in ValuesOf(text, kind) :
                                                NumberOf(text, kind, v) = k]]
      BY <2>1, EntitiesOfKind
    <3>2. QED
      BY <3>1 DEF ToSet
  <2>3. q[k] \in EntitiesIn(text)
    BY <2>1, <2>2 DEF EntitiesIn
  <2>4. Masked(text)[n] = Placeholder(kind, k)
    BY <1>4, <1>6
  <2> HIDE DEF q, k
  <2>5. QED
    BY <2>2, <2>3, <2>4
<1>7. QED
  BY <1>5, <1>6

\* Unmasking puts every piece back.
LEMMA UnmaskedIsText ==
    ASSUME NEW text \in Seq(Piece)
    PROVE  Unmask(Entities(text), Masked(text)) = text
<1> DEFINE es == Entities(text)
           Ent == EntitiesIn(text)
           masked == Masked(text)
           \* An answer on the way: some placeholders have become their pieces.
           S == {a \in [DOMAIN text -> ToSet(text) \cup ToSet(masked)] :
                    \A n \in DOMAIN text : a[n] \in {masked[n], text[n]}}
<1>1. DOMAIN masked = DOMAIN text /\ \A n \in DOMAIN text : masked[n] \in ToSet(masked)
                                                        /\ text[n] \in ToSet(text)
  BY DEF Masked, ToSet
<1>2. masked \in S
  <2>1. masked = [n \in DOMAIN text |-> masked[n]]
    BY DEF Masked
  <2> HIDE DEF masked
  <2>2. QED
    BY <1>1, <2>1
<1>3. es \in Seq(Ent) /\ \A e \in Ent : \E k \in 1..Len(es) : es[k] = e
  BY EntitiesAreAll
<1>4. ASSUME NEW a \in S, NEW e \in Ent
      PROVE  /\ Replaced(a, e) \in S
             /\ \A n \in DOMAIN text :
                   /\ a[n] = text[n] => Replaced(a, e)[n] = text[n]
                   /\ masked[n] = e.placeholder => Replaced(a, e)[n] = text[n]
  <2>1. DOMAIN a = DOMAIN text
    OBVIOUS
  <2>2. Replaced(a, e) = [n \in DOMAIN text |->
                            IF a[n] = e.placeholder THEN e.original ELSE a[n]]
    BY <2>1 DEF Replaced
  <2>3. ASSUME NEW n \in DOMAIN text
        PROVE  /\ Replaced(a, e)[n] \in {masked[n], text[n]}
               /\ a[n] = text[n] => Replaced(a, e)[n] = text[n]
               /\ masked[n] = e.placeholder => Replaced(a, e)[n] = text[n]
    <3>1. a[n] = masked[n] \/ a[n] = text[n]
      OBVIOUS
    <3>2. e.placeholder = masked[n] => e.original = text[n]
      BY EntitiesFit
    <3>3. e.placeholder # text[n]
      BY EntitiesFit
    <3>4. Replaced(a, e)[n] = IF a[n] = e.placeholder THEN e.original ELSE a[n]
      BY <2>2
    <3> HIDE DEF S, masked
    <3>5. QED
      BY <3>1, <3>2, <3>3, <3>4
  <2>4. Replaced(a, e) \in S
    <3> HIDE DEF masked
    <3> QED BY <1>1, <2>2, <2>3
  <2>5. QED
    BY <2>3, <2>4
<1>5. PICK h : UnmasksBy(h, S, es, masked)
  <2> HIDE DEF S, es, Ent, masked
  <2>1. \A a \in S, e \in Ent : Replaced(a, e) \in S
    BY <1>4
  <2>2. es \in Seq(Ent)
    BY <1>3
  <2>3. QED
    BY <1>2, <2>1, <2>2, UnmaskPasses
<1>6. /\ Len(es) \in Nat
      /\ h \in [0..Len(es) -> S] /\ h[0] = masked
      /\ \A k \in 1..Len(es) : h[k] = Replaced(h[k - 1], es[k])
      /\ Unmask(es, masked) = h[Len(es)]
  <2> HIDE DEF S, es, Ent, masked
  <2> QED BY <1>3, <1>5 DEF UnmasksBy
\* Once an entity was replaced its pieces stay put back.
<1>7. ASSUME NEW n \in DOMAIN text
      PROVE  h[Len(es)][n] = text[n]
  <2> DEFINE Put(k) == (masked[n] = text[n] \/ \E j \in 1..k : es[j].placeholder = masked[n])
                         => h[k][n] = text[n]
             T == {k \in 0..Len(es) : Put(k)}
  <2>1. 0 \in T
    BY <1>6
  <2>2. ASSUME NEW k \in 1..Len(es), k - 1 \in T PROVE k \in T
    <3>1. h[k - 1] \in S /\ es[k] \in Ent /\ h[k] = Replaced(h[k - 1], es[k])
      <4> HIDE DEF S, es, Ent
      <4>1. k - 1 \in 0..Len(es)
        BY <1>6
      <4>2. es \in Seq(Ent)
        BY <1>3
      <4>3. es[k] \in Ent
        BY <1>6, <4>2
      <4>4. QED
        BY <1>6, <4>1, <4>3
    <3>2. /\ h[k - 1][n] = text[n] => h[k][n] = text[n]
          /\ masked[n] = es[k].placeholder => h[k][n] = text[n]
      <4> HIDE DEF S, es, Ent, masked
      <4> QED BY <1>4, <3>1
    <3>3. \A j \in 1..k : j \in 1..(k - 1) \/ j = k
      BY <1>6
    <3> HIDE DEF es, masked
    <3>4. QED
      BY <2>2, <3>2, <3>3
  <2>3. 0..Len(es) \subseteq T
    <3> HIDE DEF T
    <3> QED BY <1>6, <2>1, <2>2, Climb
  <2>4. Put(Len(es))
    BY <1>6, <2>3
  <2>5. masked[n] = text[n] \/ \E j \in 1..Len(es) : es[j].placeholder = masked[n]
    <3>1. CASE text[n].kind = "word"
      BY <3>1, PlaceholdersDiffer
    <3>2. CASE text[n].kind # "word"
      <4>1. PICK e \in Ent : e.placeholder = masked[n]
        BY <3>2, EntitiesFit
      <4> HIDE DEF es, masked, Ent
      <4>2. QED
        BY <1>3, <4>1
    <3>3. QED
      BY <3>1, <3>2
  <2>6. QED
    BY <2>4, <2>5
<1>8. h[Len(es)] \in [DOMAIN text -> ToSet(text) \cup ToSet(masked)]
  BY <1>6
<1>9. h[Len(es)] = text
  <2>1. text = [n \in DOMAIN text |-> text[n]]
    OBVIOUS
  <2> HIDE DEF es, masked, S
  <2>2. QED
    BY <1>7, <1>8, <2>1
<1>10. QED
  BY <1>6, <1>9

-----------------------------------------------------------------------------
(* Warnings, and the checks of uploads.                                    *)

\* Sums of rounded amounts are off by one cent at most.
LEMMA RoundedSums ==
    ASSUME NEW a \in Nat, NEW b \in Nat
    PROVE  ~Differs(Rounded(a), Rounded(b), Rounded(a + b))
<1>1. \A n \in Nat : Rounded(n) \in Int /\ 10 * Rounded(n) <= n + 5 /\ n + 5 < 10 * Rounded(n) + 10
  BY DEF Rounded
<1>2. a + b \in Nat
  OBVIOUS
<1> DEFINE x == Rounded(a)
           y == Rounded(b)
           z == Rounded(a + b)
<1>3. /\ x \in Int /\ 10 * x <= a + 5 /\ a + 5 < 10 * x + 10
      /\ y \in Int /\ 10 * y <= b + 5 /\ b + 5 < 10 * y + 10
      /\ z \in Int /\ 10 * z <= a + b + 5 /\ a + b + 5 < 10 * z + 10
  BY <1>1, <1>2
<1> HIDE DEF x, y, z
<1>4. x + y - z <= 1 /\ z - x - y <= 1
  BY <1>3
<1>5. QED
  BY <1>3, <1>4 DEF Differs, x, y, z

\* An invoice whose amounts were each rounded has no warning (_compute_warnings).
LEMMA RoundingForgiven ==
    ASSUME In \in Nat \X Nat
    PROVE  RoundingIsForgiven
<1>1. In[1] \in Nat /\ In[2] \in Nat
  OBVIOUS
<1> DEFINE i == [net |-> Rounded(In[1]), tax |-> Rounded(In[2]), total |-> Rounded(In[1] + In[2]),
                 currency |-> "EUR"]
<1>2. ~Differs(i.net, i.tax, i.total)
  BY <1>1, RoundedSums
<1>3. Warnings(i) = {}
  BY <1>2 DEF Warnings
<1>4. QED
  BY <1>3 DEF RoundingIsForgiven

\* The kinds of an upload are told apart by its first characters.
LEMMA OneKind ==
    ASSUME In \in Content
    PROVE  OneKindOfFile
<1> DEFINE Fits(k) == Answer([size |-> 1, mime |-> k, content |-> In]) = 201
<1>1. ASSUME NEW k \in AllowedMimeTypes, Fits(k) PROVE CheckMagicBytes(In, k)
  BY <1>1 DEF Answer
<1>2. ASSUME LooksLikeXml(In), In.tokens # << >>, NEW k \in {"application/pdf", "image/png", "image/jpeg"}
      PROVE  In.tokens[1] # Signature(k)
  <2>1. FirstToken(In.tokens) \in {"<?xml", "<name"}
    BY <1>2 DEF LooksLikeXml, LooksLikeXmlText
  <2>2. In.tokens \in Seq(STRING)
    BY DEF Content
  <2> DEFINE solid == {n \in DOMAIN In.tokens : In.tokens[n] # White}
  <2>3. CASE In.tokens[1] = White
    BY <2>3 DEF White, Signature
  <2>4. CASE In.tokens[1] # White
    <3>1. DOMAIN In.tokens = 1..Len(In.tokens) /\ Len(In.tokens) \in Nat /\ Len(In.tokens) # 0
      BY <1>2, <2>2
    <3>2. 1 \in solid /\ \A n \in solid : 1 <= n /\ n \in Nat
      BY <2>4, <3>1
    <3>3. Min(solid) = 1
      <4> HIDE DEF solid
      <4> QED BY <3>2 DEF Min
    <3>4. FirstToken(In.tokens) = In.tokens[1]
      BY <3>2, <3>3 DEF FirstToken
    <3>5. QED
      BY <2>1, <3>4 DEF Signature
  <2>5. QED
    BY <2>3, <2>4
<1>3. \A k, l \in {"application/pdf", "image/png", "image/jpeg"} :
         Signature(k) = Signature(l) => k = l
  BY DEF Signature
<1>4. ASSUME NEW k \in AllowedMimeTypes, NEW l \in AllowedMimeTypes, Fits(k), Fits(l)
      PROVE  k = l \/ {k, l} = XmlMimeTypes
  <2>1. CheckMagicBytes(In, k) /\ CheckMagicBytes(In, l)
    BY <1>1, <1>4
  <2>2. CASE k \in XmlMimeTypes /\ l \in XmlMimeTypes
    BY <2>2 DEF XmlMimeTypes
  <2>3. CASE k \in XmlMimeTypes /\ l \notin XmlMimeTypes
    BY <1>2, <2>1, <2>3 DEF CheckMagicBytes, AllowedMimeTypes
  <2>4. CASE k \notin XmlMimeTypes /\ l \in XmlMimeTypes
    BY <1>2, <2>1, <2>4 DEF CheckMagicBytes, AllowedMimeTypes
  <2>5. CASE k \notin XmlMimeTypes /\ l \notin XmlMimeTypes
    BY <1>3, <2>1, <2>5 DEF CheckMagicBytes, AllowedMimeTypes
  <2>6. QED
    BY <2>2, <2>3, <2>4, <2>5
<1>5. QED
  <2> HIDE DEF Fits
  <2>1. \A k, l \in AllowedMimeTypes : Fits(k) /\ Fits(l) => k = l \/ {k, l} = XmlMimeTypes
    BY <1>4
  <2>2. QED
    BY <2>1 DEF OneKindOfFile, Fits

\* A tuple of six is a sequence.
LEMMA SixOf ==
    ASSUME NEW S, NEW a \in S, NEW b \in S, NEW c \in S, NEW d \in S, NEW e \in S, NEW f \in S
    PROVE  <<a, b, c, d, e, f>> \in Seq(S) /\ Len(<<a, b, c, d, e, f>>) = 6
OBVIOUS

\* The lesser of two numbers.
LEMMA LesserOf ==
    ASSUME NEW a \in Nat, NEW b \in Nat
    PROVE  Min({a, b}) \in Nat /\ Min({a, b}) = IF a <= b THEN a ELSE b
<1> DEFINE P(x) == \A y \in {a, b} : x <= y
           c == IF a <= b THEN a ELSE b
<1>1. c \in {a, b} /\ P(c) /\ \A x \in {a, b} : P(x) => x = c
  OBVIOUS
<1>2. (CHOOSE x \in {a, b} : P(x)) = c
  <2> HIDE DEF P, c
  <2> QED BY <1>1
<1>3. QED
  BY <1>2 DEF Min

\* The name without its path has no separator in it, and is what follows the last one.
LEMMA BaseNames ==
    ASSUME NEW name \in Seq(STRING)
    PROVE  /\ BaseName(name) \in Seq(STRING)
           /\ \A n \in DOMAIN BaseName(name) : BaseName(name)[n] \notin Separators
           /\ \A n \in DOMAIN name :
                 (n = 1 \/ name[n - 1] \in Separators) /\ (\A m \in n..Len(name) : name[m] \notin Separators)
                   => BaseName(name) = SubSeq(name, n, Len(name))
<1> DEFINE cuts == {n \in DOMAIN name : name[n] \in Separators}
           last == Max(cuts)
           base == BaseName(name)
<1>1. Len(name) \in Nat /\ DOMAIN name = 1..Len(name) /\ cuts \in SUBSET (1..Len(name))
  OBVIOUS
<1>2. CASE cuts = {}
  <2>1. base = name
    BY <1>2 DEF BaseName
  <2>2. \A n \in DOMAIN name : name[n] \notin Separators
    BY <1>2
  <2>3. SubSeq(name, 1, Len(name)) = name
    OBVIOUS
  <2>4. \A n \in DOMAIN name : n # 1 => n - 1 \in DOMAIN name
    BY <1>1
  <2>5. QED
    BY <2>1, <2>2, <2>3, <2>4
<1>3. CASE cuts # {}
  <2>1. last \in cuts /\ \A m \in cuts : m <= last
    BY <1>1, <1>3, Greatest DEF Max
  <2>2. base = SubSeq(name, last + 1, Len(name))
    BY <1>3 DEF BaseName
  <2> HIDE DEF last
  <2>3. last \in 1..Len(name)
    BY <1>1, <2>1
  <2>4. /\ base \in Seq(STRING) /\ Len(base) = Len(name) - last
        /\ \A n \in 1..(Len(name) - last) : base[n] = name[last + n]
    <3> HIDE DEF cuts, base
    <3>1. last \in Nat /\ last + 1 \in 1..(Len(name) + 1) /\ last + 1 \in Nat
      BY <1>1, <2>3
    <3>7. last \in Nat /\ Len(name) \in Nat /\ last <= Len(name)
      BY <1>1, <2>3
    <3>2. base \in Seq(STRING)
      BY <1>1, <2>2, <3>1
    <3>3. Len(base) = Len(name) - last
      <4>1. CASE last + 1 <= Len(name)
        <5>1. Len(base) = (Len(name) - (last + 1)) + 1
          BY <1>1, <2>2, <3>1, <4>1
        <5>2. QED
          BY <1>1, <3>1, <5>1
      <4>2. CASE last = Len(name)
        <5>1. base = << >>
          BY <1>1, <2>2, <2>3, <3>1, <4>2
        <5>2. QED
          BY <1>1, <4>2, <5>1
      <4>3. QED
        <5>1. last + 1 <= Len(name) \/ last = Len(name)
          BY <3>7
        <5>2. QED
          BY <4>1, <4>2, <5>1
    <3>4. \A n \in 1..(Len(name) - last) : base[n] = name[(last + 1) + n - 1]
      BY <1>1, <2>2, <2>3, <3>1
    <3>5. \A n \in 1..(Len(name) - last) : (last + 1) + n - 1 = last + n
      BY <3>1
    <3>6. QED
      BY <3>2, <3>3, <3>4, <3>5
  <2>5. ASSUME NEW n \in DOMAIN base PROVE base[n] \notin Separators
    <3>1. n \in 1..(Len(name) - last) /\ last + n \in DOMAIN name /\ ~(last + n <= last)
      BY <1>1, <2>3, <2>4
    <3>2. QED
      BY <2>1, <2>4, <3>1
  <2>6. ASSUME NEW n \in DOMAIN name, n = 1 \/ name[n - 1] \in Separators,
               \A m \in n..Len(name) : name[m] \notin Separators
        PROVE  base = SubSeq(name, n, Len(name))
    <3>1. last < n
      BY <1>1, <2>1, <2>3, <2>6
    <3>2. n - 1 \in cuts
      BY <1>1, <2>3, <2>6, <3>1
    <3>3. n - 1 <= last
      BY <2>1, <3>2
    <3>4. last + 1 = n
      BY <1>1, <2>3, <3>1, <3>3
    <3>5. QED
      BY <2>2, <3>4
  <2>7. QED
    BY <2>4, <2>5, <2>6
<1>4. QED
  BY <1>2, <1>3

\* The characters of a stored name.
Chars == STRING \cup {"u", "p", "l", "o", "a", "d"}

\* A stored name is usable and the beginning of the given one (_sanitize_filename).
LEMMA NameIsGiven ==
    ASSUME In \in Seq(STRING)
    PROVE  StoredNameIsGiven
<1> DEFINE base == BaseName(In)
           safe == IF base = << >> THEN Upload ELSE base
           name == SanitizeFilename(In)
           c == Min({MaxName, Len(safe)})
<1>1. MaxName \in Nat /\ MaxName >= 1
  <2>1. MaxName \in Nat \ {0}
    BY InputsAssumption, Zenon
  <2>2. QED
    BY <2>1
<1>2. Upload \in Seq(Chars) /\ Len(Upload) = 6 /\ \A n \in 1..6 : Upload[n] \notin Separators
  <2>1. Upload = <<"u", "p", "l", "o", "a", "d">>
    BY DEF Upload
  <2>2. Upload \in Seq(Chars) /\ Len(Upload) = 6
    BY <2>1, SixOf DEF Chars
  <2>3. /\ Upload[1] = "u" /\ Upload[2] = "p" /\ Upload[3] = "l"
        /\ Upload[4] = "o" /\ Upload[5] = "a" /\ Upload[6] = "d"
    BY <2>1
  <2>4. \A n \in 1..6 : n = 1 \/ n = 2 \/ n = 3 \/ n = 4 \/ n = 5 \/ n = 6
    OBVIOUS
  <2>5. \A x \in {"u", "p", "l", "o", "a", "d"} : x \notin Separators
    BY DEF Separators
  <2>6. QED
    BY <2>2, <2>3, <2>4, <2>5
<1>3. base \in Seq(Chars) /\ \A n \in DOMAIN base : base[n] \notin Separators
  <2>1. base \in Seq(STRING) /\ \A n \in DOMAIN base : base[n] \notin Separators
    BY BaseNames
  <2> HIDE DEF base
  <2>2. QED
    BY <2>1 DEF Chars
<1>4. /\ safe \in Seq(Chars) /\ Len(safe) \in Nat /\ Len(safe) >= 1
      /\ \A n \in 1..Len(safe) : safe[n] \notin Separators
  <2> HIDE DEF base
  <2>1. CASE base = << >>
    <3>1. safe = Upload
      BY <2>1
    <3>2. /\ safe \in Seq(Chars) /\ Len(safe) = 6
          /\ \A n \in 1..6 : safe[n] \notin Separators
      <4> HIDE DEF safe
      <4> QED BY <1>2, <3>1
    <3>3. QED
      <4> HIDE DEF safe
      <4> QED BY <3>2
  <2>2. CASE base # << >>
    BY <1>3, <2>2
  <2>3. QED
    BY <2>1, <2>2
<1>5. name = SubSeq(safe, 1, c)
  BY DEF SanitizeFilename
<1>6. c \in 1..MaxName /\ c <= Len(safe)
  <2> HIDE DEF safe
  <2> QED BY <1>1, <1>4, LesserOf
<1>7. Len(name) = c /\ \A n \in 1..c : name[n] = safe[n]
  <2> HIDE DEF safe, c, name
  <2> QED BY <1>1, <1>4, <1>5, <1>6
<1>8. \A n \in DOMAIN name : name[n] \notin {"/", "\\"}
  <2>1. DOMAIN name = 1..c
    <3> HIDE DEF safe, c, name
    <3> QED BY <1>1, <1>4, <1>5, <1>6
  <2>2. \A n \in 1..c : n \in 1..Len(safe)
    <3> HIDE DEF safe, c
    <3> QED BY <1>1, <1>4, <1>6
  <2> HIDE DEF safe, c, name
  <2>3. QED
    BY <1>4, <1>7, <2>1, <2>2 DEF Separators
<1>9. ASSUME NEW n \in DOMAIN In, n = 1 \/ In[n - 1] \in Separators,
             \A m \in n..Len(In) : In[m] \notin Separators
      PROVE  IsPrefix(name, SubSeq(In, n, Len(In)))
  <2>1. base = SubSeq(In, n, Len(In))
    BY <1>9, BaseNames
  <2>2. base # << >>
    BY <2>1
  <2>3. safe = base
    BY <2>2
  <2>4. Len(name) <= Len(safe) /\ SubSeq(name, 1, Len(name)) = SubSeq(safe, 1, Len(name))
    <3> HIDE DEF safe, c, name
    <3>1. name \in Seq(Chars) /\ Len(name) \in Nat
      BY <1>4, <1>5, <1>6, <1>1
    <3>2. SubSeq(name, 1, Len(name)) = name
      BY <3>1
    <3>3. QED
      BY <1>5, <1>6, <1>7, <3>2
  <2>5. IsPrefix(name, safe)
    BY <2>4 DEF IsPrefix
  <2>6. QED
    BY <2>1, <2>3, <2>5
<1>10. QED
  <2> HIDE DEF name, c
  <2>1. Len(name) \in 1..MaxName
    BY <1>6, <1>7
  <2>2. QED
    BY <1>8, <1>9, <2>1 DEF StoredNameIsGiven, name

-----------------------------------------------------------------------------
(* E-invoices.                                                             *)

\* What the parser does with the next line.
Taken(lines, l) == IF Reading(l.description) = Absent THEN lines ELSE Append(lines, Line(l))
LineTaken == [description : Value, price : Value \cup {"none"}]
DocumentLine == [description : Value, price : Value]

\* Lines are taken one after the other.
LEMMA LinesPass ==
    ASSUME NEW doc, doc.lines \in Seq(DocumentLine)
    PROVE  \E h \in [0..Len(doc.lines) -> Seq(LineTaken)] :
              /\ h[0] = << >>
              /\ \A k \in 1..Len(doc.lines) : h[k] = Taken(h[k - 1], doc.lines[k])
              /\ Lines(doc) = h[Len(doc.lines)]
<1> DEFINE S == Seq(LineTaken)
           n == Len(doc.lines)
           step == [p \in (1..n) \X S |-> Taken(p[2], doc.lines[p[1]])]
           Fold(g) == g = [s \in SUBSET (1..n) |->
                             IF s = {} THEN << >>
                             ELSE Taken(g[s \ {Max(s)}], doc.lines[Max(s)])]
<1>1. n \in Nat /\ DOMAIN doc.lines = 1..n /\ << >> \in S
  OBVIOUS
<1>2. ASSUME NEW l \in DocumentLine, NEW a \in S PROVE Taken(a, l) \in S
  <2>1. Line(l) \in LineTaken
    BY DEF Line, OptionalDecimal, Reading, None, Absent, IsDecimal, LineTaken, DocumentLine, Value
  <2>2. QED
    BY <2>1 DEF Taken
<1>3. step \in [(1..n) \X S -> S]
  <2>1. \A k \in 1..n : doc.lines[k] \in DocumentLine
    BY <1>1
  <2> HIDE DEF S
  <2>2. QED
    BY <1>2, <2>1
<1>4. PICK f : Unfolded(f, n, S, << >>, step)
  <2> HIDE DEF step, S, n
  <2> QED BY <1>1, <1>3, FoldUnfolds
<1>5. Fold(f)
  BY <1>4 DEF Unfolded
<1>6. Lines(doc) = (CHOOSE g : Fold(g))[1..n]
  BY <1>1 DEF Lines, FoldLeft, MapThenFoldSet, Taken, Max
<1>7. PICK g : Fold(g) /\ Lines(doc) = g[1..n]
  <2> HIDE DEF Fold
  <2> QED BY <1>5, <1>6
<1>8. g[{}] = << >>
  BY <1>7
<1>9. ASSUME NEW s \in SUBSET (1..n), s # {}, g[s \ {Max(s)}] \in S
      PROVE  g[s] = step[<<Max(s), g[s \ {Max(s)}]>>]
  <2>1. Max(s) \in 1..n
    BY <1>1, <1>9, Greatest
  <2>2. QED
    BY <1>7, <1>9, <2>1
<1> DEFINE h == [k \in 0..n |-> g[1..k]]
<1>10. h \in Passes(n, S, << >>, step)
  <2> HIDE DEF step, n, Fold, S
  <2> QED BY <1>1, <1>3, <1>8, <1>9, FoldPasses
<1>11. h[n] = g[1..n]
  BY <1>1
<1>12. /\ h \in [0..n -> S] /\ h[0] = << >>
       /\ \A k \in 1..n : h[k] = Taken(h[k - 1], doc.lines[k])
  <2>1. h \in [0..n -> S] /\ h[0] = << >> /\ \A k \in 1..n : h[k] = step[<<k, h[k - 1]>>]
    <3> HIDE DEF h, step, S
    <3> QED BY <1>10 DEF Passes
  <2>2. \A k \in 1..n : <<k, h[k - 1]>> \in (1..n) \X S
    <3> HIDE DEF h, S
    <3> QED BY <1>1, <2>1
  <2>3. \A k \in 1..n : step[<<k, h[k - 1]>>] = Taken(h[k - 1], doc.lines[k])
    <3> HIDE DEF h, S
    <3> QED BY <2>2
  <2>4. QED
    BY <2>1, <2>3
<1>13. QED
  <2> HIDE DEF h
  <2> QED BY <1>7, <1>11, <1>12

\* The lines taken are those that have a description, and one of them has a NaN
\* for its price only if one of these had.
LEMMA LinesTaken ==
    ASSUME NEW doc, doc.lines \in Seq(DocumentLine)
    PROVE  LET described == {m \in DOMAIN doc.lines : Stated(doc.lines[m].description)}
           IN  /\ Lines(doc) \in Seq(LineTaken)
               /\ Len(Lines(doc)) = Cardinality(described)
               /\ (\E m \in DOMAIN Lines(doc) : Lines(doc)[m].price = "NaN")
                    <=> \E m \in described : doc.lines[m].price = "NaN"
<1> DEFINE n == Len(doc.lines)
           D(k) == {m \in 1..k : Stated(doc.lines[m].description)}
           Bad(q) == \E m \in DOMAIN q : q[m].price = "NaN"
<1>1. n \in Nat /\ DOMAIN doc.lines = 1..n /\ \A m \in 1..n : doc.lines[m] \in DocumentLine
  OBVIOUS
<1>2. PICK h \in [0..n -> Seq(LineTaken)] :
              /\ h[0] = << >>
              /\ \A k \in 1..n : h[k] = Taken(h[k - 1], doc.lines[k])
              /\ Lines(doc) = h[n]
  BY LinesPass
<1> DEFINE Right(k) == /\ IsFiniteSet(D(k)) /\ Len(h[k]) = Cardinality(D(k))
                       /\ Bad(h[k]) <=> \E m \in D(k) : doc.lines[m].price = "NaN"
           T == {k \in 0..n : Right(k)}
<1>3. 0 \in T
  <2>1. D(0) = {}
    OBVIOUS
  <2>2. IsFiniteSet(D(0)) /\ Cardinality(D(0)) = 0
    BY <2>1, FS_EmptySet
  <2>3. Len(h[0]) = 0 /\ DOMAIN h[0] = {}
    BY <1>2
  <2>4. QED
    BY <1>1, <2>1, <2>2, <2>3
<1>4. ASSUME NEW k \in 1..n, k - 1 \in T PROVE k \in T
  <2> DEFINE l == doc.lines[k]
             a == h[k - 1]
  <2>1. k \in 0..n /\ k - 1 \in 0..n /\ k \in Nat /\ k - 1 \in Nat
    BY <1>1
  <2>2. h[k] = Taken(a, l) /\ a \in Seq(LineTaken) /\ l \in DocumentLine
    BY <1>1, <1>2, <2>1
  <2>3. IsFiniteSet(D(k - 1)) /\ Len(a) = Cardinality(D(k - 1))
        /\ (Bad(a) <=> \E m \in D(k - 1) : doc.lines[m].price = "NaN")
    BY <1>4
  <2>4. Reading(l.description) = Absent <=> ~Stated(l.description)
    BY DEF Reading, Absent, Stated
  <2>5. CASE Stated(l.description)
    <3>1. D(k) = D(k - 1) \cup {k} /\ k \notin D(k - 1)
      BY <2>1, <2>5
    <3>2. IsFiniteSet(D(k)) /\ Cardinality(D(k)) = Cardinality(D(k - 1)) + 1
      <4> DEFINE old == D(k - 1)
      <4> HIDE DEF old
      <4>1. IsFiniteSet(old) /\ k \notin old
        BY <2>3, <3>1 DEF old
      <4>2. IsFiniteSet(old \cup {k}) /\ Cardinality(old \cup {k}) = Cardinality(old) + 1
        BY <4>1, FS_AddElement
      <4>3. D(k) = old \cup {k}
        BY <3>1 DEF old
      <4>4. QED
        <5> HIDE DEF D
        <5> QED BY <4>2, <4>3 DEF old
    <3>3. h[k] = Append(a, Line(l))
      BY <2>2, <2>4, <2>5 DEF Taken
    <3>4. Line(l).price = "NaN" <=> l.price = "NaN"
      BY <2>2 DEF Line, OptionalDecimal, Reading, IsDecimal, None, Absent
    <3>5. Len(h[k]) = Len(a) + 1
      BY <2>2, <3>3
    <3>6. Bad(h[k]) <=> Bad(a) \/ Line(l).price = "NaN"
      <4> DEFINE x == Line(l)
      <4>1. /\ Len(a) \in Nat /\ DOMAIN a = 1..Len(a)
            /\ DOMAIN Append(a, x) = 1..(Len(a) + 1)
            /\ \A m \in 1..Len(a) : Append(a, x)[m] = a[m]
            /\ Append(a, x)[Len(a) + 1] = x
        <5> HIDE DEF a, x
        <5> QED BY <2>2
      <4>2. \A m \in 1..(Len(a) + 1) : m \in 1..Len(a) \/ m = Len(a) + 1
        <5> HIDE DEF a
        <5> QED BY <4>1
      <4>3. \A m \in 1..Len(a) : m \in 1..(Len(a) + 1)
        <5> HIDE DEF a
        <5> QED BY <4>1
      <4>4. Len(a) + 1 \in 1..(Len(a) + 1)
        <5> HIDE DEF a
        <5> QED BY <4>1
      <4>5. Bad(Append(a, x)) <=> Bad(a) \/ x.price = "NaN"
        <5> HIDE DEF a, x
        <5> QED BY <4>1, <4>2, <4>3, <4>4
      <4>6. QED
        BY <3>3, <4>5
    <3>7. (\E m \in D(k) : doc.lines[m].price = "NaN")
            <=> (\E m \in D(k - 1) : doc.lines[m].price = "NaN") \/ l.price = "NaN"
      <4> HIDE DEF D
      <4> QED BY <3>1
    <3>8. Right(k)
      <4> HIDE DEF D, Bad, a, l
      <4> QED BY <2>3, <3>2, <3>4, <3>5, <3>6, <3>7 DEF l, a
    <3>9. QED
      BY <2>1, <3>8
  <2>6. CASE ~Stated(l.description)
    <3>1. D(k) = D(k - 1)
      BY <2>1, <2>6
    <3>2. h[k] = a
      BY <2>2, <2>4, <2>6 DEF Taken
    <3>3. Right(k)
      <4> HIDE DEF D, Bad
      <4> QED BY <2>3, <3>1, <3>2
    <3>4. QED
      BY <2>1, <3>3
  <2>7. QED
    BY <2>5, <2>6
<1>5. n \in T
  <2>1. 0..n \subseteq T
    <3> HIDE DEF T, n
    <3> QED BY <1>1, <1>3, <1>4, Climb
  <2>2. QED
    BY <1>1, <2>1
<1>6. D(n) = {m \in DOMAIN doc.lines : Stated(doc.lines[m].description)}
  BY <1>1
<1>7. Lines(doc) \in Seq(LineTaken)
  BY <1>1, <1>2
<1>8. QED
  <2> HIDE DEF D
  <2> QED BY <1>2, <1>5, <1>6, <1>7

\* The fields of an invoice, and what a document gives for them.
FieldNames == {"invoice_number", "vendor_name", "invoice_date", "total_amount", "net_amount",
               "tax_amount", "currency"}
FieldsOf(xml) == IF xml.root = "ubl" THEN UblFields(xml.doc) ELSE CiiFields(xml.doc)

\* The required fields are these.
LEMMA RequiredFields == ToSet(Required) = FieldNames
<1>1. DOMAIN Required = {1, 2, 3, 4, 5, 6, 7}
  BY DEF Required
<1>2. /\ Required[1] = "invoice_number" /\ Required[2] = "vendor_name"
      /\ Required[3] = "invoice_date" /\ Required[4] = "total_amount"
      /\ Required[5] = "net_amount" /\ Required[6] = "tax_amount" /\ Required[7] = "currency"
  BY DEF Required
<1>3. ToSet(Required) = {Required[n] : n \in {1, 2, 3, 4, 5, 6, 7}}
  BY <1>1 DEF ToSet
<1>4. QED
  BY <1>2, <1>3 DEF FieldNames

\* An invoice in one of the two syntaxes is parsed from its fields and lines.
LEMMA FieldsRead ==
    ASSUME NEW xml \in Xml, xml.root \in {"ubl", "cii"}
    PROVE  LET fields == FieldsOf(xml)
           IN  /\ DOMAIN fields = FieldNames
               /\ \A f \in FieldNames \ {"net_amount"} : fields[f] = Reading(xml.doc[f])
               /\ fields["net_amount"] = Reading(Net(xml))
               /\ Parse(xml, XmlFormat(xml))
                    = Parsed(fields, Lines(xml.doc), Profile(xml.doc))
<1>1. CASE xml.root = "ubl"
  <2>1. FieldsOf(xml) = [f \in FieldNames |-> IF f = "net_amount" /\ Reading(xml.doc[f]) = Absent
                             THEN Reading(xml.doc.line_extension) ELSE Reading(xml.doc[f])]
    BY <1>1, RequiredFields DEF FieldsOf, UblFields
  <2>2. Reading(xml.doc["net_amount"]) = Absent <=> ~Stated(xml.doc.net_amount)
    BY DEF Reading, Absent, Stated
  <2>3. FieldsOf(xml)["net_amount"] = Reading(Net(xml))
    BY <1>1, <2>1, <2>2 DEF Net, FieldNames
  <2>4. Parse(xml, XmlFormat(xml)) = Parsed(FieldsOf(xml), Lines(xml.doc), Profile(xml.doc))
    BY <1>1 DEF Parse, XmlFormat, ParseUbl, FieldsOf
  <2>5. QED
    BY <2>1, <2>3, <2>4
<1>2. CASE xml.root = "cii"
  <2>1. FieldsOf(xml) = [f \in FieldNames |-> Reading(xml.doc[f])]
    BY <1>2, RequiredFields DEF FieldsOf, CiiFields
  <2>2. FieldsOf(xml)["net_amount"] = Reading(Net(xml))
    BY <1>2, <2>1 DEF Net, FieldNames
  <2>3. Parse(xml, XmlFormat(xml)) = Parsed(FieldsOf(xml), Lines(xml.doc), Profile(xml.doc))
    BY <1>2 DEF Parse, XmlFormat, ParseCii, FieldsOf
  <2>4. QED
    BY <2>1, <2>2, <2>3
<1>3. QED
  BY <1>1, <1>2

\* What becomes of an invoice in one of the two syntaxes.
LEMMA ParsedByFields ==
    ASSUME NEW xml \in Xml, xml.root \in {"ubl", "cii"}
    PROVE  LET result == Parse(xml, XmlFormat(xml))
           IN  /\ result.outcome \in {"parsed", "parse_error", "validation_error"}
               /\ result.outcome = "parsed" <=> Accepted(xml)
               /\ result.outcome = "validation_error" <=> Escapes(xml)
               /\ result.outcome = "parsed" =>
                     /\ Len(result.lines) = Cardinality(Described(xml))
                     /\ result.fields = FieldsOf(xml)
<1> DEFINE fields == FieldsOf(xml)
           lines == Lines(xml.doc)
           profile == Profile(xml.doc)
           result == Parse(xml, XmlFormat(xml))
           missing == \E f \in DOMAIN fields : fields[f] = Absent
           unreadable == ~IsDate(fields["invoice_date"]) \/ \E f \in Amounts : ~IsDecimal(fields[f])
<1>1. /\ DOMAIN fields = FieldNames
      /\ \A f \in FieldNames \ {"net_amount"} : fields[f] = Reading(xml.doc[f])
      /\ fields["net_amount"] = Reading(Net(xml))
      /\ result = Parsed(fields, lines, profile)
  BY FieldsRead
<1>2. /\ xml.doc.lines \in Seq(DocumentLine)
      /\ \A f \in FieldNames : xml.doc[f] \in Value
      /\ Net(xml) \in Value
  BY DEF Xml, Document, DocumentLine, FieldNames, Net
<1>3. /\ Len(lines) = Cardinality(Described(xml))
      /\ ValidLines(lines) <=> ~OddLine(xml)
  <2>1. Described(xml) = {m \in DOMAIN xml.doc.lines : Stated(xml.doc.lines[m].description)}
    BY DEF Described
  <2>2. /\ Len(lines) = Cardinality(Described(xml))
        /\ (\E m \in DOMAIN lines : lines[m].price = "NaN") <=> \E m \in Described(xml) : xml.doc.lines[m].price = "NaN"
    BY <1>2, <2>1, LinesTaken
  <2>3. QED
    <3> HIDE DEF lines
    <3> QED BY <2>2 DEF ValidLines, OddLine
<1>4. \A v \in Value :
         /\ Reading(v) = Absent <=> ~Stated(v)
         /\ Reading(v) = "date" <=> v = "date"
         /\ Reading(v) = "NaN" <=> v = "NaN"
         /\ Reading(v) \in {"number", "NaN"} <=> v \in {"number", "NaN"}
         /\ v = "date" => Stated(v)
         /\ v \in {"number", "NaN"} => Stated(v)
  BY DEF Reading, Absent, Stated, Value
<1>5. missing <=> ~Complete(xml)
  <2> HIDE DEF fields
  <2>1. /\ fields["invoice_number"] = Absent <=> ~Stated(xml.doc.invoice_number)
        /\ fields["vendor_name"] = Absent <=> ~Stated(xml.doc.vendor_name)
        /\ fields["currency"] = Absent <=> ~Stated(xml.doc.currency)
        /\ fields["invoice_date"] = Absent <=> ~Stated(xml.doc.invoice_date)
        /\ fields["total_amount"] = Absent <=> ~Stated(xml.doc.total_amount)
        /\ fields["net_amount"] = Absent <=> ~Stated(Net(xml))
        /\ fields["tax_amount"] = Absent <=> ~Stated(xml.doc.tax_amount)
    BY <1>1, <1>2, <1>4 DEF FieldNames
  <2>2. missing <=>
           \/ fields["invoice_number"] = Absent \/ fields["vendor_name"] = Absent
           \/ fields["currency"] = Absent \/ fields["invoice_date"] = Absent
           \/ fields["total_amount"] = Absent \/ fields["net_amount"] = Absent
           \/ fields["tax_amount"] = Absent
    BY <1>1 DEF FieldNames
  <2>3. Complete(xml) <=>
           /\ Stated(xml.doc.invoice_number) /\ Stated(xml.doc.vendor_name)
           /\ Stated(xml.doc.currency) /\ Stated(xml.doc.invoice_date)
           /\ Stated(xml.doc.total_amount) /\ Stated(Net(xml)) /\ Stated(xml.doc.tax_amount)
    BY DEF Complete, AmountsOf
  <2>4. QED
    <3> HIDE DEF missing
    <3> QED BY <2>1, <2>2, <2>3
<1>6. ~missing /\ ~unreadable <=> Readable(xml)
  <2> HIDE DEF fields
  <2>1. /\ fields["invoice_date"] = "date" <=> xml.doc.invoice_date = "date"
        /\ fields["total_amount"] \in {"number", "NaN"} <=> xml.doc.total_amount \in {"number", "NaN"}
        /\ fields["net_amount"] \in {"number", "NaN"} <=> Net(xml) \in {"number", "NaN"}
        /\ fields["tax_amount"] \in {"number", "NaN"} <=> xml.doc.tax_amount \in {"number", "NaN"}
    BY <1>1, <1>2, <1>4 DEF FieldNames
  <2>2. (\A f \in Amounts : IsDecimal(fields[f])) <=>
           /\ fields["total_amount"] \in {"number", "NaN"}
           /\ fields["net_amount"] \in {"number", "NaN"}
           /\ fields["tax_amount"] \in {"number", "NaN"}
    BY DEF Amounts, IsDecimal
  <2>3. AmountsOf(xml) \subseteq {"number", "NaN"} <=>
           /\ xml.doc.total_amount \in {"number", "NaN"}
           /\ Net(xml) \in {"number", "NaN"}
           /\ xml.doc.tax_amount \in {"number", "NaN"}
    BY DEF AmountsOf
  <2>4. ~unreadable <=> xml.doc.invoice_date = "date" /\ AmountsOf(xml) \subseteq {"number", "NaN"}
    BY <2>1, <2>2, <2>3 DEF IsDate
  <2>5. Readable(xml) => Complete(xml)
    <3>1. "date" \in Value /\ Stated("date") /\ Stated("number") /\ Stated("NaN")
      BY DEF Value, Stated
    <3>2. QED
      BY <3>1 DEF Readable, Complete
  <2>6. /\ Readable(xml) <=> /\ Stated(xml.doc.invoice_number) /\ Stated(xml.doc.vendor_name)
                             /\ Stated(xml.doc.currency) /\ xml.doc.invoice_date = "date"
                             /\ AmountsOf(xml) \subseteq {"number", "NaN"}
        /\ Complete(xml) => /\ Stated(xml.doc.invoice_number) /\ Stated(xml.doc.vendor_name)
                            /\ Stated(xml.doc.currency)
    BY DEF Readable, Complete
  <2>7. QED
    <3> HIDE DEF missing, unreadable
    <3> QED BY <1>5, <2>4, <2>5, <2>6
<1>7. ValidFields(fields) <=> "NaN" \notin AmountsOf(xml)
  <2> HIDE DEF fields
  <2>1. /\ fields["total_amount"] = "NaN" <=> xml.doc.total_amount = "NaN"
        /\ fields["net_amount"] = "NaN" <=> Net(xml) = "NaN"
        /\ fields["tax_amount"] = "NaN" <=> xml.doc.tax_amount = "NaN"
    BY <1>1, <1>2, <1>4 DEF FieldNames
  <2>2. QED
    BY <2>1 DEF Amounts, AmountsOf, ValidFields
<1>8. result =
        IF missing THEN Raised("parse_error")
        ELSE IF ~ValidLines(lines) THEN Raised("validation_error")
        ELSE IF unreadable THEN Raised("parse_error")
        ELSE IF ~ValidFields(fields) THEN Raised("validation_error")
        ELSE [outcome |-> "parsed", fields |-> fields, lines |-> lines, profile |-> profile]
  <2> HIDE DEF fields, lines, result, profile
  <2> QED BY <1>1 DEF Parsed
<1>9. QED
  <2> HIDE DEF fields, lines, result, profile, missing, unreadable
  <2>1. /\ result.outcome \in {"parsed", "parse_error", "validation_error"}
        /\ result.outcome = "parsed" <=> ~missing /\ ValidLines(lines) /\ ~unreadable /\ ValidFields(fields)
        /\ result.outcome = "validation_error" <=>
              ~missing /\ (~ValidLines(lines) \/ (~unreadable /\ ~ValidFields(fields)))
        /\ result.outcome = "parsed" => result.lines = lines /\ result.fields = fields
    BY <1>8 DEF Raised
  <2>2. /\ Accepted(xml) <=> Readable(xml) /\ ~OddLine(xml) /\ "NaN" \notin AmountsOf(xml)
        /\ Escapes(xml) <=> Complete(xml) /\ (OddLine(xml) \/ (Readable(xml) /\ "NaN" \in AmountsOf(xml)))
    BY DEF Accepted, Escapes
  <2>3. /\ result.outcome = "parsed" <=> Accepted(xml)
        /\ result.outcome = "validation_error" <=> Escapes(xml)
    BY <1>3, <1>5, <1>6, <1>7, <2>1, <2>2
  <2>4. QED
    BY <1>3, <2>1, <2>3 DEF fields, lines, result

\* What is taken over of an invoice found by a method.
TakenBy(method, xml) ==
    IF xml.root \in {"ubl", "cii"} THEN Handled(method, Parse(xml, XmlFormat(xml))) ELSE NotHandled

\* It is the document's exactly if its fields and lines are accepted, or a NaN escapes.
LEMMA TakenIfReadable ==
    ASSUME NEW xml \in Xml, NEW method, method # "none"
    PROVE  LET taken == TakenBy(method, xml)
           IN  /\ taken.result.outcome \in {"none", "parsed", "validation_error"}
               /\ taken.method = IF Accepted(xml) \/ Escapes(xml) THEN method ELSE "none"
               /\ taken.result.outcome = "parsed" <=> Accepted(xml)
               /\ taken.result.outcome = "validation_error" <=> Escapes(xml)
               /\ taken.result.outcome = "parsed" =>
                     /\ Len(taken.result.lines) = Cardinality(Described(xml))
                     /\ taken.result.fields = FieldsOf(xml)
<1> DEFINE taken == TakenBy(method, xml)
           result == Parse(xml, XmlFormat(xml))
<1>1. NotHandled.method = "none" /\ NotHandled.result.outcome = "none"
  BY DEF NotHandled, Raised, None
<1>2. CASE xml.root \notin {"ubl", "cii"}
  <2>1. taken = NotHandled
    BY <1>2 DEF TakenBy
  <2>2. ~Accepted(xml) /\ ~Escapes(xml)
    BY <1>2 DEF Accepted, Escapes, Readable, Complete
  <2> HIDE DEF taken
  <2>3. QED
    BY <1>1, <2>1, <2>2 DEF taken
<1>3. CASE xml.root \in {"ubl", "cii"}
  <2>1. taken = IF result.outcome = "parse_error" THEN NotHandled ELSE [method |-> method, result |-> result]
    BY <1>3 DEF TakenBy, Handled
  <2>2. /\ result.outcome \in {"parsed", "parse_error", "validation_error"}
        /\ result.outcome = "parsed" <=> Accepted(xml)
        /\ result.outcome = "validation_error" <=> Escapes(xml)
        /\ result.outcome = "parsed" =>
              /\ Len(result.lines) = Cardinality(Described(xml))
              /\ result.fields = FieldsOf(xml)
    BY <1>3, ParsedByFields
  <2> HIDE DEF taken, result
  <2>3. CASE result.outcome # "parse_error"
    <3>1. taken.method = method /\ taken.result = result
      BY <2>1, <2>3
    <3>2. QED
      BY <2>2, <2>3, <3>1 DEF taken
  <2>4. CASE result.outcome = "parse_error"
    <3>1. taken = NotHandled
      BY <2>1, <2>4
    <3>2. QED
      BY <1>1, <2>2, <2>4, <3>1 DEF taken
  <2>5. QED
    BY <2>3, <2>4
<1>4. QED
  BY <1>2, <1>3

\* The document that decides: an uploaded XML file itself.
LEMMA XmlIsTaken ==
    ASSUME In \in File, In.kind = "xml", In.mime \in XmlMimes
    PROVE  /\ TryExtract(In, In.mime) = TakenBy(XmlFormat(In.xml), In.xml)
           /\ In.xml.root = "ubl" => XmlFormat(In.xml) = "xrechnung_ubl"
           /\ In.xml.root = "cii" => XmlFormat(In.xml) = "xrechnung_cii"
           /\ In.xml.root \notin {"ubl", "cii"} => XmlFormat(In.xml) = "none"
<1>1. /\ In.xml.root = "ubl" => XmlFormat(In.xml) = "xrechnung_ubl"
      /\ In.xml.root = "cii" => XmlFormat(In.xml) = "xrechnung_cii"
      /\ In.xml.root \notin {"ubl", "cii"} => XmlFormat(In.xml) = "none"
  BY DEF XmlFormat, None
<1>2. Detect(In, In.mime) = XmlFormat(In.xml)
  BY DEF Detect
<1>3. CASE In.xml.root \notin {"ubl", "cii"}
  BY <1>1, <1>2, <1>3 DEF TryExtract, TakenBy, None
<1>4. CASE In.xml.root \in {"ubl", "cii"}
  BY <1>1, <1>2, <1>4 DEF TryExtract, TakenBy, None
<1>5. QED
  BY <1>1, <1>3, <1>4

\* The first attachment with a known name.
FirstKnown(n) == /\ n \in DOMAIN In.attachments /\ In.attachments[n].known
                 /\ \A m \in 1..(n - 1) : ~In.attachments[m].known

\* In a PDF it decides, and nothing is taken over without one.
LEMMA FirstKnownIsTaken ==
    ASSUME In \in File, In.kind = "pdf", In.mime = "application/pdf"
    PROVE  /\ \A n : FirstKnown(n) =>
                 /\ TryExtract(In, In.mime) = TakenBy("zugferd_v2", In.attachments[n].xml)
                 /\ In.attachments[n].xml \in Xml
           /\ \A m, n : FirstKnown(m) /\ FirstKnown(n) => m = n
           /\ (\A n : ~FirstKnown(n)) => TryExtract(In, In.mime) = NotHandled
<1> DEFINE known == {n \in DOMAIN In.attachments : In.attachments[n].known}
<1>1. /\ Len(In.attachments) \in Nat /\ DOMAIN In.attachments = 1..Len(In.attachments)
      /\ \A n \in DOMAIN In.attachments : In.attachments[n].xml \in Xml
  <2>1. In.attachments \in Seq([known : BOOLEAN, xml : Xml])
    BY DEF File
  <2> DEFINE Attachment == [known : BOOLEAN, xml : Xml]
  <2>2. /\ Len(In.attachments) \in Nat /\ DOMAIN In.attachments = 1..Len(In.attachments)
        /\ \A n \in DOMAIN In.attachments : In.attachments[n] \in Attachment
    <3>1. In.attachments \in Seq(Attachment)
      BY <2>1
    <3> HIDE DEF Attachment
    <3>2. QED
      BY <3>1
  <2>3. \A a \in [known : BOOLEAN, xml : Xml] : a.xml \in Xml
    OBVIOUS
  <2>4. QED
    BY <2>2, <2>3
<1>2. known \subseteq Nat /\ known \subseteq 1..Len(In.attachments)
  BY <1>1
<1>3. \A n : FirstKnown(n) <=> n \in known /\ \A m \in known : n <= m
  <2>1. ASSUME NEW n, FirstKnown(n) PROVE n \in known /\ \A m \in known : n <= m
    <3>1. n \in known
      BY <2>1 DEF FirstKnown
    <3>2. ASSUME NEW m \in known, ~(n <= m) PROVE FALSE
      <4>1. m \in 1..(n - 1)
        BY <1>1, <1>2, <3>1, <3>2
      <4>2. QED
        BY <2>1, <4>1, <3>2 DEF FirstKnown
    <3>3. QED
      BY <3>1, <3>2
  <2>2. ASSUME NEW n \in known, \A m \in known : n <= m PROVE FirstKnown(n)
    <3>1. ASSUME NEW m \in 1..(n - 1) PROVE ~In.attachments[m].known
      <4>1. m \in 1..Len(In.attachments) /\ ~(n <= m)
        BY <1>1, <1>2, <3>1
      <4>2. QED
        BY <1>1, <2>2, <4>1
    <3>2. QED
      BY <3>1 DEF FirstKnown
  <2>3. QED
    BY <2>1, <2>2
<1>4. \A m, n : FirstKnown(m) /\ FirstKnown(n) => m = n
  BY <1>2, <1>3
<1>5. ASSUME NEW n, FirstKnown(n) PROVE Embedded(In) = In.attachments[n].xml
  <2>1. Min(known) = n
    <3> DEFINE P(x) == \A y \in known : x <= y
    <3>1. n \in known /\ P(n)
      BY <1>3, <1>5
    <3>2. \A x \in known : P(x) => x = n
      BY <1>2, <3>1
    <3>3. (CHOOSE x \in known : P(x)) = n
      <4> HIDE DEF P, known
      <4> QED BY <3>1, <3>2
    <3>4. QED
      BY <3>3 DEF Min
  <2>2. known # {}
    BY <1>3, <1>5
  <2>3. QED
    BY <2>1, <2>2 DEF Embedded
<1>6. ASSUME NEW n, FirstKnown(n)
      PROVE  /\ TryExtract(In, In.mime) = TakenBy("zugferd_v2", In.attachments[n].xml)
             /\ In.attachments[n].xml \in Xml
  <2> DEFINE xml == In.attachments[n].xml
             inner == Detect([kind |-> "xml", xml |-> Embedded(In), attachments |-> << >>],
                               "application/xml")
  <2>1. xml \in Xml
    BY <1>1, <1>6 DEF FirstKnown
  <2>2. xml # NoXml
    <3>1. xml.root # "none"
      BY <2>1 DEF Xml
    <3>2. NoXml.root = "none"
      BY DEF NoXml, None
    <3>3. QED
      <4> HIDE DEF xml
      <4> QED BY <3>1, <3>2
  <2>3. Detect(In, In.mime) = "zugferd_pdf"
    BY <1>5, <1>6, <2>2 DEF Detect, XmlMimes, Pdf
  <2>4. inner = XmlFormat(xml)
    BY <1>5, <1>6 DEF Detect, XmlMimes
  <2>5. /\ xml.root = "ubl" => inner = "xrechnung_ubl"
        /\ xml.root = "cii" => inner = "xrechnung_cii"
        /\ xml.root \notin {"ubl", "cii"} => inner = "none"
    <3> HIDE DEF xml, inner
    <3> QED BY <2>4 DEF XmlFormat, None
  <2>6. TryExtract(In, In.mime)
          = IF inner \in {"xrechnung_ubl", "xrechnung_cii"}
            THEN Handled("zugferd_v2", Parse(xml, inner)) ELSE NotHandled
    <3> DEFINE format == Detect(In, In.mime)
    <3>1. TryExtract(In, In.mime) =
            CASE format = None -> NotHandled
              [] format = "zugferd_pdf" ->
                     IF inner \in {"xrechnung_ubl", "xrechnung_cii"}
                     THEN Handled("zugferd_v2", Parse(Embedded(In), inner)) ELSE NotHandled
              [] OTHER -> Handled(format, Parse(In.xml, format))
      BY DEF TryExtract
    <3>2. Embedded(In) = xml
      BY <1>5, <1>6
    <3> HIDE DEF inner, xml
    <3>3. QED
      BY <2>3, <3>1, <3>2 DEF None
  <2>7. QED
    <3> HIDE DEF inner, xml
    <3>1. TryExtract(In, In.mime) = TakenBy("zugferd_v2", xml)
      BY <2>4, <2>5, <2>6 DEF TakenBy
    <3>2. QED
      BY <2>1, <3>1 DEF xml
<1>7. ASSUME \A n : ~FirstKnown(n) PROVE TryExtract(In, In.mime) = NotHandled
  <2>1. known = {}
    <3> HIDE DEF known
    <3> QED BY <1>2, <1>3, <1>7, Least
  <2>2. Embedded(In) = NoXml
    BY <2>1 DEF Embedded
  <2>3. Detect(In, In.mime) = "none"
    BY <2>2 DEF Detect, XmlMimes, None
  <2>4. QED
    BY <2>3 DEF TryExtract, None
<1>8. QED
  BY <1>4, <1>6, <1>7

\* Other files go to the provider.
LEMMA OthersAreNotTaken ==
    ASSUME In \in File, ~(In.kind = "xml" /\ In.mime \in XmlMimes),
           ~(In.kind = "pdf" /\ In.mime = "application/pdf")
    PROVE  TryExtract(In, In.mime) = NotHandled
<1>1. Detect(In, In.mime) = "none"
  <2>1. In.kind # "pdf" => Embedded(In) = NoXml
    BY DEF Embedded
  <2>2. QED
    BY <2>1 DEF Detect, Pdf, None
<1>2. QED
  BY <1>1 DEF TryExtract, None

\* A document is taken over exactly if it is accepted, and a NaN escapes where it
\* should (_parse_ubl, _parse_cii).
LEMMA TakenIffComplete ==
    ASSUME In \in File
    PROVE  ParsedIffComplete
<1>1. SUFFICES ASSUME In.kind = "xml", In.mime \in XmlMimes
               PROVE  LET taken == TryExtract(In, In.mime).result
                      IN  /\ taken.outcome = "parsed" <=> Accepted(In.xml)
                          /\ taken.outcome = "validation_error" <=> Escapes(In.xml)
                          /\ taken.outcome = "parsed" => Len(taken.lines) = Cardinality(Described(In.xml))
  BY DEF ParsedIffComplete
<1>2. In.xml \in Xml
  BY DEF File
<1>3. CASE In.xml.root \in {"ubl", "cii"}
  <2>1. XmlFormat(In.xml) # "none" /\ TryExtract(In, In.mime) = TakenBy(XmlFormat(In.xml), In.xml)
    BY <1>1, <1>3, XmlIsTaken
  <2>2. QED
    BY <1>2, <2>1, TakenIfReadable
<1>4. CASE In.xml.root \notin {"ubl", "cii"}
  <2>1. TryExtract(In, In.mime) = NotHandled
    BY <1>1, <1>4, XmlIsTaken DEF TakenBy
  <2>2. NotHandled.result.outcome = "none"
    BY DEF NotHandled, Raised, None
  <2>3. ~Accepted(In.xml) /\ ~Escapes(In.xml)
    BY <1>4 DEF Accepted, Escapes, Readable, Complete
  <2>4. QED
    BY <2>1, <2>2, <2>3
<1>5. QED
  BY <1>3, <1>4

\* The documents that are not left to the provider.
Decides(xml) == Accepted(xml) \/ Escapes(xml)

\* What is handled is an invoice, the first known attachment of a PDF (try_extract).
LEMMA AttachmentIsDecisive ==
    ASSUME In \in File
    PROVE  AttachmentDecides
<1> DEFINE taken == TryExtract(In, In.mime)
           Outcomes == {"none", "parsed", "validation_error"}
           ByPdf == /\ In.kind = "pdf" /\ In.mime = "application/pdf"
                    /\ \E n : FirstKnown(n) /\ Decides(In.attachments[n].xml)
           ByXml == In.kind = "xml" /\ In.mime \in XmlMimes /\ Decides(In.xml)
           Right == /\ taken.result.outcome \in Outcomes
                    /\ taken.method = "zugferd_v2" <=> ByPdf
                    /\ taken.method \in {"xrechnung_ubl", "xrechnung_cii"} <=> ByXml
<1>0. SUFFICES Right
  <2>1. ByPdf <=> /\ In.kind = "pdf" /\ In.mime = "application/pdf"
                  /\ \E n \in DOMAIN In.attachments :
                        /\ In.attachments[n].known /\ \A m \in 1..(n - 1) : ~In.attachments[m].known
                        /\ Decides(In.attachments[n].xml)
    BY DEF FirstKnown
  <2> HIDE DEF taken, ByPdf
  <2>2. QED
    BY <2>1 DEF AttachmentDecides, taken, Decides
<1>1. NotHandled.method = "none" /\ NotHandled.result.outcome = "none"
  BY DEF NotHandled, Raised, None
<1>2. CASE In.kind = "xml" /\ In.mime \in XmlMimes
  <2>1. In.xml \in Xml /\ ~ByPdf
    BY <1>2 DEF File
  <2>2. CASE In.xml.root \in {"ubl", "cii"}
    <3>1. /\ taken = TakenBy(XmlFormat(In.xml), In.xml)
          /\ XmlFormat(In.xml) \in {"xrechnung_ubl", "xrechnung_cii"}
      BY <1>2, <2>2, XmlIsTaken
    <3> DEFINE format == XmlFormat(In.xml)
    <3>2. format # "none"
      BY <3>1
    <3>3. taken.result.outcome \in Outcomes /\ taken.method = IF Decides(In.xml) THEN format ELSE "none"
      <4> HIDE DEF format
      <4> QED BY <2>1, <3>1, <3>2, TakenIfReadable DEF format, Decides
    <3> HIDE DEF taken, ByPdf, format
    <3>4. QED
      BY <1>2, <2>1, <3>1, <3>3 DEF format
  <2>3. CASE In.xml.root \notin {"ubl", "cii"}
    <3>1. taken = NotHandled
      BY <1>2, <2>3, XmlIsTaken DEF TakenBy
    <3>2. ~Decides(In.xml)
      BY <2>3 DEF Decides, Accepted, Escapes, Readable, Complete
    <3> HIDE DEF taken, ByPdf
    <3>3. QED
      BY <1>1, <2>1, <3>1, <3>2
  <2>4. QED
    BY <2>2, <2>3
<1>3. CASE In.kind = "pdf" /\ In.mime = "application/pdf"
  <2>1. ~ByXml
    BY <1>3
  <2>2. CASE \E n : FirstKnown(n)
    <3>1. PICK n : FirstKnown(n)
      BY <2>2
    <3> DEFINE xml == In.attachments[n].xml
    <3>2. taken = TakenBy("zugferd_v2", xml) /\ xml \in Xml /\ \A m : FirstKnown(m) => m = n
      BY <1>3, <3>1, FirstKnownIsTaken
    <3>3. taken.result.outcome \in Outcomes /\ taken.method = IF Decides(xml) THEN "zugferd_v2" ELSE "none"
      <4> HIDE DEF xml
      <4> QED BY <3>2, TakenIfReadable DEF Decides
    <3>4. ByPdf <=> Decides(xml)
      BY <1>3, <3>1, <3>2
    <3> HIDE DEF taken, ByPdf, ByXml, xml
    <3>5. QED
      BY <2>1, <3>3, <3>4
  <2>3. CASE \A n : ~FirstKnown(n)
    <3>1. taken = NotHandled
      BY <1>3, <2>3, FirstKnownIsTaken
    <3>2. ~ByPdf
      BY <2>3
    <3> HIDE DEF taken, ByPdf, ByXml
    <3>3. QED
      BY <1>1, <2>1, <3>1, <3>2
  <2>4. QED
    BY <2>2, <2>3
<1>4. CASE ~(In.kind = "xml" /\ In.mime \in XmlMimes) /\ ~(In.kind = "pdf" /\ In.mime = "application/pdf")
  <2>1. taken = NotHandled
    BY <1>4, OthersAreNotTaken
  <2>2. ~ByPdf /\ ~ByXml
    BY <1>4
  <2> HIDE DEF taken, ByPdf, ByXml
  <2>3. QED
    BY <1>1, <2>1, <2>2
<1>5. QED
  BY <1>2, <1>3, <1>4

\* What was taken over can be shown (InvoiceFileResponse.from_model).
LEMMA TakenIsShown ==
    ASSUME In \in File
    PROVE  ParsedIsShown
<1>1. SUFFICES ASSUME TryExtract(In, In.mime).result.outcome = "parsed",
                      NEW f \in {"vendor_name", "invoice_date", "total_amount", "currency"}
               PROVE  FromModel([status |-> "completed",
                                   result |-> TryExtract(In, In.mime).result.fields])[f] # Nothing
  BY DEF ParsedIsShown
<1> DEFINE taken == TryExtract(In, In.mime)
<1>2. NotHandled.result.outcome = "none"
  BY DEF NotHandled, Raised, None
<1>3. PICK xml \in Xml : Accepted(xml) /\ taken.result.fields = FieldsOf(xml)
  <2>1. ASSUME NEW xml \in Xml, NEW method, method # "none", taken = TakenBy(method, xml)
        PROVE  Accepted(xml) /\ taken.result.fields = FieldsOf(xml)
    <3>1. TakenBy(method, xml).result.outcome = "parsed"
      BY <1>1, <2>1
    <3>2. QED
      BY <2>1, <3>1, TakenIfReadable
  <2>2. CASE In.kind = "xml" /\ In.mime \in XmlMimes
    <3>1. In.xml \in Xml
      BY DEF File
    <3>2. taken = TakenBy(XmlFormat(In.xml), In.xml)
      BY <2>2, XmlIsTaken
    <3>3. CASE In.xml.root \in {"ubl", "cii"}
      <4>1. XmlFormat(In.xml) # "none"
        BY <2>2, <3>3, XmlIsTaken
      <4>2. QED
        <5> HIDE DEF taken
        <5> QED BY <2>1, <3>1, <3>2, <4>1
    <3>4. CASE In.xml.root \notin {"ubl", "cii"}
      BY <1>1, <1>2, <3>2, <3>4 DEF TakenBy
    <3>5. QED
      BY <3>3, <3>4
  <2>3. CASE In.kind = "pdf" /\ In.mime = "application/pdf"
    <3>1. CASE \A n : ~FirstKnown(n)
      BY <1>1, <1>2, <2>3, <3>1, FirstKnownIsTaken
    <3>2. CASE \E n : FirstKnown(n)
      <4>1. PICK n : FirstKnown(n)
        BY <3>2
      <4>2. taken = TakenBy("zugferd_v2", In.attachments[n].xml) /\ In.attachments[n].xml \in Xml
        BY <2>3, <4>1, FirstKnownIsTaken
      <4>3. QED
        <5> HIDE DEF taken
        <5> QED BY <2>1, <4>2
    <3>3. QED
      BY <3>1, <3>2
  <2>4. CASE ~(In.kind = "xml" /\ In.mime \in XmlMimes) /\ ~(In.kind = "pdf" /\ In.mime = "application/pdf")
    BY <1>1, <1>2, <2>4, OthersAreNotTaken
  <2>5. QED
    BY <2>2, <2>3, <2>4
<1> DEFINE r == FieldsOf(xml)
           shown == FromModel([status |-> "completed", result |-> r])
<1>4. xml.root \in {"ubl", "cii"}
  BY <1>3 DEF Accepted, Readable
<1>5. /\ DOMAIN r = FieldNames
      /\ \A g \in FieldNames \ {"net_amount"} : r[g] = Reading(xml.doc[g])
  BY <1>4, FieldsRead
<1>6. /\ r["vendor_name"] = Reading(xml.doc.vendor_name) /\ r["currency"] = Reading(xml.doc.currency)
      /\ r["invoice_date"] = Reading(xml.doc.invoice_date)
      /\ r["total_amount"] = Reading(xml.doc.total_amount)
  BY <1>5 DEF FieldNames
<1>7. /\ xml.doc.vendor_name \in Value \ {"absent", "blank"} /\ xml.doc.currency \in Value \ {"absent", "blank"}
      /\ xml.doc.invoice_date = "date" /\ xml.doc.total_amount = "number"
  BY <1>3 DEF Accepted, Readable, AmountsOf, Stated, Xml, Document
<1>8. /\ r["vendor_name"] \in Value \ {"absent", "blank"} /\ r["currency"] \in Value \ {"absent", "blank"}
      /\ r["invoice_date"] = "date" /\ r["total_amount"] = "number"
  <2> HIDE DEF r
  <2> QED BY <1>6, <1>7 DEF Reading, Absent, Value
<1>9. r # << >>
  <2>1. "currency" \in DOMAIN r
    BY <1>5 DEF FieldNames
  <2>2. DOMAIN << >> = {}
    OBVIOUS
  <2>3. QED
    BY <2>1, <2>2
<1>10. /\ shown.vendor_name = CoerceStr(r["vendor_name"]) /\ shown.currency = CoerceStr(r["currency"])
       /\ shown.invoice_date = CoerceDate(r["invoice_date"])
       /\ shown.total_amount = CoerceDecimal(r["total_amount"])
  <2> HIDE DEF r
  <2> QED BY <1>9 DEF FromModel
<1>11. shown.vendor_name # Nothing /\ shown.currency # Nothing
       /\ shown.invoice_date # Nothing /\ shown.total_amount # Nothing
  <2> HIDE DEF r, shown
  <2> QED BY <1>8, <1>10 DEF CoerceStr, CoerceDate, CoerceDecimal, Nothing, Value
<1>12. shown[f] # Nothing
  <2> HIDE DEF shown
  <2> QED BY <1>1, <1>11
<1>13. QED
  BY <1>3, <1>12

-----------------------------------------------------------------------------
(* Ordered lists of the rows of a table.                                   *)

\* What holds of the empty set and of a set if it holds of all smaller ones, of all.
LEMMA PartInduction ==
    ASSUME NEW S, IsFiniteSet(S), NEW Good,
           \A T \in SUBSET S : (\A R \in SUBSET T : R # T => R \in Good) => T \in Good
    PROVE  SUBSET S \subseteq Good
<1> DEFINE Reach == {n \in Nat : \A T \in SUBSET S : Cardinality(T) <= n => T \in Good}
<1>0. \A T \in SUBSET S : IsFiniteSet(T) /\ Cardinality(T) \in Nat
  BY FS_Subset, FS_CardinalityType
<1>1. 0 \in Reach
  <2>1. ASSUME NEW T \in SUBSET S, Cardinality(T) <= 0 PROVE T \in Good
    <3>1. T = {}
      <4>1. IsFiniteSet(T) /\ Cardinality(T) = 0
        BY <1>0, <2>1
      <4>2. QED
        BY <4>1, FS_EmptySet
    <3>2. \A R \in SUBSET T : R = T
      BY <3>1
    <3>3. QED
      BY <3>2
  <2>2. QED
    BY <2>1
<1>2. ASSUME NEW n \in Nat, n \in Reach PROVE n + 1 \in Reach
  <2>1. ASSUME NEW T \in SUBSET S, Cardinality(T) <= n + 1 PROVE T \in Good
    <3>1. ASSUME NEW R \in SUBSET T, R # T PROVE R \in Good
      <4>1. R \in SUBSET S /\ Cardinality(R) < Cardinality(T)
        BY <1>0, <3>1, FS_Subset
      <4>2. Cardinality(R) <= n
        BY <1>0, <2>1, <4>1
      <4>3. QED
        BY <1>2, <4>1, <4>2
    <3>2. QED
      BY <3>1
  <2>2. QED
    BY <2>1
<1>3. Nat \subseteq Reach
  <2> HIDE DEF Reach
  <2> QED BY <1>1, <1>2, SetInduction
<1>4. ASSUME NEW T \in SUBSET S PROVE T \in Good
  <2>1. Cardinality(T) \in Reach /\ Cardinality(T) <= Cardinality(T)
    BY <1>0, <1>3
  <2>2. QED
    BY <2>1
<1>5. QED
  BY <1>4

\* Rows with their keys.
Keyed(R, key) == IsFiniteSet(R) /\ key \in [R -> Int]

\* The rows that must come before one in the order by descending keys, and those
\* that may.
Above(R, key, r)   == {q \in R : key[q] > key[r]}
AtLeast(R, key, r) == {q \in R : key[q] >= key[r]}

\* A list of all rows in that order.
Ordered(R, key, s) ==
    /\ s \in [1..Cardinality(R) -> R]
    /\ \A m, n \in 1..Cardinality(R) : m # n => s[m] # s[n]
    /\ \A m, n \in 1..Cardinality(R) : m < n => key[s[m]] >= key[s[n]]

\* An ordered list has every row.
LEMMA ListHasAll ==
    ASSUME NEW R, NEW key, Keyed(R, key), NEW s, Ordered(R, key, s)
    PROVE  Cardinality(R) \in Nat /\ \A r \in R : \E n \in 1..Cardinality(R) : s[n] = r
<1> DEFINE Size == Cardinality(R)
<1>1. IsFiniteSet(R) /\ Size \in Nat
  BY FS_CardinalityType DEF Keyed
<1>2. s \in Injection(1..Size, R)
  BY DEF Ordered, Injection, IsInjective
<1>3. IsFiniteSet(1..Size) /\ Cardinality(1..Size) = Size
  <2> HIDE DEF Size
  <2> QED BY <1>1, FS_Interval
<1>4. s \in Surjection(1..Size, R)
  BY <1>1, <1>2, <1>3, FS_Injection
<1>5. QED
  BY <1>1, <1>4 DEF Surjection

\* The first places have as many rows.
LEMMA FirstRows ==
    ASSUME NEW R, NEW key, Keyed(R, key), NEW s, Ordered(R, key, s), NEW k \in 0..Cardinality(R)
    PROVE  /\ IsFiniteSet({s[m] : m \in 1..k})
           /\ Cardinality({s[m] : m \in 1..k}) = k
<1> DEFINE F == {s[m] : m \in 1..k}
           f == [m \in 1..k |-> s[m]]
           Size == Cardinality(R)
<1>1. Size \in Nat
  BY ListHasAll
<1>2. k \in Nat /\ \A m \in 1..k : m \in 1..Size
  <2> HIDE DEF Size
  <2>1. k \in 0..Size
    BY DEF Size
  <2>2. QED
    BY <1>1, <2>1
<1>3. \A a, b \in 1..k : f[a] = f[b] => a = b
  BY <1>2 DEF Ordered
<1>4. f \in Bijection(1..k, F)
  <2>1. f \in [1..k -> F] /\ \A x \in F : \E m \in 1..k : f[m] = x
    OBVIOUS
  <2> HIDE DEF f, F
  <2>2. QED
    BY <1>3, <2>1 DEF Bijection, Injection, Surjection, IsInjective
<1>5. Cardinality(F) = k /\ IsFiniteSet(F)
  <2> HIDE DEF F, f
  <2>1. ExistsBijection(1..k, F)
    BY <1>4 DEF ExistsBijection
  <2>2. QED
    BY <1>2, <2>1, FS_CountingElements, FS_NatBijection
<1>6. QED
  BY <1>5

\* A row has its place after those that must come before it, and not after the
\* last one that may.
LEMMA PlacesAre ==
    ASSUME NEW R, NEW key, Keyed(R, key), NEW s, Ordered(R, key, s), NEW n \in 1..Cardinality(R)
    PROVE  /\ Cardinality(Above(R, key, s[n])) \in Nat /\ Cardinality(AtLeast(R, key, s[n])) \in Nat
           /\ Cardinality(Above(R, key, s[n])) < n
           /\ n <= Cardinality(AtLeast(R, key, s[n]))
<1> DEFINE A == Above(R, key, s[n])
           B == AtLeast(R, key, s[n])
           F(k) == {s[m] : m \in 1..k}
           Size == Cardinality(R)
<1>1. /\ Size \in Nat /\ \A r \in R : \E m \in 1..Size : s[m] = r
      /\ IsFiniteSet(R) /\ \A r \in R : key[r] \in Int
  BY ListHasAll DEF Keyed
<1>2. /\ n \in Nat /\ n - 1 \in Nat /\ n \in 0..Size /\ n - 1 \in 0..Size
      /\ \A m \in 1..n : m \in 1..Size
  <2> HIDE DEF Size
  <2>1. n \in 1..Size
    BY DEF Size
  <2>2. QED
    BY <1>1, <2>1
<1>3. A \in SUBSET R /\ B \in SUBSET R
  BY DEF Above, AtLeast
<1>4. IsFiniteSet(A) /\ IsFiniteSet(B) /\ Cardinality(A) \in Nat /\ Cardinality(B) \in Nat
  <2> HIDE DEF A, B
  <2> QED BY <1>1, <1>3, FS_Subset, FS_CardinalityType
<1>5. A \in SUBSET F(n - 1)
  <2>1. ASSUME NEW q \in A PROVE q \in F(n - 1)
    <3>1. q \in R /\ key[q] > key[s[n]]
      BY <2>1 DEF Above
    <3>2. PICK m \in 1..Size : s[m] = q
      BY <1>1, <3>1
    <3>3. ~(n < m) /\ n # m
      <4>1. s[n] \in R /\ s[m] \in R
        BY DEF Ordered
      <4>2. n < m => key[s[n]] >= key[s[m]]
        BY DEF Ordered
      <4>3. QED
        BY <1>1, <3>1, <3>2, <4>1, <4>2
    <3>4. m \in 1..(n - 1)
      <4> HIDE DEF Size
      <4> QED BY <1>1, <1>2, <3>3
    <3>5. QED
      BY <3>2, <3>4
  <2>2. QED
    BY <2>1
<1>6. F(n) \in SUBSET B
  <2>1. ASSUME NEW m \in 1..n PROVE s[m] \in B
    <3>1. m \in 1..Size /\ n \in 1..Size
      BY <1>2
    <3>2. s[m] \in R /\ s[n] \in R
      BY <3>1 DEF Ordered
    <3>3. m < n \/ m = n
      BY <1>2
    <3>4. key[s[m]] >= key[s[n]]
      <4>1. CASE m < n
        BY <3>1, <4>1 DEF Ordered
      <4>2. CASE m = n
        BY <1>1, <3>2, <4>2
      <4>3. QED
        BY <3>3, <4>1, <4>2
    <3>5. QED
      BY <3>2, <3>4 DEF AtLeast
  <2>2. QED
    BY <2>1
<1>7. /\ IsFiniteSet(F(n - 1)) /\ Cardinality(F(n - 1)) = n - 1
      /\ IsFiniteSet(F(n)) /\ Cardinality(F(n)) = n
  BY <1>2, FirstRows
<1>8. Cardinality(A) <= Cardinality(F(n - 1)) /\ Cardinality(F(n)) <= Cardinality(B)
  <2> HIDE DEF A, B, F
  <2> QED BY <1>4, <1>5, <1>6, <1>7, FS_Subset
<1>9. QED
  <2> HIDE DEF A, B, F, Size
  <2>1. Cardinality(A) < n /\ n <= Cardinality(B)
    BY <1>2, <1>4, <1>7, <1>8
  <2>2. QED
    BY <1>4, <2>1 DEF A, B

\* A row that must come before another one has an earlier place in every list.
LEMMA Apart ==
    ASSUME NEW R, NEW key, Keyed(R, key), NEW s, Ordered(R, key, s), NEW t, Ordered(R, key, t),
           NEW m \in 1..Cardinality(R), NEW n \in 1..Cardinality(R), key[t[n]] > key[s[m]]
    PROVE  n < m
<1> DEFINE A == Above(R, key, s[m])
           B == AtLeast(R, key, t[n])
<1>1. /\ Cardinality(A) \in Nat /\ Cardinality(A) < m
      /\ Cardinality(B) \in Nat /\ n <= Cardinality(B)
  BY PlacesAre
<1>2. IsFiniteSet(R) /\ \A r \in R : key[r] \in Int
  BY DEF Keyed
<1>3. B \in SUBSET A
  <2>1. s[m] \in R /\ t[n] \in R
    BY DEF Ordered
  <2>2. QED
    BY <1>2, <2>1 DEF Above, AtLeast
<1>4. IsFiniteSet(A)
  <2>1. A \in SUBSET R
    BY DEF Above
  <2>2. QED
    BY <1>2, <2>1, FS_Subset
<1>5. Cardinality(B) <= Cardinality(A)
  <2> HIDE DEF A, B
  <2> QED BY <1>3, <1>4, FS_Subset
<1>6. m \in Int /\ n \in Int
  <2>1. Cardinality(R) \in Nat
    BY ListHasAll
  <2>2. QED
    BY <2>1
<1>7. QED
  <2> HIDE DEF A, B
  <2> QED BY <1>1, <1>5, <1>6

\* A finite set of rows has one with the least key.
LEMMA LeastRow ==
    ASSUME NEW R, NEW key, Keyed(R, key), R # {}
    PROVE  \E r \in R : \A q \in R : key[q] >= key[r]
<1> DEFINE Good == {T \in SUBSET R : T # {} => \E r \in T : \A q \in T : key[q] >= key[r]}
<1>1. IsFiniteSet(R) /\ \A r \in R : key[r] \in Int
  BY DEF Keyed
<1>2. ASSUME NEW T \in SUBSET R, \A S \in SUBSET T : S # T => S \in Good
      PROVE  T \in Good
  <2>1. SUFFICES ASSUME T # {} PROVE \E r \in T : \A q \in T : key[q] >= key[r]
    OBVIOUS
  <2>2. PICK x : x \in T
    BY <2>1
  <2>3. T \ {x} \in Good
    BY <1>2, <2>2
  <2>4. CASE T \ {x} = {}
    <3>1. \A q \in T : q = x
      BY <2>4
    <3>2. QED
      BY <1>1, <2>2, <3>1
  <2>5. CASE T \ {x} # {}
    <3>1. PICK r \in T \ {x} : \A q \in T \ {x} : key[q] >= key[r]
      BY <2>3, <2>5
    <3>2. key[r] \in Int /\ key[x] \in Int
      BY <1>1, <2>2
    <3>3. CASE key[x] >= key[r]
      BY <3>1, <3>3
    <3>4. CASE key[r] > key[x]
      <4>1. ASSUME NEW q \in T PROVE key[q] >= key[x]
        <5>1. key[q] \in Int /\ (q = x \/ key[q] >= key[r])
          BY <1>1, <3>1
        <5>2. QED
          BY <3>2, <3>4, <5>1
      <4>2. QED
        BY <2>2, <4>1
    <3>5. QED
      BY <3>2, <3>3, <3>4
  <2>6. QED
    BY <2>4, <2>5
<1>3. SUBSET R \subseteq Good
  <2> HIDE DEF Good
  <2> QED BY <1>1, <1>2, PartInduction
<1>4. R \in Good
  <2> HIDE DEF Good
  <2> QED BY <1>3
<1>5. QED
  BY <1>4

\* A row with the least key can be put at the end.
LEMMA OneRowMore ==
    ASSUME NEW R, NEW key, IsFiniteSet(R), NEW r \in R, \A q \in R : key[q] \in Int /\ key[q] >= key[r],
           NEW s, Ordered(R \ {r}, key, s)
    PROVE  \E t : Ordered(R, key, t)
<1> DEFINE S == R \ {r}
           k == Cardinality(S)
           t == [n \in 1..(k + 1) |-> IF n = k + 1 THEN r ELSE s[n]]
<1>1. IsFiniteSet(S) /\ k \in Nat /\ Cardinality(R) = k + 1
  <2>1. IsFiniteSet(S)
    BY FS_Subset
  <2> HIDE DEF S
  <2>2. r \notin S /\ R = S \cup {r}
    BY DEF S
  <2>3. QED
    BY <2>1, <2>2, FS_AddElement, FS_CardinalityType
<1>2. /\ s \in [1..k -> S]
      /\ \A m, n \in 1..k : m # n => s[m] # s[n]
      /\ \A m, n \in 1..k : m < n => key[s[m]] >= key[s[n]]
  BY DEF Ordered
<1> HIDE DEF k
<1>3. \A n \in 1..(k + 1) : n = k + 1 \/ n \in 1..k
  BY <1>1
<1>4. \A n \in 1..k : n \in 1..(k + 1) /\ n # k + 1 /\ t[n] = s[n] /\ t[n] \in R /\ t[n] # r
  BY <1>1, <1>2
<1>5. t[k + 1] = r /\ k + 1 \in 1..(k + 1)
  BY <1>1
<1>6. t \in [1..(k + 1) -> R]
  BY <1>3, <1>4, <1>5
<1> HIDE DEF t, S
<1>7. ASSUME NEW m \in 1..(k + 1), NEW n \in 1..(k + 1)
      PROVE  /\ m # n => t[m] # t[n]
             /\ m < n => key[t[m]] >= key[t[n]]
  <2>1. CASE m \in 1..k /\ n \in 1..k
    BY <1>2, <1>4, <2>1
  <2>2. CASE n = k + 1
    <3>1. t[m] \in R /\ t[n] = r
      BY <1>3, <1>4, <1>5, <2>2
    <3>2. m # n => t[m] # r
      BY <1>3, <1>4, <2>2
    <3>3. QED
      BY <3>1, <3>2
  <2>3. CASE m = k + 1 /\ n \in 1..k
    <3>1. t[n] # t[m]
      BY <1>4, <1>5, <2>3
    <3>2. ~(m < n)
      BY <1>1, <2>3
    <3>3. QED
      BY <3>1, <3>2
  <2>4. QED
    BY <1>3, <2>1, <2>2, <2>3
<1>8. Ordered(R, key, t)
  BY <1>1, <1>6, <1>7 DEF Ordered
<1>9. QED
  BY <1>8

\* There is an ordered list.
LEMMA OrderedExists ==
    ASSUME NEW R, NEW key, Keyed(R, key)
    PROVE  \E s : Ordered(R, key, s)
<1> DEFINE Good == {T \in SUBSET R : \E s : Ordered(T, key, s)}
<1>1. IsFiniteSet(R) /\ \A r \in R : key[r] \in Int
  BY DEF Keyed
<1>2. ASSUME NEW T \in SUBSET R, \A S \in SUBSET T : S # T => S \in Good
      PROVE  T \in Good
  <2>1. IsFiniteSet(T)
    BY <1>1, FS_Subset
  <2>2. CASE T = {}
    <3>1. Cardinality(T) = 0
      BY <2>2, FS_EmptySet
    <3>2. 1..Cardinality(T) = {}
      BY <3>1
    <3>3. Ordered(T, key, [n \in {} |-> n])
      BY <3>2 DEF Ordered
    <3>4. QED
      BY <3>3
  <2>3. CASE T # {}
    <3> DEFINE k == [r \in T |-> key[r]]
    <3>1. Keyed(T, k) /\ \A r \in T : k[r] = key[r]
      BY <1>1, <2>1 DEF Keyed
    <3>2. PICK r \in T : \A q \in T : k[q] >= k[r]
      <4> HIDE DEF k
      <4> QED BY <2>3, <3>1, LeastRow
    <3>3. \A q \in T : key[q] \in Int /\ key[q] >= key[r]
      BY <1>1, <3>1, <3>2
    <3>4. PICK s : Ordered(T \ {r}, key, s)
      BY <1>2
    <3>5. \E t : Ordered(T, key, t)
      BY <2>1, <3>3, <3>4, OneRowMore
    <3>6. QED
      BY <3>5
  <2>4. QED
    BY <2>2, <2>3
<1>3. SUBSET R \subseteq Good
  <2> HIDE DEF Good
  <2> QED BY <1>1, <1>2, PartInduction
<1>4. R \in Good
  <2> HIDE DEF Good
  <2> QED BY <1>3
<1>5. QED
  BY <1>4

\* Every place is on a page.
LEMMA PageOf ==
    ASSUME NEW limit \in Nat \ {0}, NEW n \in Nat \ {0}
    PROVE  \E p \in 0..(n - 1) : limit * p < n /\ n <= limit * p + limit
<1> DEFINE Reached(m, p) == p <= m /\ limit * p <= m /\ m < limit * p + limit
           T == {m \in Nat : \E p \in Nat : Reached(m, p)}
<1>1. limit \in Nat /\ limit >= 1
  OBVIOUS
<1>2. 0 \in T
  <2>1. limit * 0 = 0
    BY <1>1
  <2>2. QED
    BY <1>1, <2>1
<1>3. ASSUME NEW m \in Nat, m \in T PROVE m + 1 \in T
  <2>1. PICK p \in Nat : Reached(m, p)
    BY <1>3
  <2>2. limit * p \in Nat /\ limit * (p + 1) = limit * p + limit
    BY <1>1
  <2>3. CASE m + 1 < limit * p + limit
    BY <2>1, <2>2, <2>3
  <2>4. CASE m + 1 = limit * p + limit
    <3>1. Reached(m + 1, p + 1)
      BY <1>1, <2>1, <2>2, <2>4
    <3>2. m + 1 \in Nat /\ p + 1 \in Nat
      OBVIOUS
    <3> HIDE DEF Reached
    <3>3. QED
      BY <3>1, <3>2
  <2>5. QED
    <3>1. m + 1 < limit * p + limit \/ m + 1 = limit * p + limit
      BY <1>1, <2>1, <2>2
    <3>2. QED
      BY <2>3, <2>4, <3>1
<1>4. n - 1 \in T
  <2>1. Nat \subseteq T
    <3> HIDE DEF T
    <3> QED BY <1>2, <1>3, SetInduction
  <2>2. n - 1 \in Nat
    OBVIOUS
  <2>3. QED
    <3> HIDE DEF T
    <3> QED BY <2>1, <2>2
<1>5. PICK p \in Nat : Reached(n - 1, p)
  BY <1>4
<1>6. limit * p \in Nat
  BY <1>1
<1>7. QED
  BY <1>1, <1>5, <1>6

\* The part of a list from an offset on, at most limit long.
PartOf(s, limit, offset) ==
    SubSeq(s, offset + 1, IF offset + limit <= Len(s) THEN offset + limit ELSE Len(s))

\* Lists: a name that keeps the provers from looking into them.
ListOf(S) == Seq(S)

\* A part of a list has the elements at its places, and only these.
LEMMA PartOfList ==
    ASSUME NEW S, NEW s \in ListOf(S), NEW limit \in Nat, NEW offset \in Nat
    PROVE  /\ PartOf(s, limit, offset) \in Seq(S)
           /\ \A n \in DOMAIN PartOf(s, limit, offset) :
                 /\ offset + n \in DOMAIN s /\ n \in 1..limit
                 /\ PartOf(s, limit, offset)[n] = s[offset + n]
           /\ \A n \in DOMAIN s : offset < n /\ n <= offset + limit =>
                 /\ n - offset \in DOMAIN PartOf(s, limit, offset)
                 /\ PartOf(s, limit, offset)[n - offset] = s[n]
<1> DEFINE last == IF offset + limit <= Len(s) THEN offset + limit ELSE Len(s)
           part == PartOf(s, limit, offset)
           Size == Len(s)
<1>0. part = SubSeq(s, offset + 1, last) /\ last \in Nat
  BY DEF PartOf, ListOf
<1>1. s \in Seq(S) /\ Size \in Nat /\ DOMAIN s = 1..Size
  BY DEF ListOf
<1>2. last = IF offset + limit <= Size THEN offset + limit ELSE Size
  OBVIOUS
<1> HIDE DEF last, part
<1>3. last <= Size /\ last <= offset + limit /\ (last < offset + limit => last = Size)
  <2> HIDE DEF Size
  <2> QED BY <1>0, <1>1, <1>2
<1>4. CASE last <= offset
  <2>1. part = << >>
    <3>1. offset + 1 > last /\ offset + 1 \in Nat
 BY <1>0, <1>4
    <3>2. QED
      BY <1>0, <1>1, <3>1
  <2>2. DOMAIN part = {} /\ part \in Seq(S)
    BY <2>1
  <2>3. \A n \in 1..Size : ~(offset < n /\ n <= offset + limit)
    <3> HIDE DEF Size
    <3> QED BY <1>0, <1>1, <1>3, <1>4
  <2> HIDE DEF part
  <2>4. QED
    BY <1>1, <2>2, <2>3 DEF part
<1>5. CASE offset < last
  <2>1. offset + 1 \in 1..Size /\ last \in 1..Size /\ offset + 1 <= last
    <3> HIDE DEF Size
    <3> QED BY <1>0, <1>1, <1>3, <1>5
  <2> DEFINE first == offset + 1
  <2>2. part = SubSeq(s, first, last) /\ first \in 1..Len(s) /\ last \in 1..Len(s) /\ first <= last
    BY <1>0, <2>1
  <2>3. part \in Seq(S) /\ Len(part) = (last - first) + 1
        /\ \A n \in 1..((last - first) + 1) : part[n] = s[first + n - 1]
    <3> HIDE DEF first, part
    <3> QED BY <1>1, <2>2
  <2>4. (last - first) + 1 = last - offset /\ \A n \in 1..(last - offset) : first + n - 1 = offset + n
    BY <1>0, <1>5
  <2>5. /\ part \in Seq(S) /\ Len(part) = last - offset
        /\ \A n \in 1..(last - offset) : part[n] = s[offset + n]
    <3> HIDE DEF first, part
    <3> QED BY <2>3, <2>4
  <2>6. DOMAIN part = 1..(last - offset)
    <3> HIDE DEF part
    <3> QED BY <2>5
  <2> HIDE DEF part
  <2>7. \A n \in 1..(last - offset) : offset + n \in 1..Size /\ n \in 1..limit
    <3> HIDE DEF Size
    <3> QED BY <1>0, <1>1, <1>3, <1>5
  <2>8. \A n \in 1..Size : offset < n /\ n <= offset + limit =>
           n - offset \in 1..(last - offset) /\ offset + (n - offset) = n
    <3> HIDE DEF Size
    <3> QED BY <1>0, <1>1, <1>3
  <2>9. QED
    <3> HIDE DEF Size
    <3> QED BY <1>1, <2>5, <2>6, <2>7, <2>8 DEF part
<1>6. QED
  BY <1>0, <1>4, <1>5

\* It has the element at a place of it.
LEMMA PartHas ==
    ASSUME NEW S, NEW s \in ListOf(S), NEW limit \in Nat, NEW offset \in Nat,
           NEW n \in DOMAIN s, offset < n, n <= offset + limit
    PROVE  /\ n - offset \in DOMAIN PartOf(s, limit, offset)
           /\ PartOf(s, limit, offset)[n - offset] = s[n]
<1>1. \A m \in DOMAIN s : offset < m /\ m <= offset + limit =>
         /\ m - offset \in DOMAIN PartOf(s, limit, offset)
         /\ PartOf(s, limit, offset)[m - offset] = s[m]
  BY PartOfList
<1>2. QED
  BY <1>1

\* The lesser of two numbers, for the lists of invoices.
LEMMA LesserOfTwo ==
    ASSUME NEW a \in Nat, NEW b \in Nat
    PROVE  Min({a, b}) = IF a <= b THEN a ELSE b
<1>1. Min({a, b}) = Min({a, b})
  BY DEF Min
<1>2. QED
  BY <1>1, LesserOf

-----------------------------------------------------------------------------
(* Pages of ordered lists.                                                 *)

\* The rows of a page, the first one being page 0.
Places(size, limit, page) == {n \in 1..size : limit * page < n /\ n <= limit * page + limit}
OnPage(s, size, limit, page) == {s[n] : n \in Places(size, limit, page)}
Page(R, key, limit, page, P) ==
    \E s : Ordered(R, key, s) /\ P = OnPage(s, Cardinality(R), limit, page)

\* A slice of a list is a part of it.
LEMMA PartIsSlice ==
    ASSUME NEW S, NEW s \in ListOf(S), NEW limit \in Nat, NEW offset \in Nat
    PROVE  SubSeq(s, offset + 1, Min({offset + limit, Len(s)})) = PartOf(s, limit, offset)
<1>1. offset + limit \in Nat /\ Len(s) \in Nat
  BY DEF ListOf
<1>2. Min({offset + limit, Len(s)}) = IF offset + limit <= Len(s) THEN offset + limit ELSE Len(s)
  BY <1>1, LesserOfTwo
<1>3. QED
  BY <1>2 DEF PartOf

\* An ordered list is a sequence of the rows.
LEMMA OrderedIsList ==
    ASSUME NEW R, NEW key, Keyed(R, key), NEW s, Ordered(R, key, s)
    PROVE  s \in ListOf(R) /\ Len(s) = Cardinality(R) /\ DOMAIN s = 1..Cardinality(R)
<1> DEFINE Size == Cardinality(R)
<1>1. s \in [1..Size -> R] /\ Size \in Nat
  BY ListHasAll DEF Ordered
<1> HIDE DEF Size
<1>2. s \in Seq(R) /\ Len(s) = Size /\ DOMAIN s = 1..Size
  BY <1>1
<1>3. QED
  BY <1>2 DEF ListOf, Size

\* A part of a list is a page.
LEMMA PartIsPage ==
    ASSUME NEW R, NEW key, Keyed(R, key), NEW s, Ordered(R, key, s), NEW limit \in Nat, NEW page \in Nat
    PROVE  /\ ToSet(PartOf(s, limit, limit * page)) = OnPage(s, Cardinality(R), limit, page)
           /\ Page(R, key, limit, page, ToSet(PartOf(s, limit, limit * page)))
<1> DEFINE Size == Cardinality(R)
           offset == limit * page
           part == PartOf(s, limit, offset)
<1>1. Size \in Nat /\ offset \in Nat
  BY ListHasAll
<1>2. s \in ListOf(R) /\ Len(s) = Size /\ DOMAIN s = 1..Size
  BY OrderedIsList
<1> HIDE DEF offset
<1>3. /\ \A n \in DOMAIN part :
            offset + n \in DOMAIN s /\ n \in 1..limit /\ part[n] = s[offset + n]
      /\ \A n \in DOMAIN s : offset < n /\ n <= offset + limit =>
            n - offset \in DOMAIN part /\ part[n - offset] = s[n]
  <2>0. s \in ListOf(R)
    BY <1>2
  <2> HIDE DEF Size, part
  <2>1. ASSUME NEW n \in DOMAIN PartOf(s, limit, offset)
        PROVE  /\ offset + n \in DOMAIN s /\ n \in 1..limit
               /\ PartOf(s, limit, offset)[n] = s[offset + n]
    BY <1>1, <2>0, PartOfList
  <2>2. ASSUME NEW n \in DOMAIN s, offset < n, n <= offset + limit
        PROVE  /\ n - offset \in DOMAIN PartOf(s, limit, offset)
               /\ PartOf(s, limit, offset)[n - offset] = s[n]
    BY <1>1, <2>0, <2>2, PartHas
  <2>3. QED
    BY <2>1, <2>2 DEF part
<1> DEFINE P == {s[n] : n \in Places(Size, limit, page)}
<1>4. Places(Size, limit, page) = {n \in 1..Size : offset < n /\ n <= offset + limit}
  BY DEF Places, offset
<1> HIDE DEF part, Size
<1>5. ASSUME NEW x \in ToSet(part) PROVE x \in P
  <2>1. PICK n \in DOMAIN part : x = part[n]
    BY DEF ToSet
  <2>2. offset + n \in 1..Size /\ n \in 1..limit /\ x = s[offset + n]
    BY <1>2, <1>3, <2>1
  <2>3. offset < offset + n /\ offset + n <= offset + limit
    BY <1>1, <2>2
  <2>4. QED
    BY <1>4, <2>2, <2>3
<1>6. ASSUME NEW x \in P PROVE x \in ToSet(part)
  <2>1. PICK n \in 1..Size : offset < n /\ n <= offset + limit /\ x = s[n]
    BY <1>4
  <2>2. n - offset \in DOMAIN part /\ part[n - offset] = x
    BY <1>2, <1>3, <2>1
  <2>3. QED
    BY <2>2 DEF ToSet
<1>7. ToSet(part) = P
  BY <1>5, <1>6
<1>8. QED
  BY <1>7 DEF Page, OnPage, part, offset, Size

\* Pages do not overlap.
LEMMA PagesApart ==
    ASSUME NEW limit \in Nat, NEW p \in Nat, NEW q \in Nat, p < q
    PROVE  limit * p \in Nat /\ limit * q \in Nat /\ limit * p + limit <= limit * q
<1>1. PICK d \in Nat : q = p + 1 + d
  <2>1. q - p - 1 \in Nat /\ q = p + 1 + (q - p - 1)
    OBVIOUS
  <2>2. QED
    BY <2>1
<1>2. limit * (p + 1 + d) = limit * p + limit + limit * d
  OBVIOUS
<1>3. limit * p \in Nat /\ limit * d \in Nat
  OBVIOUS
<1>4. limit * q = limit * p + limit + limit * d
  BY <1>1, <1>2
<1>5. QED
  BY <1>3, <1>4

\* Pages consist of rows; every row is on one of some list.
LEMMA PagesOfRows ==
    ASSUME NEW R, NEW key, Keyed(R, key), NEW limit \in Nat \ {0}
    PROVE  /\ \A page, P : Page(R, key, limit, page, P) => P \subseteq R
           /\ \A s : Ordered(R, key, s) => \A r \in R : \E page \in 0..Cardinality(R) :
                 r \in OnPage(s, Cardinality(R), limit, page)
<1>1. ASSUME NEW page, NEW P, Page(R, key, limit, page, P) PROVE P \subseteq R
  BY <1>1 DEF Page, OnPage, Ordered, Places
<1>2. ASSUME NEW s, Ordered(R, key, s), NEW r \in R
      PROVE  \E page \in 0..Cardinality(R) : r \in OnPage(s, Cardinality(R), limit, page)
  <2> DEFINE Size == Cardinality(R)
  <2>1. Size \in Nat
    BY <1>2, ListHasAll
  <2>2. PICK n \in 1..Size : s[n] = r
    BY <1>2, ListHasAll
  <2> HIDE DEF Size
  <2>3. n \in Nat \ {0} /\ n <= Size
    BY <2>1
  <2>4. PICK page \in 0..(n - 1) : limit * page < n /\ n <= limit * page + limit
    BY <2>3, PageOf
  <2>5. page \in 0..Size
    BY <2>1, <2>3
  <2>6. n \in Places(Size, limit, page)
    BY <2>4 DEF Places
  <2>7. QED
    BY <2>2, <2>5, <2>6 DEF OnPage, Size
<1>3. QED
  BY <1>1, <1>2

\* A row is on the page that holds all of its key, and on no other.
LEMMA PageHolds ==
    ASSUME NEW R, NEW key, Keyed(R, key), NEW limit \in Nat, NEW q \in Nat, NEW r \in R,
           limit * q <= Cardinality(Above(R, key, r)),
           Cardinality(AtLeast(R, key, r)) <= limit * q + limit,
           NEW p \in Nat, NEW P, Page(R, key, limit, p, P)
    PROVE  r \in P <=> p = q
<1> DEFINE Size == Cardinality(R)
           above == Cardinality(Above(R, key, r))
           least == Cardinality(AtLeast(R, key, r))
<1>1. PICK s : Ordered(R, key, s) /\ P = {s[n] : n \in Places(Size, limit, p)}
  BY DEF Page, OnPage
<1>2. Size \in Nat
  BY <1>1, ListHasAll
<1>3. PICK n \in 1..Size : s[n] = r
  BY <1>1, ListHasAll
<1>4. above \in Nat /\ least \in Nat /\ above < n /\ n <= least
  BY <1>1, <1>3, PlacesAre
<1>5. limit * q <= above /\ least <= limit * q + limit
  OBVIOUS
<1>6. r \in P <=> n \in Places(Size, limit, p)
  <2>1. \A m \in 1..Size : s[m] = r => m = n
    BY <1>1, <1>3 DEF Ordered
  <2>2. \A m \in Places(Size, limit, p) : m \in 1..Size
    BY DEF Places
  <2> HIDE DEF Size
  <2>3. QED
    BY <1>1, <1>3, <2>1, <2>2
<1> HIDE DEF Size, above, least
<1>7. limit * q \in Nat /\ limit * p \in Nat /\ n \in Nat
  BY <1>2
<1>8. limit * q < n /\ n <= limit * q + limit
  BY <1>4, <1>5, <1>7
<1>9. ASSUME p = q PROVE n \in Places(Size, limit, p)
  BY <1>8, <1>9 DEF Places
<1>10. ASSUME n \in Places(Size, limit, p) PROVE p = q
  <2>1. limit * p < n /\ n <= limit * p + limit
    BY <1>10 DEF Places
  <2>2. ~(p < q)
    <3>1. SUFFICES ASSUME p < q PROVE FALSE
      OBVIOUS
    <3>2. limit * p + limit <= limit * q
      BY <3>1, PagesApart
    <3>3. QED
      BY <1>7, <1>8, <2>1, <3>2
  <2>3. ~(q < p)
    <3>1. SUFFICES ASSUME q < p PROVE FALSE
      OBVIOUS
    <3>2. limit * q + limit <= limit * p
      BY <3>1, PagesApart
    <3>3. QED
      BY <1>7, <1>8, <2>1, <3>2
  <2>4. QED
    BY <2>2, <2>3
<1>11. QED
  BY <1>6, <1>9, <1>10

\* No row of a page must come before one of an earlier page.
LEMMA PagesInOrder ==
    ASSUME NEW R, NEW key, Keyed(R, key), NEW limit \in Nat, NEW p \in Nat, NEW q \in Nat, p < q,
           NEW P, Page(R, key, limit, p, P), NEW Q, Page(R, key, limit, q, Q),
           NEW a \in P, NEW b \in Q
    PROVE  ~(key[b] > key[a])
<1> DEFINE Size == Cardinality(R)
<1>1. PICK s : Ordered(R, key, s) /\ P = {s[n] : n \in Places(Size, limit, p)}
  BY DEF Page, OnPage
<1>2. PICK t : Ordered(R, key, t) /\ Q = {t[n] : n \in Places(Size, limit, q)}
  BY DEF Page, OnPage
<1>3. Size \in Nat
  BY <1>1, ListHasAll
<1>4. PICK m \in 1..Size : a = s[m] /\ m <= limit * p + limit
  BY <1>1 DEF Places
<1>5. PICK n \in 1..Size : b = t[n] /\ limit * q < n
  BY <1>2 DEF Places
<1>6. ~(n < m)
  <2>1. limit * p \in Nat /\ limit * q \in Nat /\ limit * p + limit <= limit * q
    BY PagesApart
  <2>2. m \in Nat /\ n \in Nat
    <3> HIDE DEF Size
    <3> QED BY <1>3
  <2>3. QED
    <3> HIDE DEF Size
    <3> QED BY <1>4, <1>5, <2>1, <2>2
<1>7. QED
  BY <1>1, <1>2, <1>4, <1>5, <1>6, Apart

-----------------------------------------------------------------------------
(* The list of invoices.                                                   *)

\* The keys of an order: ascending columns are negated.
Keys(f, R) == [i \in R |-> IF f.order = "asc" THEN 0 - i[f.by] ELSE i[f.by]]

\* They are integers, and say what precedes what.
LEMMA KeysPrecede ==
    ASSUME NEW R, IsFiniteSet(R), R \subseteq Invoice, NEW f, f.by \in Columns
    PROVE  /\ Keyed(R, Keys(f, R))
           /\ \A i, j \in R : Precedes(f, i, j) <=> Keys(f, R)[i] > Keys(f, R)[j]
<1>1. ASSUME NEW i \in R PROVE i[f.by] \in Nat
  <2>1. i \in Invoice
    OBVIOUS
  <2>2. /\ i["date"] \in Nat /\ i["created"] \in Nat /\ i["total"] \in Nat
        /\ i["vendor"] \in Nat /\ i["number"] \in Nat /\ i["status"] \in Nat
    BY <2>1 DEF Invoice
  <2>3. QED
    BY <2>2 DEF Columns
<1> DEFINE Col(i) == i[f.by]
<1>2. \A i \in R : Col(i) \in Nat
  BY <1>1
<1>3. \A i \in R : Keys(f, R)[i] = IF f.order = "asc" THEN 0 - Col(i) ELSE Col(i)
  BY DEF Keys
<1>4. \A i, j \in R : Precedes(f, i, j) <=> IF f.order = "asc" THEN Col(i) < Col(j) ELSE Col(i) > Col(j)
  BY DEF Precedes
<1>5. Keyed(R, Keys(f, R))
  <2>1. Keys(f, R) = [i \in R |-> IF f.order = "asc" THEN 0 - Col(i) ELSE Col(i)]
    BY DEF Keys
  <2> HIDE DEF Col
  <2>2. \A i \in R : (IF f.order = "asc" THEN 0 - Col(i) ELSE Col(i)) \in Int
    BY <1>2
  <2>3. QED
    BY <2>1, <2>2 DEF Keyed
<1>6. ASSUME NEW i \in R, NEW j \in R
      PROVE  Precedes(f, i, j) <=> Keys(f, R)[i] > Keys(f, R)[j]
  <2> HIDE DEF Col
  <2>1. CASE f.order = "asc"
    BY <1>2, <1>3, <1>4, <2>1
  <2>2. CASE f.order # "asc"
    BY <1>2, <1>3, <1>4, <2>2
  <2>3. QED
    BY <2>1, <2>2
<1>7. QED
  BY <1>5, <1>6

\* The list of invoices is in the order of their keys.
LEMMA OrdersAreOrdered ==
    ASSUME NEW R, IsFiniteSet(R), R \subseteq Invoice, NEW f, f.by \in Columns, NEW s \in Orders(f, R)
    PROVE  Ordered(R, Keys(f, R), s)
<1>1. Cardinality(R) = Cardinality(R)
  BY DEF Cardinality
<1>2. /\ s \in [1..Cardinality(R) -> R]
      /\ \A m, n \in 1..Cardinality(R) : m # n => s[m] # s[n]
      /\ \A m, n \in DOMAIN s : m < n => ~Precedes(f, s[n], s[m])
  BY <1>1 DEF Orders, SetToSeqs
<1>3. ASSUME NEW m \in 1..Cardinality(R), NEW n \in 1..Cardinality(R), m < n
      PROVE  Keys(f, R)[s[m]] >= Keys(f, R)[s[n]]
  <2>1. s[m] \in R /\ s[n] \in R /\ ~Precedes(f, s[n], s[m])
    BY <1>2, <1>3
  <2>2. ~(Keys(f, R)[s[n]] > Keys(f, R)[s[m]])
    BY <2>1, KeysPrecede
  <2>3. Keys(f, R)[s[m]] \in Int /\ Keys(f, R)[s[n]] \in Int
    BY <2>1, KeysPrecede DEF Keyed
  <2>4. QED
    BY <2>2, <2>3
<1>4. QED
  BY <1>2, <1>3 DEF Ordered

\* A listing that the assumption allows.
Listing(p) == /\ p.limit \in Nat \ {0} /\ IsFiniteSet(p.after) /\ p.after \subseteq Invoice
              /\ p.before \subseteq p.after /\ KeysDiffer(p.after) /\ p.query.by \in Columns

\* What a client gets is a page.
LEMMA PagesArePages ==
    ASSUME NEW table, NEW page \in Nat, NEW one \in Pages(table, page),
           NEW R, R = Selected(table, In.files, "t", In.query), IsFiniteSet(R), R \subseteq Invoice,
           In.limit \in Nat, In.query.by \in Columns
    PROVE  Page(R, Keys(In.query, R), In.limit, page, one)
<1> DEFINE offset == In.limit * page
<1>1. PICK s \in Orders(In.query, R) : one = ToSet(Slice(s, In.limit, offset))
  BY DEF Pages, ListFiltered
<1>2. Ordered(R, Keys(In.query, R), s) /\ Keyed(R, Keys(In.query, R))
  BY OrdersAreOrdered, KeysPrecede
<1>3. Page(R, Keys(In.query, R), In.limit, page, ToSet(PartOf(s, In.limit, In.limit * page)))
  <2> DEFINE K == Keys(In.query, R)
             limit == In.limit
  <2>1. Ordered(R, K, s) /\ Keyed(R, K) /\ limit \in Nat
    BY <1>2
  <2> HIDE DEF K, limit
  <2>2. Page(R, K, limit, page, ToSet(PartOf(s, limit, limit * page)))
    BY <2>1, PartIsPage
  <2>3. QED
    BY <2>2 DEF K, limit
<1>4. Slice(s, In.limit, offset) = PartOf(s, In.limit, offset)
  <2>1. s \in ListOf(R) /\ offset \in Nat /\ In.limit \in Nat
    BY <1>2, OrderedIsList
  <2> HIDE DEF offset
  <2>2. QED
    BY <2>1, PartIsSlice DEF Slice
<1>5. QED
  <2> HIDE DEF offset
  <2>1. Page(R, Keys(In.query, R), In.limit, page, ToSet(PartOf(s, In.limit, offset)))
    BY <1>3 DEF offset
  <2>2. QED
    BY <1>1, <1>4, <2>1

\* No invoice falls between the pages (list_filtered, create).
LEMMA NoneIsMissed ==
    ASSUME Listing(In)
    PROVE  PagesCover
<1> DEFINE f == In.query
           rows == Selected(In.before, In.files, "t", f)
           later == Selected(In.after, In.files, "t", f)
           before(i) == Cardinality({j \in later : Precedes(f, j, i)})
           upto(i)   == Cardinality({j \in later : ~Precedes(f, i, j)})
           Held(i)   == \E p \in 0..Cardinality(later) :
                           In.limit * p <= before(i) /\ upto(i) <= In.limit * p + In.limit
<1>1. rows \subseteq later /\ later \subseteq In.after
  BY DEF Listing, Selected
<1>2. /\ In.limit \in Nat \ {0} /\ f.by \in Columns
      /\ IsFiniteSet(later) /\ IsFiniteSet(rows) /\ later \subseteq Invoice /\ rows \subseteq Invoice
  <2>1. IsFiniteSet(In.after) /\ In.after \subseteq Invoice /\ In.limit \in Nat \ {0} /\ f.by \in Columns
    BY DEF Listing
  <2> HIDE DEF rows, later
  <2>2. IsFiniteSet(later)
    BY <1>1, <2>1, FS_Subset
  <2>3. QED
    BY <1>1, <2>1, <2>2, FS_Subset
<1> DEFINE K == Keys(f, later)
           k == Keys(f, rows)
<1>3. /\ Keyed(later, K) /\ Keyed(rows, k)
      /\ \A i, j \in later : Precedes(f, i, j) <=> K[i] > K[j]
      /\ \A i, j \in rows : Precedes(f, i, j) <=> k[i] > k[j]
  <2> HIDE DEF rows, later
  <2> QED BY <1>2, KeysPrecede
<1>4. Cardinality(later) \in Nat
  <2> HIDE DEF later
  <2> QED BY <1>2, FS_CardinalityType
<1>5. ASSUME NEW i \in later
      PROVE  /\ {j \in later : Precedes(f, j, i)} = Above(later, K, i)
             /\ {j \in later : ~Precedes(f, i, j)} = AtLeast(later, K, i)
  <2>1. \A j \in later : K[j] \in Int
    <3> HIDE DEF later, K
    <3> QED BY <1>3 DEF Keyed
  <2> HIDE DEF later, K, f
  <2>2. \A j \in later : (Precedes(f, j, i) <=> K[j] > K[i]) /\ (~Precedes(f, i, j) <=> K[j] >= K[i])
    BY <1>3, <2>1
  <2>3. QED
    BY <2>2 DEF Above, AtLeast
<1>6. /\ \A page \in Nat : \A one \in Pages(In.before, page) : Page(rows, k, In.limit, page, one)
      /\ \A page \in Nat : \A one \in Pages(In.after, page) : Page(later, K, In.limit, page, one)
  <2>1. ASSUME NEW page \in Nat, NEW one \in Pages(In.before, page)
        PROVE  Page(rows, k, In.limit, page, one)
    BY <1>2, PagesArePages
  <2>2. ASSUME NEW page \in Nat, NEW one \in Pages(In.after, page)
        PROVE  Page(later, K, In.limit, page, one)
    BY <1>2, PagesArePages
  <2>3. QED
    <3> HIDE DEF rows, later, K, k
    <3> QED BY <2>1, <2>2
<1> HIDE DEF rows, later, K, k, f
<1>7. ASSUME NEW i \in rows, NEW one \in Pages(In.before, 0), Held(i), i \notin one
      PROVE  \E p \in 1..Cardinality(later) : \A other \in Pages(In.after, p) : i \in other
  <2>1. PICK p \in 0..Cardinality(later) :
           In.limit * p <= before(i) /\ upto(i) <= In.limit * p + In.limit
    BY <1>7
  <2>2. i \in later /\ p \in Nat
    BY <1>1, <1>4
  <2>3. /\ In.limit * p <= Cardinality(Above(later, K, i))
        /\ Cardinality(AtLeast(later, K, i)) <= In.limit * p + In.limit
    BY <1>5, <2>1, <2>2
  <2>4. p # 0
    <3>1. SUFFICES ASSUME p = 0 PROVE FALSE
      OBVIOUS
    <3> DEFINE A == AtLeast(rows, k, i)
               B == AtLeast(later, K, i)
    <3>2. A \in SUBSET B
      <4>1. \A j \in rows : j \in later /\ k[j] = K[j]
        BY <1>1 DEF k, K, Keys
      <4>2. QED
        BY <4>1 DEF AtLeast
    <3>3. IsFiniteSet(B)
      <4>1. B \in SUBSET later
        BY DEF AtLeast
      <4>2. QED
        BY <1>2, <4>1, FS_Subset
    <3>4. Cardinality(A) <= Cardinality(B) /\ Cardinality(A) \in Nat /\ Cardinality(B) \in Nat
      <4> HIDE DEF A, B
      <4> QED BY <3>2, <3>3, FS_Subset, FS_CardinalityType
    <3>5. In.limit * 0 = 0 /\ In.limit \in Nat
      BY <1>2
    <3>6. Cardinality(A) <= In.limit * 0 + In.limit
      <4>1. Cardinality(B) <= In.limit * 0 + In.limit
        BY <2>3, <3>1
      <4> HIDE DEF A, B
      <4>2. QED
        BY <3>4, <3>5, <4>1
    <3>7. In.limit * 0 <= Cardinality(Above(rows, k, i))
      <4> DEFINE C == Above(rows, k, i)
      <4>1. C \in SUBSET rows
        BY DEF Above
      <4> HIDE DEF C
      <4>2. Cardinality(C) \in Nat
        BY <1>2, <4>1, FS_Subset, FS_CardinalityType
      <4>3. QED
        BY <3>5, <4>2 DEF C
    <3>8. Page(rows, k, In.limit, 0, one)
      BY <1>6
    <3>9. i \in one
      <4> HIDE DEF A, B
      <4>1. Cardinality(AtLeast(rows, k, i)) <= In.limit * 0 + In.limit
        BY <3>6 DEF A
      <4>2. QED
        BY <1>3, <3>5, <3>7, <3>8, <4>1, PageHolds
    <3>10. QED
      BY <1>7, <3>9
  <2>5. ASSUME NEW other \in Pages(In.after, p) PROVE i \in other
    <3>1. Page(later, K, In.limit, p, other)
      BY <1>6, <2>2
    <3>2. QED
      BY <1>2, <1>3, <2>2, <2>3, <3>1, PageHolds
  <2>6. p \in 1..Cardinality(later)
    BY <1>4, <2>4
  <2>7. QED
    BY <2>5, <2>6
<1>8. ASSUME NEW p \in 0..Cardinality(later), NEW q \in 0..Cardinality(later),
             NEW one \in Pages(In.after, p), NEW two \in Pages(In.after, q), p < q,
             NEW i \in one, NEW j \in two
      PROVE  ~Precedes(f, j, i)
  <2>1. p \in Nat /\ q \in Nat /\ In.limit \in Nat
    BY <1>2, <1>4
  <2>2. Page(later, K, In.limit, p, one) /\ Page(later, K, In.limit, q, two)
    BY <1>6, <2>1
  <2>3. i \in later /\ j \in later
    BY <1>2, <1>3, <2>2, PagesOfRows
  <2>4. ~(K[j] > K[i])
    BY <1>3, <1>8, <2>1, <2>2, PagesInOrder
  <2>5. QED
    BY <1>3, <2>3, <2>4
<1>9. /\ \A i \in rows, one \in Pages(In.before, 0) :
            Held(i) => i \in one \/ \E p \in 1..Cardinality(later) :
                                        \A other \in Pages(In.after, p) : i \in other
      /\ \A p, q \in 0..Cardinality(later) : \A one \in Pages(In.after, p), two \in Pages(In.after, q) :
            p < q => \A i \in one, j \in two : ~Precedes(f, j, i)
  <2> HIDE DEF Held
  <2> QED BY <1>7, <1>8
<1>10. QED
  BY <1>9 DEF PagesCover, rows, later, f

\* The vendors offered are those of the tenant's invoices.
LEMMA VendorsOffered ==
    ASSUME NEW table, IsFiniteSet(table), table \subseteq Invoice, NEW t
    PROVE  ToSet(ListVendors(table, t)) = {i.vendor : i \in {j \in table : j.tenant = t /\ j.vendor # 0}}
<1> DEFINE own == {j \in table : j.tenant = t /\ j.vendor # 0}
           V == {i.vendor : i \in own}
           key == [v \in V |-> 0 - v]
           Ascends(s) == \A m, n \in DOMAIN s : m < n => s[m] < s[n]
<1>1. IsFiniteSet(own) /\ \A i \in own : i.vendor \in Nat
  <2>1. own \in SUBSET table
    OBVIOUS
  <2>2. IsFiniteSet(own)
    <3> HIDE DEF own
    <3> QED BY <2>1, FS_Subset
  <2>3. QED
    BY <2>2 DEF Invoice
<1>2. V \subseteq Nat /\ IsFiniteSet(V)
  <2> DEFINE vendor == [i \in own |-> i.vendor]
  <2>1. V \subseteq Nat
    BY <1>1
  <2>2. vendor \in Surjection(own, V)
    <3> HIDE DEF own
    <3> QED BY DEF Surjection
  <2>3. IsFiniteSet(V)
    <3> HIDE DEF own, V, vendor
    <3> QED BY <1>1, <2>2, FS_Surjection
  <2>4. QED
    BY <2>1, <2>3
<1>3. Keyed(V, key)
  <2> HIDE DEF V
  <2> QED BY <1>2 DEF Keyed
<1>4. SetToSeqs(V) = {s \in [1..Cardinality(V) -> V] :
                          \A m, n \in 1..Cardinality(V) : m # n => s[m] # s[n]}
  <2>1. Cardinality(V) = Cardinality(V)
    BY DEF Cardinality
  <2>2. QED
    <3> HIDE DEF V
    <3> QED BY <2>1 DEF SetToSeqs
<1>5. \A v \in V : v \in Int /\ key[v] = 0 - v
  BY <1>2
<1>6. ASSUME NEW s PROVE s \in SetToSeqs(V) /\ Ascends(s) <=> Ordered(V, key, s)
  <2> HIDE DEF V, key
  <2>1. ASSUME s \in SetToSeqs(V), Ascends(s) PROVE Ordered(V, key, s)
    <3>1. s \in [1..Cardinality(V) -> V] /\ \A m, n \in 1..Cardinality(V) : m # n => s[m] # s[n]
      BY <1>4, <2>1
    <3>2. ASSUME NEW m \in 1..Cardinality(V), NEW n \in 1..Cardinality(V), m < n
          PROVE  key[s[m]] >= key[s[n]]
      <4>1. s[m] < s[n] /\ s[m] \in V /\ s[n] \in V
        BY <2>1, <3>1, <3>2
      <4>2. QED
        BY <1>5, <4>1
    <3>3. QED
      BY <3>1, <3>2 DEF Ordered
  <2>2. ASSUME Ordered(V, key, s) PROVE s \in SetToSeqs(V) /\ Ascends(s)
    <3>1. /\ s \in [1..Cardinality(V) -> V]
          /\ \A m, n \in 1..Cardinality(V) : m # n => s[m] # s[n]
          /\ \A m, n \in 1..Cardinality(V) : m < n => key[s[m]] >= key[s[n]]
      BY <2>2 DEF Ordered
    <3>2. ASSUME NEW m \in 1..Cardinality(V), NEW n \in 1..Cardinality(V), m < n
          PROVE  s[m] < s[n]
      <4>0. m # n
        <5>1. Cardinality(V) \in Nat
          BY <1>2, FS_CardinalityType
        <5>2. QED
          BY <3>2, <5>1
      <4>1. key[s[m]] >= key[s[n]] /\ s[m] # s[n] /\ s[m] \in V /\ s[n] \in V
        BY <3>1, <3>2, <4>0
      <4>2. QED
        BY <1>5, <4>1
    <3>3. QED
      BY <1>4, <3>1, <3>2
  <2>3. QED
    BY <2>1, <2>2
<1> DEFINE chosen == CHOOSE s \in SetToSeqs(V) : Ascends(s)
<1>7. Ordered(V, key, chosen)
  <2> HIDE DEF V, key, Ascends
  <2>1. \E s : Ordered(V, key, s)
    BY <1>3, OrderedExists
  <2>2. \E s \in SetToSeqs(V) : Ascends(s)
    BY <1>6, <2>1
  <2>3. chosen \in SetToSeqs(V) /\ Ascends(chosen)
    BY <2>2
  <2>4. QED
    <3> HIDE DEF chosen
    <3> QED BY <1>6, <2>3
<1>8. ListVendors(table, t) = chosen
  BY DEF ListVendors
<1>9. ToSet(chosen) = V
  <2> HIDE DEF V, key, chosen
  <2>1. chosen \in [1..Cardinality(V) -> V]
    BY <1>7 DEF Ordered
  <2>2. \A v \in V : \E n \in 1..Cardinality(V) : chosen[n] = v
    BY <1>3, <1>7, ListHasAll
  <2>3. QED
    BY <2>1, <2>2 DEF ToSet
<1>10. QED
  <2> HIDE DEF V, chosen
  <2> QED BY <1>8, <1>9 DEF V

\* Offered vendors have invoices, and listed invoices can be opened
\* (list_distinct_vendors, list_filtered, get_by_id_with_user_email).
LEMMA OfferedHasInvoices ==
    ASSUME Listing(In)
    PROVE  OfferedIsFound
<1>1. SUFFICES ASSUME NEW t
               PROVE  LET offered == ToSet(ListVendors(In.after, t))
                          By(v)   == Selected(In.after, In.files, t, [All EXCEPT !.vendors = {v}])
                          listed  == Selected(In.after, In.files, t, All)
                      IN  /\ \A v \in offered : By(v) # {}
                          /\ UNION {By(v) : v \in offered} = {i \in listed : i.vendor # 0}
                          /\ \A i \in In.after : GetInvoice(In.after, << >>, t, i.id).found <=> i \in listed
  BY DEF OfferedIsFound
<1> DEFINE offered == ToSet(ListVendors(In.after, t))
           By(v)   == Selected(In.after, In.files, t, [All EXCEPT !.vendors = {v}])
           listed  == Selected(In.after, In.files, t, All)
<1>2. IsFiniteSet(In.after) /\ In.after \subseteq Invoice /\ KeysDiffer(In.after)
  BY DEF Listing
<1>3. listed = {i \in In.after : i.tenant = t}
  BY DEF All, Selected, Unset, NoBound
<1>4. \A v : By(v) = {i \in In.after : i.tenant = t /\ i.vendor = v}
  BY DEF All, Selected, Unset, NoBound
<1>5. offered = {i.vendor : i \in {j \in In.after : j.tenant = t /\ j.vendor # 0}}
  BY <1>2, VendorsOffered
<1>6. \A v \in offered : By(v) # {}
  <2> HIDE DEF offered, By
  <2> QED BY <1>4, <1>5
<1>7. UNION {By(v) : v \in offered} = {i \in listed : i.vendor # 0}
  <2> HIDE DEF offered, By, listed
  <2> QED BY <1>3, <1>4, <1>5
<1>8. ASSUME NEW i \in In.after
      PROVE  GetInvoice(In.after, << >>, t, i.id).found <=> i \in listed
  <2>1. (\E x \in In.after : x.id = i.id /\ x.tenant = t) <=> i \in listed
    <3> HIDE DEF listed
    <3> QED BY <1>2, <1>3 DEF KeysDiffer
  <2> HIDE DEF listed
  <2>2. CASE i \in listed
    <3>1. GetInvoice(In.after, << >>, t, i.id).found = TRUE
      BY <2>1, <2>2 DEF GetInvoice
    <3>2. QED
      BY <2>2, <3>1
  <2>3. CASE i \notin listed
    <3>1. GetInvoice(In.after, << >>, t, i.id).found = FALSE
      BY <2>1, <2>3 DEF GetInvoice, NoInvoice
    <3>2. QED
      BY <2>3, <3>1
  <2>4. QED
    BY <2>2, <2>3
<1>9. QED
  <2> HIDE DEF offered, By, listed
  <2> QED BY <1>6, <1>7, <1>8 DEF offered, By, listed

-----------------------------------------------------------------------------
(* The list of files.                                                      *)

\* The times of the rows of files.
Times(R) == [r \in R |-> r.created]

\* A list of files by their times, the newest first.
LEMMA NewestAreOrdered ==
    ASSUME NEW R, R \subseteq FileRow, NEW s
    PROVE  s \in NewestFirst(R) <=> Ordered(R, Times(R), s)
<1>1. Cardinality(R) = Cardinality(R)
  BY DEF Cardinality
<1>2. s \in NewestFirst(R) <=>
         /\ s \in [1..Cardinality(R) -> R]
         /\ \A m, n \in 1..Cardinality(R) : m # n => s[m] # s[n]
         /\ \A m, n \in DOMAIN s : m < n => s[m].created >= s[n].created
  BY <1>1 DEF NewestFirst, SetToSeqs
<1>3. QED
  BY <1>2 DEF Ordered, Times

\* What an answer shows of a row, and of the rows of a page.
Item(r) == [id |-> r.id, shown |-> FromModel(r)]
Own(rows) == {r \in rows : r.tenant = "t"}
ItemsOf(P) == {Item(r) : r \in P}
Items(answer) == {answer.items[n] : n \in DOMAIN answer.items}

\* The answers are those that show a page of an ordered list (list_all, count_all).
LEMMA AnswersArePages ==
    ASSUME NEW rows, Own(rows) \subseteq FileRow, Keyed(Own(rows), Times(Own(rows))),
           NEW limit \in Nat, NEW page \in Nat
    PROVE  LET R == Own(rows)
               answers == ListInvoiceFiles(rows, rows, "t", limit, limit * page)
           IN  /\ \A answer \in answers :
                     /\ answer.total = Cardinality(R)
                     /\ \E P : Page(R, Times(R), limit, page, P) /\ Items(answer) = ItemsOf(P)
               /\ \A s : Ordered(R, Times(R), s) => \E answer \in answers :
                     Items(answer) = ItemsOf(OnPage(s, Cardinality(R), limit, page))
<1> DEFINE R == Own(rows)
           offset == limit * page
           Part(s) == PartOf(s, limit, offset)
           Answered(s) == [items |-> [n \in DOMAIN Part(s) |-> Item(Part(s)[n])], total |-> Cardinality(R)]
           answers == ListInvoiceFiles(rows, rows, "t", limit, offset)
<1>1. R = {r \in rows : r.tenant = "t"} /\ R \subseteq FileRow /\ Keyed(R, Times(R)) /\ offset \in Nat
  BY DEF Own
<1> HIDE DEF R
<1>2. ASSUME NEW s, Ordered(R, Times(R), s)
      PROVE  /\ SubSeq(s, offset + 1, Min({offset + limit, Len(s)})) = Part(s)
             /\ ToSet(Part(s)) = OnPage(s, Cardinality(R), limit, page)
             /\ Page(R, Times(R), limit, page, ToSet(Part(s)))
  <2>1. s \in ListOf(R)
    BY <1>1, <1>2, OrderedIsList
  <2>2. SubSeq(s, offset + 1, Min({offset + limit, Len(s)})) = Part(s)
    <3> HIDE DEF offset
    <3> QED BY <1>1, <2>1, PartIsSlice
  <2>3. ToSet(PartOf(s, limit, limit * page)) = OnPage(s, Cardinality(R), limit, page)
    BY <1>1, <1>2, PartIsPage
  <2>4. Page(R, Times(R), limit, page, ToSet(PartOf(s, limit, limit * page)))
    BY <1>1, <1>2, PartIsPage
  <2>5. QED
    BY <2>2, <2>3, <2>4
<1>3. answers = {Answered(s) : s \in NewestFirst(R)}
  <2>1. answers = {[items |-> [n \in DOMAIN page_ |-> [id |-> page_[n].id, shown |-> FromModel(page_[n])]],
                    total |-> Cardinality(R)] :
                      page_ \in {SubSeq(s, offset + 1, Min({offset + limit, Len(s)})) : s \in NewestFirst(R)}}
    BY <1>1 DEF ListInvoiceFiles, Listed, CountAll
  <2> DEFINE Sliced(s) == SubSeq(s, offset + 1, Min({offset + limit, Len(s)}))
             Shown(q) == [items |-> [n \in DOMAIN q |-> [id |-> q[n].id, shown |-> FromModel(q[n])]],
                          total |-> Cardinality(R)]
  <2>2. answers = {Shown(q) : q \in {Sliced(s) : s \in NewestFirst(R)}}
    BY <2>1
  <2>3. \A s \in NewestFirst(R) : Sliced(s) = Part(s)
    BY <1>1, <1>2, NewestAreOrdered
  <2>4. \A s : Shown(Part(s)) = Answered(s)
    BY DEF Item
  <2> HIDE DEF Sliced, Shown, Answered, Part, answers
  <2>5. QED
    BY <2>2, <2>3, <2>4
<1>4. \A s : Items(Answered(s)) = ItemsOf(ToSet(Part(s))) /\ Answered(s).total = Cardinality(R)
  <2> HIDE DEF Part
  <2> QED BY DEF Items, ItemsOf, ToSet
<1>5. ASSUME NEW answer \in answers
      PROVE  /\ answer.total = Cardinality(R)
             /\ \E P : Page(R, Times(R), limit, page, P) /\ Items(answer) = ItemsOf(P)
  <2> HIDE DEF Answered, Part, answers
  <2>1. PICK s \in NewestFirst(R) : answer = Answered(s)
    BY <1>3
  <2>2. Page(R, Times(R), limit, page, ToSet(Part(s)))
    BY <1>1, <1>2, <2>1, NewestAreOrdered
  <2>3. QED
    BY <1>4, <2>1, <2>2
<1>6. ASSUME NEW s, Ordered(R, Times(R), s)
      PROVE  \E answer \in answers :
                Items(answer) = ItemsOf(OnPage(s, Cardinality(R), limit, page))
  <2> HIDE DEF Answered, Part, answers
  <2>1. Answered(s) \in answers
    BY <1>1, <1>3, <1>6, NewestAreOrdered
  <2>2. ToSet(Part(s)) = OnPage(s, Cardinality(R), limit, page)
    BY <1>2, <1>6
  <2>3. QED
    BY <1>4, <2>1, <2>2
<1>7. QED
  BY <1>5, <1>6 DEF R

\* Rows of files that the assumption allows.
Filing(f) == /\ f.limit \in Nat \ {0} /\ IsFiniteSet(f.rows) /\ f.rows \subseteq FileRow
             /\ KeysDiffer(f.rows)

\* Listed files are those that are served, on pages in order
\* (list_invoice_files, get_invoice_file, get_extraction_status).
LEMMA ListedIsServed ==
    ASSUME Filing(In)
    PROVE  ListedAreServed
<1> DEFINE rows    == In.rows
           limit   == In.limit
           own     == {r \in rows : r.tenant = "t"}
           storage == [p \in {r.path : r \in rows} |-> p]
           Got(p)  == ListInvoiceFiles(rows, rows, "t", limit, limit * p)
           Shows(answer, r) == \E n \in DOMAIN answer.items : answer.items[n].id = r.id
           Served(id) == GetInvoiceFile(rows, storage, "t", id) # {}
           last    == Cardinality(own)
           newer(r) == Cardinality({q \in own : q.created > r.created})
           older(r) == Cardinality({q \in own : q.created >= r.created})
           Holds(p, r) == limit * p <= newer(r) /\ older(r) <= limit * p + limit
           T == Times(own)
<1>1. /\ limit \in Nat \ {0} /\ IsFiniteSet(rows) /\ rows \subseteq FileRow
      /\ \A a, b \in rows : a.id = b.id => a = b
  BY DEF Filing, KeysDiffer
<1>2. own = Own(rows) /\ own \subseteq rows /\ \A r \in rows : r \in own <=> r.tenant = "t"
  BY DEF Own
<1>3. own \subseteq FileRow /\ IsFiniteSet(own) /\ Keyed(own, T) /\ \A r \in own : r.created \in Int /\ T[r] = r.created
  <2>1. own \in SUBSET rows
    OBVIOUS
  <2> HIDE DEF own, rows
  <2>2. IsFiniteSet(own)
    BY <1>1, <2>1, FS_Subset
  <2>3. \A r \in own : r.created \in Int
    BY <1>1, <2>1 DEF FileRow
  <2>4. Keyed(own, T)
    BY <2>2, <2>3 DEF Keyed, Times
  <2>5. QED
    BY <1>1, <2>1, <2>2, <2>3, <2>4 DEF Times
<1>4. last \in Nat
  <2> HIDE DEF own
  <2> QED BY <1>3, FS_CardinalityType
<1>5. ASSUME NEW r \in own
      PROVE  newer(r) = Cardinality(Above(own, T, r)) /\ older(r) = Cardinality(AtLeast(own, T, r))
  <2> HIDE DEF own, T
  <2>1. {q \in own : q.created > r.created} = Above(own, T, r)
        /\ {q \in own : q.created >= r.created} = AtLeast(own, T, r)
    BY <1>3 DEF Above, AtLeast
  <2>2. QED
    BY <2>1
<1>6. ASSUME NEW p \in Nat
      PROVE  /\ \A answer \in Got(p) :
                   /\ answer.total = last
                   /\ \E P : Page(own, T, limit, p, P) /\ Items(answer) = ItemsOf(P)
             /\ \A s : Ordered(own, T, s) => \E answer \in Got(p) :
                   Items(answer) = ItemsOf(OnPage(s, last, limit, p))
  <2>1. own = Own(rows) /\ Own(rows) \subseteq FileRow /\ Keyed(Own(rows), Times(Own(rows))) /\ limit \in Nat
    BY <1>1, <1>2, <1>3
  <2> HIDE DEF own, rows, limit
  <2>2. ASSUME NEW answer \in ListInvoiceFiles(rows, rows, "t", limit, limit * p)
        PROVE  /\ answer.total = Cardinality(Own(rows))
               /\ \E P : /\ Page(Own(rows), Times(Own(rows)), limit, p, P)
                         /\ Items(answer) = ItemsOf(P)
    BY <2>1, AnswersArePages
  <2>3. ASSUME NEW s, Ordered(Own(rows), Times(Own(rows)), s)
        PROVE  \E answer \in ListInvoiceFiles(rows, rows, "t", limit, limit * p) :
                  Items(answer) = ItemsOf(OnPage(s, Cardinality(Own(rows)), limit, p))
    BY <2>1, <2>3, AnswersArePages
  <2>4. QED
    BY <2>1, <2>2, <2>3
<1>7. \A r : Item(r).id = r.id /\ Item(r).shown = FromModel(r)
  BY DEF Item
<1>8. ASSUME NEW P \in SUBSET own, NEW answer, Items(answer) = ItemsOf(P), NEW r \in rows
      PROVE  Shows(answer, r) <=> r \in P
  <2> HIDE DEF own, rows
  <2>1. Shows(answer, r) <=> \E i \in Items(answer) : i.id = r.id
    BY DEF Items
  <2>2. (\E i \in Items(answer) : i.id = r.id) <=> \E x \in P : x.id = r.id
    BY <1>7, <1>8 DEF ItemsOf
  <2>3. (\E x \in P : x.id = r.id) <=> r \in P
    <3>1. \A x \in P : x \in rows
      BY <1>2
    <3>2. QED
      BY <1>1, <3>1
  <2>4. QED
    <3> HIDE DEF Shows
    <3> QED BY <2>1, <2>2, <2>3
<1>9. ASSUME NEW p \in Nat, NEW answer \in Got(p)
      PROVE  \E P \in SUBSET own : /\ Page(own, T, limit, p, P) /\ Items(answer) = ItemsOf(P)
                                   /\ \A r \in rows : Shows(answer, r) <=> r \in P
  <2>1. PICK P : Page(own, T, limit, p, P) /\ Items(answer) = ItemsOf(P)
    <3> HIDE DEF own, T, limit, Got
    <3> QED BY <1>6, <1>9
  <2>2. P \in SUBSET own
    <3> HIDE DEF own, T, limit
    <3> QED BY <1>1, <1>3, <2>1, PagesOfRows
  <2>3. \A r \in rows : Shows(answer, r) <=> r \in P
    <3> HIDE DEF own, T, limit, Got, Shows, rows
    <3> QED BY <1>8, <2>1, <2>2
  <2>4. QED
    <3> HIDE DEF own, T, limit, Got, Shows, rows
    <3> QED BY <2>1, <2>2, <2>3
<1>10. ASSUME NEW r \in rows PROVE Served(r.id) <=> r \in own
  <2>1. r.path \in DOMAIN storage
    OBVIOUS
  <2>2. FileOf(rows, "t", r.id) = IF r \in own THEN {r} ELSE {}
    <3> HIDE DEF rows, own
    <3> QED BY <1>1, <1>2 DEF FileOf
  <2>3. GetInvoiceFile(rows, storage, "t", r.id) = IF r \in own THEN {storage[r.path]} ELSE {}
    <3> HIDE DEF rows, own, storage
    <3> QED BY <2>1, <2>2 DEF GetInvoiceFile
  <2>4. QED
    <3> HIDE DEF rows, own, storage
    <3> QED BY <2>3
<1>11. \A p \in 0..last : p \in Nat
  <2> HIDE DEF last
  <2> QED BY <1>4
<1>12. ASSUME NEW r \in rows
       PROVE  Served(r.id) <=> \E p \in 0..last : \E answer \in Got(p) : Shows(answer, r)
  <2>1. ASSUME r \in own PROVE \E p \in 0..last : \E answer \in Got(p) : Shows(answer, r)
    <3>1. PICK s : Ordered(own, T, s)
      <4> HIDE DEF own, T
      <4> QED BY <1>3, OrderedExists
    <3>2. PICK p \in 0..last : r \in OnPage(s, last, limit, p)
      <4> HIDE DEF own, T, limit
      <4> QED BY <1>1, <1>3, <2>1, <3>1, PagesOfRows
    <3> DEFINE P == OnPage(s, last, limit, p)
    <3>3. PICK answer \in Got(p) : Items(answer) = ItemsOf(P)
      <4> HIDE DEF own, T, limit, Got, last
      <4> QED BY <1>6, <1>11, <3>1, <3>2
    <3>4. P \in SUBSET own
      <4>1. Page(own, T, limit, p, P)
        <5> HIDE DEF own, T, limit
        <5> QED BY <3>1 DEF Page
      <4>2. QED
        <5> HIDE DEF own, T, limit, P
        <5> QED BY <1>1, <1>3, <4>1, PagesOfRows
    <3>5. Shows(answer, r)
      <4> HIDE DEF own, Got, Shows, P, rows
      <4> QED BY <1>8, <3>2, <3>3, <3>4 DEF P
    <3>6. QED
      <4> HIDE DEF Got, last, Shows
      <4> QED BY <3>3, <3>5
  <2>2. ASSUME NEW p \in 0..last, NEW answer \in Got(p), Shows(answer, r) PROVE r \in own
    <3> HIDE DEF own, T, limit, Got, Shows, rows, last
    <3>1. PICK P \in SUBSET own : \A x \in rows : Shows(answer, x) <=> x \in P
      BY <1>9, <1>11
    <3>2. QED
      BY <2>2, <3>1
  <2>3. QED
    <3> HIDE DEF Served, own, last, Got, Shows, rows
    <3> QED BY <1>10, <2>1, <2>2
<1>13. ASSUME NEW r \in own, NEW p \in 0..last, NEW q \in 0..last, NEW answer \in Got(q), Holds(p, r)
       PROVE  Shows(answer, r) <=> p = q
  <2>1. p \in Nat /\ q \in Nat /\ r \in rows /\ limit \in Nat
    BY <1>1, <1>2, <1>11
  <2>2. PICK P \in SUBSET own : Page(own, T, limit, q, P) /\ \A x \in rows : Shows(answer, x) <=> x \in P
    <3> HIDE DEF own, T, limit, Got, Shows, rows, last
    <3> QED BY <1>9, <1>13, <2>1
  <2>3. limit * p <= Cardinality(Above(own, T, r)) /\ Cardinality(AtLeast(own, T, r)) <= limit * p + limit
    <3>1. limit * p <= newer(r) /\ older(r) <= limit * p + limit
      BY <1>13
    <3> HIDE DEF own, T, limit, newer, older
    <3>2. QED
      BY <1>5, <3>1
  <2>4. r \in P <=> q = p
    <3> HIDE DEF own, T, limit
    <3> QED BY <1>3, <2>1, <2>2, <2>3, PageHolds
  <2>5. QED
    <3> HIDE DEF own, Shows, rows
    <3> QED BY <2>1, <2>2, <2>4
<1>14. ASSUME NEW p \in 0..last, NEW q \in 0..last, NEW one \in Got(p), NEW two \in Got(q),
              NEW a \in own, NEW b \in own, p < q, Shows(one, a), Shows(two, b)
       PROVE  a.created >= b.created
  <2>1. p \in Nat /\ q \in Nat /\ a \in rows /\ b \in rows /\ limit \in Nat
    BY <1>1, <1>2, <1>11
  <2>2. PICK P \in SUBSET own : Page(own, T, limit, p, P) /\ \A x \in rows : Shows(one, x) <=> x \in P
    <3> HIDE DEF own, T, limit, Got, Shows, rows, last
    <3> QED BY <1>9, <1>14, <2>1
  <2>3. PICK Q \in SUBSET own : Page(own, T, limit, q, Q) /\ \A x \in rows : Shows(two, x) <=> x \in Q
    <3> HIDE DEF own, T, limit, Got, Shows, rows, last
    <3> QED BY <1>9, <1>14, <2>1
  <2>4. a \in P /\ b \in Q
    <3> HIDE DEF own, Shows, rows
    <3> QED BY <1>14, <2>1, <2>2, <2>3
  <2>5. ~(T[b] > T[a])
    <3> HIDE DEF own, T, limit
    <3> QED BY <1>3, <1>14, <2>1, <2>2, <2>3, <2>4, PagesInOrder
  <2>6. QED
    <3> HIDE DEF own, T
    <3> QED BY <1>3, <2>5
<1>15. ASSUME NEW p \in 0..last, NEW answer \in Got(p)
       PROVE  /\ answer.total = last
              /\ \A n \in DOMAIN answer.items :
                    \E r \in GetExtractionStatus(rows, "t", answer.items[n].id) :
                        answer.items[n].shown.total_amount # Nothing <=>
                            /\ r.status = "completed" /\ r.result # << >>
                            /\ r.result.total_amount \in {"number", "NaN"}
  <2>1. p \in Nat
    BY <1>11
  <2>2. answer.total = last
    <3> HIDE DEF Got, own, limit, T
    <3> QED BY <1>6, <1>15, <2>1
  <2>3. ASSUME NEW n \in DOMAIN answer.items
        PROVE  \E r \in GetExtractionStatus(rows, "t", answer.items[n].id) :
                   answer.items[n].shown.total_amount # Nothing <=>
                       /\ r.status = "completed" /\ r.result # << >>
                       /\ r.result.total_amount \in {"number", "NaN"}
    <3>1. PICK x \in own : answer.items[n] = Item(x)
      <4>1. PICK P \in SUBSET own : Items(answer) = ItemsOf(P)
        <5> HIDE DEF own, T, limit, Got, Shows, rows, last
        <5> QED BY <1>9, <1>15, <2>1
      <4>2. answer.items[n] \in Items(answer)
        BY DEF Items
      <4>3. QED
        <5> HIDE DEF own
        <5> QED BY <4>1, <4>2 DEF ItemsOf
    <3>2. x \in rows /\ x.tenant = "t" /\ x \in FileRow
      <4> HIDE DEF own, rows
      <4> QED BY <1>1, <1>2, <3>1
    <3> DEFINE r == [file |-> x.id, status |-> x.status, attempts |-> x.attempts, result |-> x.result,
                     invoice |-> x.invoice]
    <3>3. r \in GetExtractionStatus(rows, "t", x.id)
      <4>1. x \in FileOf(rows, "t", x.id)
        <5> HIDE DEF rows
        <5> QED BY <3>2 DEF FileOf
      <4>2. QED
        <5> HIDE DEF rows
        <5> QED BY <4>1 DEF GetExtractionStatus
    <3>4. FromModel(x).total_amount
            = IF x.status = "completed" /\ x.result # << >> THEN CoerceDecimal(x.result.total_amount)
              ELSE Nothing
      BY DEF FromModel
    <3>5. FromModel(x).total_amount # Nothing <=>
             r.status = "completed" /\ r.result # << >> /\ r.result.total_amount \in {"number", "NaN"}
      BY <3>4 DEF CoerceDecimal, Nothing
    <3>6. answer.items[n].id = x.id /\ answer.items[n].shown = FromModel(x)
      BY <1>7, <3>1
    <3>7. QED
      <4> HIDE DEF r, rows
      <4> QED BY <3>3, <3>5, <3>6
  <2>4. QED
    BY <2>2, <2>3
<1>16. /\ \A r \in rows : Served(r.id) <=> \E p \in 0..last : \E answer \in Got(p) : Shows(answer, r)
       /\ \A r \in own, p, q \in 0..last : \A answer \in Got(q) :
             Holds(p, r) => (Shows(answer, r) <=> p = q)
       /\ \A p, q \in 0..last : \A one \in Got(p), two \in Got(q), a, b \in own :
             p < q /\ Shows(one, a) /\ Shows(two, b) => a.created >= b.created
       /\ \A p \in 0..last : \A answer \in Got(p) :
             /\ answer.total = last
             /\ \A n \in DOMAIN answer.items :
                   \E r \in GetExtractionStatus(rows, "t", answer.items[n].id) :
                       answer.items[n].shown.total_amount # Nothing <=>
                           /\ r.status = "completed" /\ r.result # << >>
                           /\ r.result.total_amount \in {"number", "NaN"}
  <2> HIDE DEF rows, own, storage, Got, Shows, Served, last, Holds
  <2> QED BY <1>12, <1>13, <1>14, <1>15
<1>17. QED
  BY <1>16 DEF ListedAreServed

-----------------------------------------------------------------------------
(* Sums over the parts of a finite set.                                    *)

Some(T) == CHOOSE x \in T : TRUE

\* g has the sum of the weights w over each part of S, as a fold gives it.
Summing(g, S, w) ==
    /\ IsFiniteSet(S) /\ w \in [S -> Int] /\ g \in [SUBSET S -> Int]
    /\ \A T \in SUBSET S : g[T] = IF T = {} THEN 0 ELSE g[T \ {Some(T)}] + w[Some(T)]

\* There are sums: level by level, a part's from that of the part without one element.
LEMMA SumsExist ==
    ASSUME NEW S, IsFiniteSet(S), NEW w \in [S -> Int]
    PROVE  \E g : Summing(g, S, w)
<1> DEFINE Parts(n) == {T \in SUBSET S : Cardinality(T) <= n}
           Sum(g, T) == g[T] = IF T = {} THEN 0 ELSE g[T \ {Some(T)}] + w[Some(T)]
           Reach == {n \in Nat : \E g \in [Parts(n) -> Int] : \A T \in Parts(n) : Sum(g, T)}
<1>0. \A T \in SUBSET S : IsFiniteSet(T) /\ Cardinality(T) \in Nat
  BY FS_Subset, FS_CardinalityType
<1>1. ASSUME NEW T \in SUBSET S, T # {}
      PROVE  /\ Some(T) \in S /\ w[Some(T)] \in Int /\ T \ {Some(T)} \in SUBSET S
             /\ Cardinality(T \ {Some(T)}) = Cardinality(T) - 1
  <2>1. Some(T) \in T
    BY <1>1 DEF Some
  <2>2. Cardinality(T \ {Some(T)}) = Cardinality(T) - 1
    BY <1>0, <2>1, FS_RemoveElement
  <2>3. QED
    BY <2>1, <2>2
<1>2. 0 \in Reach
  <2> DEFINE g == [T \in Parts(0) |-> 0]
  <2>1. \A T \in Parts(0) : T = {}
    <3>1. TAKE T \in Parts(0)
    <3>2. IsFiniteSet(T) /\ Cardinality(T) = 0
      BY <1>0
    <3>3. QED
      BY <3>2, FS_EmptySet
  <2>2. g \in [Parts(0) -> Int] /\ \A T \in Parts(0) : Sum(g, T)
    BY <2>1
  <2>3. QED
    BY <2>2
<1>3. ASSUME NEW n \in Nat, n \in Reach PROVE n + 1 \in Reach
  <2>1. PICK f \in [Parts(n) -> Int] : \A T \in Parts(n) : Sum(f, T)
    BY <1>3
  <2> DEFINE g == [T \in Parts(n + 1) |->
                     IF Cardinality(T) <= n THEN f[T] ELSE f[T \ {Some(T)}] + w[Some(T)]]
  <2>2. ASSUME NEW T \in Parts(n + 1) PROVE g[T] \in Int /\ Sum(g, T)
    <3>1. CASE Cardinality(T) <= n
      <4>1. T \in Parts(n) /\ g[T] = f[T] /\ f[T] \in Int /\ Sum(f, T)
        BY <2>1, <3>1
      <4>2. ASSUME T # {} PROVE g[T \ {Some(T)}] = f[T \ {Some(T)}]
        <5>1. T \ {Some(T)} \in Parts(n + 1) /\ Cardinality(T \ {Some(T)}) <= n
          BY <1>0, <1>1, <3>1, <4>2
        <5>2. QED
          BY <5>1
      <4> HIDE DEF g
      <4>3. QED
        BY <4>1, <4>2
    <3>2. CASE ~(Cardinality(T) <= n)
      <4>1. T # {}
        <5>1. Cardinality({}) = 0 /\ 0 <= n
          BY FS_EmptySet
        <5>2. QED
          BY <3>2, <5>1
      <4>2. T \ {Some(T)} \in Parts(n + 1) /\ Cardinality(T \ {Some(T)}) <= n
        BY <1>0, <1>1, <3>2, <4>1
      <4>3. g[T \ {Some(T)}] = f[T \ {Some(T)}] /\ f[T \ {Some(T)}] \in Int
        BY <2>1, <4>2
      <4>4. g[T] = f[T \ {Some(T)}] + w[Some(T)]
        BY <3>2
      <4> HIDE DEF g
      <4>5. QED
        BY <1>1, <4>1, <4>3, <4>4
    <3>3. QED
      BY <3>1, <3>2
  <2>3. g \in [Parts(n + 1) -> Int]
    BY <2>2
  <2>4. QED
    <3>1. n + 1 \in Nat
      OBVIOUS
    <3> HIDE DEF g, Parts
    <3>2. QED
      BY <2>2, <2>3, <3>1
<1>4. Nat \subseteq Reach
  <2> HIDE DEF Reach
  <2> QED BY <1>2, <1>3, SetInduction
<1>5. PICK g \in [Parts(Cardinality(S)) -> Int] : \A T \in Parts(Cardinality(S)) : Sum(g, T)
  BY <1>0, <1>4
<1>6. Parts(Cardinality(S)) = SUBSET S
  <2>1. \A T \in SUBSET S : Cardinality(T) <= Cardinality(S)
    BY FS_Subset
  <2>2. QED
    BY <2>1
<1>7. Summing(g, S, w)
  BY <1>5, <1>6 DEF Summing
<1>8. QED
  BY <1>7

\* Sums of the same weights are the same, whichever sets they are of.
LEMMA SumsAgree ==
    ASSUME NEW S, NEW g, NEW v, Summing(g, S, v), NEW R, NEW h, NEW w, Summing(h, R, w),
           NEW A, A \subseteq S, A \subseteq R, \A x \in A : v[x] = w[x]
    PROVE  g[A] = h[A]
<1> DEFINE Good == {T \in SUBSET A : g[T] = h[T]}
<1>1. ASSUME NEW T \in SUBSET A, \A Q1 \in SUBSET T : Q1 # T => Q1 \in Good
      PROVE  T \in Good
  <2>1. T \in SUBSET S /\ T \in SUBSET R
    OBVIOUS
  <2>2. CASE T = {}
    BY <2>1, <2>2 DEF Summing
  <2>3. CASE T # {}
    <3>1. Some(T) \in T /\ v[Some(T)] = w[Some(T)]
      BY <2>3 DEF Some
    <3>2. g[T \ {Some(T)}] = h[T \ {Some(T)}]
      BY <1>1, <3>1
    <3>3. g[T] = g[T \ {Some(T)}] + v[Some(T)] /\ h[T] = h[T \ {Some(T)}] + w[Some(T)]
      BY <2>1, <2>3 DEF Summing
    <3>4. QED
      BY <3>1, <3>2, <3>3
  <2>4. QED
    BY <2>2, <2>3
<1>2. IsFiniteSet(A)
  BY FS_Subset DEF Summing
<1>3. SUBSET A \subseteq Good
  <2> HIDE DEF Good
  <2> QED BY <1>1, <1>2, PartInduction
<1>4. QED
  BY <1>3

\* The sum of a part is that of the rest and any of its elements.
LEMMA SumOfRest ==
    ASSUME NEW S, NEW g, NEW w, Summing(g, S, w)
    PROVE  \A T \in SUBSET S : \A x \in T : g[T] = g[T \ {x}] + w[x]
<1> DEFINE Good == {T \in SUBSET S : \A x \in T : g[T] = g[T \ {x}] + w[x]}
<1>1. ASSUME NEW T \in SUBSET S, \A R \in SUBSET T : R # T => R \in Good
      PROVE  T \in Good
  <2>1. SUFFICES ASSUME NEW x \in T PROVE g[T] = g[T \ {x}] + w[x]
    OBVIOUS
  <2> DEFINE y == Some(T)
  <2>2. y \in T /\ g[T] = g[T \ {y}] + w[y] /\ g[T \ {y}] \in Int
    <3>1. T # {} /\ T \ {y} \in SUBSET S
      OBVIOUS
    <3>2. QED
      BY <3>1 DEF Summing, Some
  <2>3. CASE y = x
    BY <2>2, <2>3
  <2>4. CASE y # x
    <3> HIDE DEF y
    <3>1. T \ {y} \in Good /\ T \ {x} \in Good
      BY <1>1, <2>2
    <3>2. g[T \ {y}] = g[(T \ {y}) \ {x}] + w[x]
      BY <2>2, <2>4, <3>1
    <3>3. g[T \ {x}] = g[(T \ {x}) \ {y}] + w[y]
      BY <2>2, <2>4, <3>1
    <3>4. (T \ {y}) \ {x} = (T \ {x}) \ {y}
      OBVIOUS
    <3>5. g[(T \ {x}) \ {y}] \in Int /\ w[x] \in Int /\ w[y] \in Int
      BY <2>2 DEF Summing
    <3>6. QED
      BY <2>2, <3>2, <3>3, <3>4, <3>5
  <2>5. QED
    BY <2>3, <2>4
<1>2. SUBSET S \subseteq Good
  <2>1. IsFiniteSet(S)
    BY DEF Summing
  <2> HIDE DEF Good
  <2>2. QED
    BY <1>1, <2>1, PartInduction
<1>3. QED
  BY <1>2

\* The sum of two parts that have nothing in common is that of both.
LEMMA SumOfBoth ==
    ASSUME NEW S, NEW g, NEW w, Summing(g, S, w), NEW A \in SUBSET S, NEW B \in SUBSET S, A \cap B = {}
    PROVE  g[A \cup B] = g[A] + g[B]
<1> DEFINE Good == {T \in SUBSET B : g[A \cup T] = g[A] + g[T]}
<1>0. g[A] \in Int /\ g[{}] = 0
  BY DEF Summing
<1>1. ASSUME NEW T \in SUBSET B, \A R \in SUBSET T : R # T => R \in Good
      PROVE  T \in Good
  <2>1. CASE T = {}
    <3>1. A \cup T = A
      BY <2>1
    <3>2. QED
      BY <1>0, <2>1, <3>1
  <2>2. CASE T # {}
    <3>1. PICK x \in T : TRUE
      BY <2>2
    <3>2. g[T] = g[T \ {x}] + w[x]
      BY <3>1, SumOfRest
    <3>3. g[A \cup T] = g[(A \cup T) \ {x}] + w[x]
      <4>1. A \cup T \in SUBSET S /\ x \in A \cup T
        BY <3>1
      <4>2. QED
        BY <4>1, SumOfRest
    <3>4. (A \cup T) \ {x} = A \cup (T \ {x})
      BY <3>1
    <3>5. g[A \cup (T \ {x})] = g[A] + g[T \ {x}]
      BY <1>1, <3>1
    <3>6. w[x] \in Int /\ g[T \ {x}] \in Int
      <4>1. T \ {x} \in SUBSET S /\ x \in S
        BY <3>1
      <4>2. QED
        BY <4>1 DEF Summing
    <3>7. g[A \cup T] = g[A] + g[T]
      <4>1. g[A \cup T] = g[A \cup (T \ {x})] + w[x]
        BY <3>3, <3>4
      <4> HIDE DEF Good
      <4>2. QED
        BY <1>0, <3>2, <3>5, <3>6, <4>1
    <3>8. QED
      BY <3>7
  <2>3. QED
    BY <2>1, <2>2
<1>2. SUBSET B \subseteq Good
  <2>1. IsFiniteSet(B)
    BY FS_Subset DEF Summing
  <2> HIDE DEF Good
  <2>2. QED
    BY <1>1, <2>1, PartInduction
<1>3. B \in Good
  BY <1>2
<1>4. QED
  BY <1>3

\* A sum of numbers that are not negative is at least as much as each of them.
LEMMA SumIsAtLeast ==
    ASSUME NEW S, NEW g, NEW w, Summing(g, S, w), \A x \in S : w[x] >= 0
    PROVE  \A T \in SUBSET S : g[T] >= 0 /\ \A x \in T : g[T] >= w[x]
<1> DEFINE Good == {T \in SUBSET S : g[T] >= 0}
<1>1. ASSUME NEW T \in SUBSET S, \A R \in SUBSET T : R # T => R \in Good
      PROVE  T \in Good
  <2>1. CASE T = {}
    BY <2>1 DEF Summing
  <2>2. CASE T # {}
    <3>1. PICK x \in T : TRUE
      BY <2>2
    <3>2. g[T] = g[T \ {x}] + w[x]
      BY <3>1, SumOfRest
    <3>5. g[T \ {x}] >= 0
      BY <1>1, <3>1
    <3>3. w[x] \in Int /\ g[T \ {x}] \in Int /\ w[x] >= 0
      BY <3>1 DEF Summing
    <3>4. QED
      BY <3>2, <3>3, <3>5
  <2>3. QED
    BY <2>1, <2>2
<1>2. SUBSET S \subseteq Good
  <2>1. IsFiniteSet(S)
    BY DEF Summing
  <2> HIDE DEF Good
  <2>2. QED
    BY <1>1, <2>1, PartInduction
<1>3. ASSUME NEW T \in SUBSET S, NEW x \in T PROVE g[T] >= w[x]
  <2>1. g[T] = g[T \ {x}] + w[x] /\ g[T \ {x}] >= 0
    BY <1>2, SumOfRest
  <2>2. w[x] \in Int /\ g[T \ {x}] \in Int
    BY DEF Summing
  <2>3. QED
    BY <2>1, <2>2
<1>4. QED
  BY <1>2, <1>3

\* A function that is folded as sums are has their values.
FoldsAs(f, S, w) ==
    f = [T \in SUBSET S |-> IF T = {} THEN 0 ELSE f[T \ {Some(T)}] + w[Some(T)]]

\* The sums over the parts of a part are a fold of it.
LEMMA SumIsFold ==
    ASSUME NEW S, NEW g, NEW w, Summing(g, S, w), NEW A \in SUBSET S
    PROVE  \E f : FoldsAs(f, A, w)
<1> DEFINE f == [T \in SUBSET A |-> g[T]]
<1>1. ASSUME NEW T \in SUBSET A
      PROVE  f[T] = IF T = {} THEN 0 ELSE f[T \ {Some(T)}] + w[Some(T)]
  <2>1. T \in SUBSET S /\ T \ {Some(T)} \in SUBSET A
    OBVIOUS
  <2>2. QED
    BY <2>1 DEF Summing
<1>2. f = [T \in SUBSET A |-> f[T]]
  OBVIOUS
<1>3. FoldsAs(f, A, w)
  <2> HIDE DEF f
  <2> QED BY <1>1, <1>2 DEF FoldsAs
<1>4. QED
  BY <1>3

\* ... and the only one.
LEMMA FoldIsSum ==
    ASSUME NEW S, NEW g, NEW w, Summing(g, S, w), NEW A \in SUBSET S, NEW f, FoldsAs(f, A, w)
    PROVE  f[A] = g[A]
<1> DEFINE Good == {T \in SUBSET A : f[T] = g[T]}
<1>1. \A T \in SUBSET A : f[T] = IF T = {} THEN 0 ELSE f[T \ {Some(T)}] + w[Some(T)]
  BY DEF FoldsAs
<1>2. ASSUME NEW T \in SUBSET A, \A R \in SUBSET T : R # T => R \in Good
      PROVE  T \in Good
  <2>1. T \in SUBSET S
    OBVIOUS
  <2>2. CASE T = {}
    BY <1>1, <2>1, <2>2 DEF Summing
  <2>3. CASE T # {}
    <3>1. Some(T) \in T
      BY <2>3 DEF Some
    <3>2. T \ {Some(T)} \in Good
      BY <1>2, <3>1
    <3>3. f[T] = f[T \ {Some(T)}] + w[Some(T)]
      BY <1>1, <2>3
    <3>4. g[T] = g[T \ {Some(T)}] + w[Some(T)]
      BY <2>1, <2>3 DEF Summing
    <3>5. QED
      BY <3>2, <3>3, <3>4
  <2>4. QED
    BY <2>2, <2>3
<1>3. IsFiniteSet(A)
  BY FS_Subset DEF Summing
<1>4. SUBSET A \subseteq Good
  <2> HIDE DEF Good
  <2> QED BY <1>2, <1>3, PartInduction
<1>5. QED
  BY <1>4

\* What the dashboard adds up is a sum of the totals.
LEMMA TotalIsSum ==
    ASSUME NEW S, NEW g, NEW w, Summing(g, S, w), \A i \in S : i.total = w[i]
    PROVE  \A A \in SUBSET S : Total(A) = g[A]
<1> SUFFICES ASSUME NEW A \in SUBSET S PROVE Total(A) = g[A]
  OBVIOUS
<1> DEFINE Fold(f) == f = [T \in SUBSET A |-> IF T = {} THEN 0
                             ELSE f[T \ {CHOOSE x \in T : TRUE}] + (CHOOSE x \in T : TRUE).total]
<1>1. \A f : Fold(f) <=> FoldsAs(f, A, w)
  <2>1. ASSUME NEW T \in SUBSET A, T # {}
        PROVE  (CHOOSE x \in T : TRUE) = Some(T) /\ (CHOOSE x \in T : TRUE).total = w[Some(T)]
    BY <2>1 DEF Some
  <2>2. ASSUME NEW f, NEW T \in SUBSET A
        PROVE  (IF T = {} THEN 0 ELSE f[T \ {CHOOSE x \in T : TRUE}] + (CHOOSE x \in T : TRUE).total)
               = (IF T = {} THEN 0 ELSE f[T \ {Some(T)}] + w[Some(T)])
    <3>1. CASE T = {}
      BY <3>1
    <3>2. CASE T # {}
      <4>1. (CHOOSE x \in T : TRUE) = Some(T)
        BY DEF Some
      <4>2. QED
        BY <2>1, <3>2, <4>1, Zenon
    <3>3. QED
      BY <3>1, <3>2
  <2>3. ASSUME NEW f
        PROVE  [T \in SUBSET A |-> IF T = {} THEN 0
                  ELSE f[T \ {CHOOSE x \in T : TRUE}] + (CHOOSE x \in T : TRUE).total]
               = [T \in SUBSET A |-> IF T = {} THEN 0 ELSE f[T \ {Some(T)}] + w[Some(T)]]
    BY <2>2, Zenon
  <2>4. QED
    BY <2>3 DEF FoldsAs
<1>2. Total(A) = (CHOOSE f : Fold(f))[A]
  BY DEF Total, FoldSet, MapThenFoldSet
<1>3. PICK f : Fold(f) /\ Total(A) = f[A]
  <2>1. \E f : Fold(f)
    <3> HIDE DEF Fold
    <3> QED BY <1>1, SumIsFold
  <2> HIDE DEF Fold
  <2>2. QED
    BY <1>2, <2>1
<1>4. FoldsAs(f, A, w)
  <2> HIDE DEF Fold
  <2> QED BY <1>1, <1>3
<1>5. \A h : FoldsAs(h, A, w) => h[A] = g[A]
  <2> HIDE DEF Fold
  <2> QED BY FoldIsSum
<1>6. QED
  BY <1>3, <1>4, <1>5

\* What the dashboard adds up for the taxes is a sum of the amounts.
LEMMA TaxesIsSum ==
    ASSUME NEW S, NEW g, NEW w, Summing(g, S, w), \A i \in S : i.tax[1] = w[i]
    PROVE  \A A \in SUBSET S : Taxes(A) = g[A]
<1> SUFFICES ASSUME NEW A \in SUBSET S PROVE Taxes(A) = g[A]
  OBVIOUS
<1> DEFINE Fold(f) == f = [T \in SUBSET A |-> IF T = {} THEN 0
                             ELSE f[T \ {CHOOSE x \in T : TRUE}] + (CHOOSE x \in T : TRUE).tax[1]]
<1>1. \A f : Fold(f) <=> FoldsAs(f, A, w)
  <2>1. ASSUME NEW T \in SUBSET A, T # {}
        PROVE  (CHOOSE x \in T : TRUE) = Some(T) /\ (CHOOSE x \in T : TRUE).tax[1] = w[Some(T)]
    BY <2>1 DEF Some
  <2>2. ASSUME NEW f, NEW T \in SUBSET A
        PROVE  (IF T = {} THEN 0 ELSE f[T \ {CHOOSE x \in T : TRUE}] + (CHOOSE x \in T : TRUE).tax[1])
               = (IF T = {} THEN 0 ELSE f[T \ {Some(T)}] + w[Some(T)])
    <3>1. CASE T = {}
      BY <3>1
    <3>2. CASE T # {}
      <4>1. (CHOOSE x \in T : TRUE) = Some(T)
        BY DEF Some
      <4>2. QED
        BY <2>1, <3>2, <4>1, Zenon
    <3>3. QED
      BY <3>1, <3>2
  <2>3. ASSUME NEW f
        PROVE  [T \in SUBSET A |-> IF T = {} THEN 0
                  ELSE f[T \ {CHOOSE x \in T : TRUE}] + (CHOOSE x \in T : TRUE).tax[1]]
               = [T \in SUBSET A |-> IF T = {} THEN 0 ELSE f[T \ {Some(T)}] + w[Some(T)]]
    BY <2>2, Zenon
  <2>4. QED
    BY <2>3 DEF FoldsAs
<1>2. Taxes(A) = (CHOOSE f : Fold(f))[A]
  BY DEF Taxes, FoldSet, MapThenFoldSet
<1>3. PICK f : Fold(f) /\ Taxes(A) = f[A]
  <2>1. \E f : Fold(f)
    <3> HIDE DEF Fold
    <3> QED BY <1>1, SumIsFold
  <2> HIDE DEF Fold
  <2>2. QED
    BY <1>2, <2>1
<1>4. FoldsAs(f, A, w)
  <2> HIDE DEF Fold
  <2> QED BY <1>1, <1>3
<1>5. \A h : FoldsAs(h, A, w) => h[A] = g[A]
  <2> HIDE DEF Fold
  <2> QED BY FoldIsSum
<1>6. QED
  BY <1>3, <1>4, <1>5

-----------------------------------------------------------------------------
(* Quarters and months.                                                    *)

\* Months before the first of the quarter.
Quarter(t) == ((t.m - 1) \div 3) * 3

\* The month of a day is one of three.
LEMMA QuarterOf ==
    ASSUME NEW m \in 1..12
    PROVE  ((m - 1) \div 3) * 3 \in {0, 3, 6, 9} /\ m - ((m - 1) \div 3) * 3 \in {1, 2, 3}
OBVIOUS

\* Quarters tile the year.
LEMMA QuarterTiles ==
    ASSUME NEW t \in Date
    PROVE  LET first  == QuarterStart(t)
               before == DayBefore(first)
           IN  /\ NotAfter(first, t) /\ NotAfter(t, QuarterEnd(t))
               /\ IsDay(first) /\ IsDay(QuarterEnd(t))
               /\ QuarterEnd(before) = before
<1> DEFINE q == Quarter(t)
           first == Day(t.y, q + 1, 1)
           last == Day(t.y, q + 3, MonthLength(t.y, q + 3))
<1>1. /\ t.y \in Nat \ {0} /\ t.m \in 1..12 /\ t.d \in 1..31 /\ t.d <= MonthLength(t.y, t.m)
      /\ t = [y |-> t.y, m |-> t.m, d |-> t.d]
  BY DEF Date, IsDay
<1>2. q \in {0, 3, 6, 9} /\ t.m - q \in {1, 2, 3}
  BY <1>1, QuarterOf DEF Quarter
<1>3. \A y, m : MonthLength(y, m) \in 28..31
  BY DEF MonthLength
<1>4. QuarterStart(t) = first /\ QuarterEnd(t) = last
  BY DEF QuarterStart, QuarterEnd, Quarter
<1> HIDE DEF q
<1>5. NotAfter(first, t) /\ IsDay(first)
  BY <1>1, <1>2, <1>3 DEF NotAfter, Before, IsDay, Day
<1>6. NotAfter(t, last) /\ IsDay(last)
  <2>1. IsDay(last)
    BY <1>2, <1>3 DEF IsDay, Day
  <2>2. last.y = t.y /\ last.m = q + 3 /\ last.d = MonthLength(t.y, q + 3)
    BY DEF Day
  <2> HIDE DEF last
  <2>3. t.m < q + 3 \/ t.m = q + 3
    BY <1>1, <1>2
  <2>4. CASE t.m < q + 3
    BY <2>1, <2>2, <2>4 DEF NotAfter, Before
  <2>5. CASE t.m = q + 3
    <3>1. t.d < last.d \/ t.d = last.d
      BY <1>1, <1>3, <2>2, <2>5
    <3>2. CASE t.d < last.d
      BY <2>1, <2>2, <2>5, <3>2 DEF NotAfter, Before
    <3>3. CASE t.d = last.d
      <4>1. t = last
        BY <1>1, <2>2, <2>5, <3>3 DEF Day, last
      <4>2. QED
        BY <2>1, <4>1 DEF NotAfter
    <3>4. QED
      BY <3>1, <3>2, <3>3
  <2>6. QED
    BY <2>1, <2>3, <2>4, <2>5
<1>7. QuarterEnd(DayBefore(first)) = DayBefore(first)
  <2>1. CASE q = 0
    <3>1. DayBefore(first) = Day(t.y - 1, 12, 31)
      BY <2>1 DEF DayBefore, Day
    <3>2. MonthLength(t.y - 1, 12) = 31
      BY DEF MonthLength
    <3>3. QED
      BY <3>1, <3>2 DEF QuarterEnd, Day
  <2>2. CASE q # 0
    <3>1. DayBefore(first) = Day(t.y, q, MonthLength(t.y, q))
      BY <1>2, <2>2 DEF DayBefore, Day
    <3>2. ((q - 1) \div 3) * 3 + 3 = q
      BY <1>2, <2>2
    <3>3. QED
      BY <3>1, <3>2 DEF QuarterEnd, Day
  <2>3. QED
    BY <2>1, <2>2
<1>8. QED
  BY <1>4, <1>5, <1>6, <1>7

-----------------------------------------------------------------------------
(* Alerts and the leading.                                                 *)

\* Products of numbers that are not negative grow with both.
LEMMA ProductsGrow ==
    ASSUME NEW a \in Nat, NEW b \in Nat, NEW c \in Nat, NEW d \in Nat, a <= b, c <= d
    PROVE  a * c <= d * b
<1>1. b * c - a * c = (b - a) * c /\ b * d - b * c = b * (d - c)
  OBVIOUS
<1>2. (b - a) * c >= 0 /\ b * (d - c) >= 0
  OBVIOUS
<1>3. a * c \in Int /\ b * c \in Int /\ b * d \in Int /\ d * b = b * d
  OBVIOUS
<1>4. QED
  BY <1>1, <1>2, <1>3

\* A recent invoice is unusual only among more than Factor recent ones.
LEMMA UnusualHasHistory ==
    ASSUME NEW S, IsFiniteSet(S), S \subseteq Charge, NEW today, Factor \in Nat,
           \A i \in S : i.total >= 0
    PROVE  \A i \in Unusual(S, today) \cap Recent(S, today) : Cardinality(Recent(S, today)) > Factor
<1> DEFINE R == Recent(S, today)
           w == [i \in S |-> i.total]
<1>1. R \in SUBSET S
  BY DEF Recent
<1>2. w \in [S -> Int] /\ (\A i \in S : i.total = w[i]) /\ \A i \in S : w[i] >= 0
  BY DEF Charge
<1>3. PICK g : Summing(g, S, w)
  <2> HIDE DEF w
  <2> QED BY <1>2, SumsExist
<1>4. Total(R) = g[R] /\ g[R] \in Int
  <2> HIDE DEF R, w
  <2>1. Total(R) = g[R]
    BY <1>1, <1>2, <1>3, TotalIsSum
  <2>2. QED
    BY <1>1, <1>3, <2>1 DEF Summing
<1>5. ASSUME NEW i \in Unusual(S, today), i \in R, ~(Cardinality(R) > Factor)
      PROVE  FALSE
  <2>1. i.total * Cardinality(R) > Factor * g[R]
    BY <1>4, <1>5 DEF Unusual
  <2>2. i \in S /\ g[R] >= w[i] /\ w[i] = i.total
    <3>1. i \in S /\ w[i] = i.total
      BY <1>1, <1>5
    <3> HIDE DEF R, w
    <3>2. g[R] >= w[i]
      BY <1>1, <1>2, <1>3, <1>5, SumIsAtLeast
    <3>3. QED
      BY <3>1, <3>2
  <2>3. Cardinality(R) \in Nat /\ Cardinality(R) <= Factor
    <3>1. Cardinality(R) \in Nat
      BY <1>1, FS_Subset, FS_CardinalityType
    <3>2. QED
      BY <1>5, <3>1
  <2> DEFINE n == Cardinality(R)
             a == i.total
             s == g[R]
  <2>4. n \in Nat /\ n <= Factor /\ a \in Nat /\ s \in Nat /\ a <= s /\ a * n > Factor * s
    BY <1>2, <1>4, <2>1, <2>2, <2>3
  <2>5. a * n <= Factor * s
    <3> HIDE DEF n, a, s
    <3> QED BY <2>4, ProductsGrow
  <2> HIDE DEF n, a, s
  <2>6. QED
    BY <2>4, <2>5
<1>6. QED
  BY <1>5

\* The alerts of the dashboard.
Warning == [type : {"unusual_amount", "first_time_high_value_vendor", "potential_duplicate"}, id : Nat]

\* Where no two rows have the same key, a row's place is the number of rows with
\* a key as large.
LEMMA PlaceIsCount ==
    ASSUME NEW R, NEW key, Keyed(R, key), \A q, r \in R : key[q] = key[r] => q = r,
           NEW s, Ordered(R, key, s), NEW n \in 1..Cardinality(R)
    PROVE  Cardinality(AtLeast(R, key, s[n])) = n /\ Cardinality(Above(R, key, s[n])) = n - 1
<1> DEFINE A == Above(R, key, s[n])
           B == AtLeast(R, key, s[n])
<1>1. /\ Cardinality(A) \in Nat /\ Cardinality(B) \in Nat
      /\ Cardinality(A) < n /\ n <= Cardinality(B)
  BY PlacesAre
<1>2. s[n] \in R /\ \A r \in R : key[r] \in Int
  BY DEF Ordered, Keyed
<1>3. B = A \cup {s[n]} /\ s[n] \notin A
  BY <1>2 DEF Above, AtLeast
<1>4. A \in SUBSET R /\ IsFiniteSet(R)
  BY DEF Above, Keyed
<1> HIDE DEF A, B
<1>5. IsFiniteSet(A)
  BY <1>4, FS_Subset
<1>6. Cardinality(B) = Cardinality(A) + 1
  BY <1>3, <1>5, FS_AddElement
<1>7. n \in Int
  BY <1>1
<1>8. Cardinality(B) = n /\ Cardinality(A) = n - 1
  BY <1>1, <1>6, <1>7
<1>9. QED
  BY <1>8 DEF A, B

\* What is left of the alerts is no more than fits, and all if all fit.
LEMMA CappedAlerts ==
    ASSUME NEW A, IsFiniteSet(A), A \subseteq Warning, MaxAlerts \in Nat
    PROVE  /\ Capped(A) \subseteq A /\ Cardinality(Capped(A)) <= MaxAlerts
           /\ Cardinality(A) <= MaxAlerts => Capped(A) = A
<1> DEFINE key == [a \in A |-> -Rank(a)]
           C == Capped(A)
           Size == Cardinality(A)
<1>1. \A a \in A : Rank(a) \in Int
  BY DEF Warning, Rank
<1>2. \A a, b \in A : Rank(a) = Rank(b) => a = b
  <2> DEFINE kind(a) == IF a.type = "unusual_amount" THEN 0
                        ELSE IF a.type = "first_time_high_value_vendor" THEN 1 ELSE 2
  <2>0. \A a \in A : /\ Rank(a) = 3 * a.id + kind(a) /\ a.id \in Nat /\ kind(a) \in 0..2
                     /\ a.type \in {"unusual_amount", "first_time_high_value_vendor", "potential_duplicate"}
    BY DEF Warning, Rank
  <2>1. ASSUME NEW a \in A, NEW b \in A, Rank(a) = Rank(b) PROVE a.id = b.id /\ a.type = b.type
    <3>1. 3 * a.id + kind(a) = 3 * b.id + kind(b)
      BY <2>0, <2>1
    <3>2. kind(a) = kind(b) /\ a.id = b.id
      <4> DEFINE i == kind(a)
                 j == kind(b)
                 x == a.id
                 y == b.id
      <4>1. i \in 0..2 /\ j \in 0..2 /\ x \in Nat /\ y \in Nat /\ 3 * x + i = 3 * y + j
        BY <2>0, <3>1
      <4>2. i = j /\ x = y
        <5> HIDE DEF i, j, x, y
        <5> QED BY <4>1
      <4>3. QED
        BY <4>2
    <3>3. QED
      BY <2>0, <3>2
  <2>2. \A a \in A : a = [type |-> a.type, id |-> a.id]
    BY DEF Warning
  <2>3. QED
    BY <2>1, <2>2
<1>3. Keyed(A, key) /\ \A a, b \in A : key[a] = key[b] => a = b
  BY <1>1, <1>2 DEF Keyed
<1>4. PICK s : Ordered(A, key, s)
  <2> HIDE DEF key
  <2> QED BY <1>3, OrderedExists
<1>5. \A a \in A : Above(A, key, a) = {b \in A : Rank(b) < Rank(a)}
  BY <1>1 DEF Above
<1>6. Size \in Nat /\ \A n \in 1..Size : s[n] \in A
  BY FS_CardinalityType, <1>4 DEF Ordered
<1>7. ASSUME NEW n \in 1..Size PROVE s[n] \in C <=> n <= MaxAlerts
  <2>1. Cardinality(Above(A, key, s[n])) = n - 1
    <3> HIDE DEF key
    <3> QED BY <1>3, <1>4, PlaceIsCount
  <2>2. s[n] \in C <=> Cardinality(Above(A, key, s[n])) < MaxAlerts
    BY <1>5, <1>6 DEF Capped
  <2> HIDE DEF C, key, Size
  <2>3. QED
    BY <1>6, <2>1, <2>2
<1>8. \A a \in A : \E n \in 1..Size : s[n] = a
  <2> HIDE DEF key
  <2> QED BY <1>3, <1>4, ListHasAll
<1>9. C \subseteq A
  BY DEF Capped
<1>10. Cardinality(C) <= MaxAlerts
  <2>1. PICK k \in 0..Size : k <= MaxAlerts /\ \A n \in 1..Size : n <= MaxAlerts => n \in 1..k
    <3> HIDE DEF Size
    <3>1. CASE Size <= MaxAlerts
      <4>1. Size \in 0..Size /\ \A n \in 1..Size : n \in 1..Size
        BY <1>6
      <4>2. QED
        BY <3>1, <4>1
    <3>2. CASE ~(Size <= MaxAlerts)
      <4>1. MaxAlerts \in 0..Size /\ \A n \in 1..Size : n <= MaxAlerts => n \in 1..MaxAlerts
        BY <1>6, <3>2
      <4>2. MaxAlerts <= MaxAlerts
        OBVIOUS
      <4>3. QED
        BY <4>1, <4>2
    <3>3. QED
      BY <3>1, <3>2
  <2> DEFINE F == {s[m] : m \in 1..k}
  <2>2. IsFiniteSet(F) /\ Cardinality(F) = k
    <3> HIDE DEF key
    <3> QED BY <1>3, <1>4, FirstRows
  <2>3. C \in SUBSET F
    <3>1. ASSUME NEW a \in C PROVE a \in F
      <4>1. PICK n \in 1..Size : s[n] = a
        BY <1>8, <1>9
      <4>2. n \in 1..k
        <5> HIDE DEF C, Size
        <5> QED BY <1>7, <2>1, <3>1, <4>1
      <4>3. QED
        BY <4>1, <4>2
    <3>2. QED
      BY <3>1
  <2> HIDE DEF C, F
  <2>4. Cardinality(C) <= k /\ IsFiniteSet(C)
    BY <2>2, <2>3, FS_Subset
  <2>5. Cardinality(C) \in Nat /\ k \in Nat
    BY <1>6, <2>1, <2>4, FS_CardinalityType
  <2>6. QED
    BY <2>1, <2>4, <2>5
<1>11. ASSUME Size <= MaxAlerts PROVE C = A
  <2>1. ASSUME NEW a \in A PROVE a \in C
    <3>1. PICK n \in 1..Size : s[n] = a
      BY <1>8
    <3>2. n <= MaxAlerts
      <4> HIDE DEF Size
      <4> QED BY <1>6, <1>11, <3>1
    <3> HIDE DEF C, Size
    <3>3. QED
      BY <1>7, <3>1, <3>2
  <2>2. QED
    BY <1>9, <2>1
<1>12. QED
  BY <1>9, <1>10, <1>11

\* The least of two numbers, as the dashboard takes it.
LEMMA LesserCount ==
    ASSUME NEW a \in Nat, NEW b \in Nat
    PROVE  Min({a, b}) \in Nat /\ Min({a, b}) = IF a <= b THEN a ELSE b
<1>1. \E x \in {a, b} : \A y \in {a, b} : x <= y
  OBVIOUS
<1>2. Min({a, b}) \in {a, b} /\ \A y \in {a, b} : Min({a, b}) <= y
  BY <1>1 DEF Min
<1>3. QED
  BY <1>2

\* As many as there are, if there are no more than asked for, are all.
LEMMA AllLead ==
    ASSUME NEW S, IsFiniteSet(S), NEW n \in Nat, Cardinality(S) <= n,
           NEW T \in SUBSET S, Cardinality(T) = Min({n, Cardinality(S)})
    PROVE  T = S
<1>1. Cardinality(S) \in Nat
  BY FS_CardinalityType
<1>2. Cardinality(T) = Cardinality(S)
  <2>1. Min({n, Cardinality(S)}) = Cardinality(S)
    BY <1>1, LesserCount
  <2>2. QED
    BY <2>1
<1>3. QED
  BY <1>2, FS_Subset

\* The newest are some, and all if they are no more than asked for.
LEMMA NewestOf ==
    ASSUME NEW S, IsFiniteSet(S), NEW n \in Nat, NEW T \in Newest(S, n)
    PROVE  T \subseteq S /\ (Cardinality(S) <= n => T = S)
<1>1. T \in SUBSET S /\ Cardinality(T) = Min({n, Cardinality(S)})
  BY DEF Newest, Leading
<1>2. QED
  BY <1>1, AllLead

\* Some that lead the others.
Leads(S, key, n, T) ==
    /\ T \in SUBSET S /\ Cardinality(T) = Min({n, Cardinality(S)})
    /\ \A x \in T, y \in S \ T : key[x] >= key[y]

\* One is left out only if as many as fit lead it, and taken only if fewer do.
LEMMA LeadingIsRight ==
    ASSUME NEW S, NEW key, Keyed(S, key), NEW n \in Nat \ {0}, NEW T, Leads(S, key, n, T)
    PROVE  /\ \A x \in S \ T : Cardinality({y \in S \ {x} : key[y] >= key[x]}) >= n
           /\ \A x \in T : Cardinality({y \in S : key[y] > key[x]}) < n
<1>1. /\ IsFiniteSet(S) /\ Cardinality(S) \in Nat /\ T \in SUBSET S
      /\ \A x \in S : key[x] \in Int
      /\ \A x \in T, y \in S \ T : key[x] >= key[y]
  BY FS_CardinalityType DEF Keyed, Leads
<1>2. IsFiniteSet(T) /\ Cardinality(T) \in Nat /\ Cardinality(T) = IF n <= Cardinality(S) THEN n ELSE Cardinality(S)
  <2>1. Cardinality(T) = Min({n, Cardinality(S)})
    BY DEF Leads
  <2>2. Min({n, Cardinality(S)}) = IF n <= Cardinality(S) THEN n ELSE Cardinality(S)
    BY <1>1, LesserCount
  <2>3. QED
    BY <1>1, <2>1, <2>2, FS_Subset, FS_CardinalityType
<1>3. ASSUME NEW x \in S \ T PROVE Cardinality({y \in S \ {x} : key[y] >= key[x]}) >= n
  <2> DEFINE Y == {y \in S \ {x} : key[y] >= key[x]}
  <2>1. T \in SUBSET Y /\ Y \in SUBSET S
    BY <1>1
  <2>2. T # S
    OBVIOUS
  <2> HIDE DEF Y
  <2>3. IsFiniteSet(Y) /\ Cardinality(Y) \in Nat /\ Cardinality(T) <= Cardinality(Y)
    BY <1>1, <2>1, FS_Subset, FS_CardinalityType
  <2>4. Cardinality(T) # Cardinality(S)
    BY <1>1, <2>2, FS_Subset
  <2>5. Cardinality(T) = n
    BY <1>2, <2>4
  <2>6. Cardinality(Y) >= n
    BY <2>3, <2>5
  <2>7. QED
    BY <2>6 DEF Y
<1>4. ASSUME NEW x \in T PROVE Cardinality({y \in S : key[y] > key[x]}) < n
  <2> DEFINE Y == {y \in S : key[y] > key[x]}
             U == T \ {x}
  <2>1. Y \in SUBSET U
    BY <1>1
  <2>2. IsFiniteSet(U) /\ Cardinality(U) = Cardinality(T) - 1
    <3>1. IsFiniteSet(T \ {x}) /\ Cardinality(T \ {x}) = Cardinality(T) - 1
      BY <1>2, FS_RemoveElement
    <3>2. QED
      BY <3>1
  <2> HIDE DEF Y, U
  <2>3. IsFiniteSet(Y) /\ Cardinality(Y) <= Cardinality(U)
    BY <2>1, <2>2, FS_Subset
  <2>4. Cardinality(Y) \in Nat
    BY <2>3, FS_CardinalityType
  <2>5. Cardinality(Y) < n
    BY <1>1, <1>2, <2>2, <2>3, <2>4
  <2>6. QED
    BY <2>5 DEF Y
<1>5. QED
  BY <1>3, <1>4

\* The values of a function on a finite set are finitely many.
LEMMA ValuesAreFinitelyMany ==
    ASSUME NEW f, IsFiniteSet(DOMAIN f)
    PROVE  IsFiniteSet({f[x] : x \in DOMAIN f})
<1> DEFINE D == DOMAIN f
           V == {f[x] : x \in D}
           g == [x \in D |-> f[x]]
<1>1. g \in Surjection(D, V)
  BY DEF Surjection
<1>2. QED
  <2>1. IsFiniteSet(V)
    <3> HIDE DEF g, V, D
    <3>1. IsFiniteSet(D)
      BY DEF D
    <3>2. QED
      BY <1>1, <3>1, FS_Surjection
  <2>2. QED
    BY <2>1

\* The vendors of some invoices are finitely many, with turnovers that are numbers.
LEMMA Turnovers ==
    ASSUME NEW S, IsFiniteSet(S), S \subseteq Charge
    PROVE  /\ IsFiniteSet(Vendors(S))
           /\ \A v : Total(Of(S, v)) \in Int
<1> DEFINE w == [i \in S |-> i.total]
           V == {i.vendor : i \in S}
<1>1. IsFiniteSet(V)
  <2> DEFINE f == [i \in S |-> i.vendor]
  <2>1. DOMAIN f = S /\ V = {f[x] : x \in DOMAIN f}
    OBVIOUS
  <2> HIDE DEF f, V
  <2>2. QED
    BY <2>1, ValuesAreFinitelyMany
<1>2. IsFiniteSet(Vendors(S))
  <2>1. Vendors(S) \in SUBSET V
    BY DEF Vendors
  <2> HIDE DEF V
  <2>2. QED
    BY <1>1, <2>1, FS_Subset
<1>3. w \in [S -> Int] /\ \A i \in S : i.total = w[i]
  BY DEF Charge
<1>4. PICK g : Summing(g, S, w)
  <2> HIDE DEF w
  <2> QED BY <1>3, SumsExist
<1>5. ASSUME NEW v PROVE Total(Of(S, v)) \in Int
  <2>1. Of(S, v) \in SUBSET S
    BY DEF Of
  <2> HIDE DEF w
  <2>2. Total(Of(S, v)) = g[Of(S, v)]
    BY <1>3, <1>4, <2>1, TotalIsSum
  <2>3. QED
    BY <1>4, <2>1, <2>2 DEF Summing
<1>6. QED
  BY <1>2, <1>5

\* The row of a vendor among the top ones.
VendorRow(S, v) == [vendor |-> v, count |-> Cardinality(Of(S, v)), total |-> Total(Of(S, v))]

\* The top vendors lead the others by their turnover, with it.
LEMMA TopsLead ==
    ASSUME NEW S, IsFiniteSet(S), S \subseteq Charge, NEW n \in Nat \ {0}, NEW top \in TopVendors(S, n),
           NEW V, V = Vendors(S), NEW key, key = [v \in V |-> Total(Of(S, v))]
    PROVE  /\ Keyed(V, key) /\ Leads(V, key, n, {r.vendor : r \in top})
           /\ Cardinality(top) = Min({n, Cardinality(V)})
           /\ \A r \in top : r.vendor \in V /\ r.total = Total(Of(S, r.vendor))
<1> DEFINE f == [v \in V |-> VendorRow(S, v)]
           g == [r \in top |-> r.vendor]
           Rows == {f[v] : v \in V}
           shown == {r.vendor : r \in top}
<1>0. IsFiniteSet(V) /\ \A v : Total(Of(S, v)) \in Int
  BY Turnovers
<1>1. Keyed(V, key)
  BY <1>0 DEF Keyed
<1>2. \A v \in V : f[v].vendor = v /\ f[v].total = key[v]
  BY DEF VendorRow
<1>3. /\ top \in SUBSET Rows /\ Cardinality(top) = Min({n, Cardinality(Rows)})
      /\ \A x \in top, y \in Rows \ top : x.total >= y.total
  BY DEF TopVendors, Leading, VendorRow
<1>4. \A r \in Rows : r.vendor \in V /\ r = f[r.vendor] /\ r.total = key[r.vendor]
  <2>1. ASSUME NEW v \in V PROVE f[v].vendor \in V /\ f[v] = f[f[v].vendor] /\ f[v].total = key[f[v].vendor]
    <3> HIDE DEF f
    <3> QED BY <1>2
  <2> HIDE DEF f
  <2>2. QED
    BY <2>1
<1>5. IsFiniteSet(Rows) /\ Cardinality(Rows) = Cardinality(V)
  <2>1. f \in [V -> Rows]
    OBVIOUS
  <2>2. \A u, v \in V : f[u] = f[v] => u = v
    <3> HIDE DEF f
    <3> QED BY <1>2
  <2>3. \A r \in Rows : \E v \in V : f[v] = r
    OBVIOUS
  <2> HIDE DEF f, Rows
  <2>4. f \in Bijection(V, Rows)
    BY <2>1, <2>2, <2>3 DEF Bijection, Injection, Surjection, IsInjective
  <2>5. QED
    BY <1>0, <2>4, FS_Bijection DEF ExistsBijection
<1>6. Cardinality(shown) = Cardinality(top)
  <2>1. IsFiniteSet(top)
    BY <1>3, <1>5, FS_Subset
  <2>2. g \in [top -> shown]
    OBVIOUS
  <2>3. \A q, r \in top : g[q] = g[r] => q = r
    <3> HIDE DEF f, Rows
    <3> QED BY <1>3, <1>4
  <2>4. \A v \in shown : \E r \in top : g[r] = v
    OBVIOUS
  <2> HIDE DEF g, shown
  <2>5. g \in Bijection(top, shown)
    BY <2>2, <2>3, <2>4 DEF Bijection, Injection, Surjection, IsInjective
  <2>6. QED
    BY <2>1, <2>5, FS_Bijection DEF ExistsBijection
<1>7. shown \in SUBSET V
  <2> HIDE DEF f, Rows
  <2> QED BY <1>3, <1>4
<1>8. ASSUME NEW x \in shown, NEW y \in V \ shown PROVE key[x] >= key[y]
  <2>1. PICK r \in top : r.vendor = x
    OBVIOUS
  <2>2. f[y] \in Rows /\ f[y] \notin top
    <3>1. f[y].vendor = y
      BY <1>2
    <3> HIDE DEF f
    <3>2. QED
      BY <1>8, <3>1
  <2> HIDE DEF f, Rows
  <2>3. r.total >= f[y].total
    BY <1>3, <2>1, <2>2
  <2>4. r.total = key[x] /\ f[y].total = key[y]
    BY <1>2, <1>3, <1>4, <2>1
  <2>5. QED
    BY <2>3, <2>4
<1>9. Leads(V, key, n, shown)
  <2> HIDE DEF f, Rows, shown
  <2>1. Cardinality(shown) = Min({n, Cardinality(V)})
    BY <1>3, <1>5, <1>6
  <2>2. QED
    BY <1>7, <1>8, <2>1 DEF Leads
<1>10. \A r \in top : r.vendor \in V /\ r.total = Total(Of(S, r.vendor))
  <2> HIDE DEF f, Rows
  <2> QED BY <1>3, <1>4
<1>11. QED
  BY <1>1, <1>3, <1>5, <1>9, <1>10

\* However ties are broken, the top vendors are those with most turnover.
LEMMA TopsAreMost ==
    ASSUME NEW S, IsFiniteSet(S), S \subseteq Charge, NEW n \in Nat \ {0}, NEW top \in TopVendors(S, n)
    PROVE  LET V == Vendors(S)
               shown == {r.vendor : r \in top}
           IN  /\ Cardinality(top) = Min({n, Cardinality(V)})
               /\ \A r \in top : r.total = Total(Of(S, r.vendor))
               /\ \A v \in V \ shown :
                      Cardinality({w \in V \ {v} : Total(Of(S, w)) >= Total(Of(S, v))}) >= n
               /\ \A v \in shown : Cardinality({w \in V : Total(Of(S, w)) > Total(Of(S, v))}) < n
<1> DEFINE V == Vendors(S)
           key == [v \in V |-> Total(Of(S, v))]
           shown == {r.vendor : r \in top}
<1>1. /\ Keyed(V, key) /\ Leads(V, key, n, shown)
      /\ Cardinality(top) = Min({n, Cardinality(V)})
      /\ \A r \in top : r.vendor \in V /\ r.total = Total(Of(S, r.vendor))
  <2>1. V = Vendors(S) /\ key = [v \in V |-> Total(Of(S, v))]
    OBVIOUS
  <2> HIDE DEF V, key
  <2>2. QED
    BY <2>1, TopsLead
<1>2. /\ \A v \in V \ shown : Cardinality({w \in V \ {v} : key[w] >= key[v]}) >= n
      /\ \A v \in shown : Cardinality({w \in V : key[w] > key[v]}) < n
  <2> HIDE DEF V, key, shown
  <2> QED BY <1>1, LeadingIsRight
<1>3. ASSUME NEW v \in V
      PROVE  /\ {w \in V \ {v} : key[w] >= key[v]} = {w \in V \ {v} : Total(Of(S, w)) >= Total(Of(S, v))}
             /\ {w \in V : key[w] > key[v]} = {w \in V : Total(Of(S, w)) > Total(Of(S, v))}
  <2>1. \A w \in V : key[w] = Total(Of(S, w))
    OBVIOUS
  <2> HIDE DEF V, key
  <2>2. QED
    BY <2>1
<1>4. shown \subseteq V
  BY <1>1
<1> HIDE DEF key
<1>5. /\ \A v \in V \ shown :
             Cardinality({w \in V \ {v} : Total(Of(S, w)) >= Total(Of(S, v))}) >= n
      /\ \A v \in shown : Cardinality({w \in V : Total(Of(S, w)) > Total(Of(S, v))}) < n
  <2> HIDE DEF V, shown
  <2> QED BY <1>2, <1>3, <1>4
<1>6. QED
  BY <1>1, <1>5

\* However ties are broken, the invoices of the activity were changed last.
LEMMA LastChangesLead ==
    ASSUME NEW S, IsFiniteSet(S), S \subseteq Charge, NEW n \in Nat \ {0}, NEW shown \in RecentActivity(S, n)
    PROVE  /\ \A i \in S \ shown : Cardinality({j \in S \ {i} : j.updated >= i.updated}) >= n
           /\ \A i \in shown : Cardinality({j \in S : j.updated > i.updated}) < n
<1> DEFINE key == [i \in S |-> i.updated]
<1>1. /\ shown \in SUBSET S /\ Cardinality(shown) = Min({n, Cardinality(S)})
      /\ \A x \in shown, y \in S \ shown : x.updated >= y.updated
  BY DEF RecentActivity, Leading
<1>2. Keyed(S, key)
  BY DEF Keyed, Charge
<1>3. \A i \in S : key[i] = i.updated
  OBVIOUS
<1> HIDE DEF key
<1>4. Leads(S, key, n, shown)
  BY <1>1, <1>3 DEF Leads
<1>5. /\ \A i \in S \ shown : Cardinality({j \in S \ {i} : key[j] >= key[i]}) >= n
      /\ \A i \in shown : Cardinality({j \in S : key[j] > key[i]}) < n
  BY <1>2, <1>4, LeadingIsRight
<1>6. ASSUME NEW i \in S
      PROVE  /\ {j \in S \ {i} : key[j] >= key[i]} = {j \in S \ {i} : j.updated >= i.updated}
             /\ {j \in S : key[j] > key[i]} = {j \in S : j.updated > i.updated}
  BY <1>3
<1>7. QED
  BY <1>1, <1>5, <1>6

\* The invoices with the same vendor and amount.
AlikeIn(S, j) == {i \in S : i.vendor = j.vendor /\ i.total = j.total}

\* The one that stands for a group has the least number in it.
LEMMA SampleIsLeast ==
    ASSUME NEW g, g \subseteq Charge, g # {}
    PROVE  Sample(g) \in g /\ \A j \in g : Sample(g).number <= j.number
<1> DEFINE T == {i.number : i \in g}
<1>1. T \subseteq Nat /\ T # {}
  BY DEF Charge
<1>2. PICK n \in T : \A m \in T : n <= m
  <2> HIDE DEF T
  <2> QED BY <1>1, Least
<1>3. \E i \in g : \A j \in g : i.number <= j.number
  BY <1>2
<1>4. QED
  BY <1>3 DEF Sample

\* The doubled invoices: the first of each group of more than one.
Doubled(S) == {i \in S : i.vendor # NoName /\ AlikeIn(S, i) # {i} /\ \A j \in AlikeIn(S, i) : i.number <= j.number}

\* A group is what is alike to any of its members, more than that one.
LEMMA GroupOf ==
    ASSUME NEW S, IsFiniteSet(S), S \subseteq Charge, NEW g \in Groups(S), NEW i \in g
    PROVE  /\ i \in S /\ g = AlikeIn(S, i) /\ i.vendor # NoName /\ g # {i} /\ g \subseteq Charge
<1>1. PICK j \in S : g = AlikeIn(S, j)
  BY DEF Groups, AlikeIn
<1>2. Cardinality(g) > 1 /\ \A k \in g : k.vendor # NoName
  BY DEF Groups
<1>3. i \in S /\ i.vendor = j.vendor /\ i.total = j.total
  BY <1>1 DEF AlikeIn
<1>4. g = AlikeIn(S, i) /\ g \subseteq S
  BY <1>1, <1>3 DEF AlikeIn
<1>5. g # {i}
  <2>1. Cardinality({i}) = 1
    <3>1. Cardinality({i}) = 1
      BY FS_Singleton
    <3>2. QED
      BY <3>1
  <2>2. SUFFICES ASSUME g = {i} PROVE FALSE
    OBVIOUS
  <2>3. QED
    BY <1>2, <2>1, <2>2
<1>6. QED
  BY <1>2, <1>3, <1>4, <1>5

\* What is alike to an invoice, and more than it, is a group.
LEMMA GroupIsThere ==
    ASSUME NEW S, IsFiniteSet(S), S \subseteq Charge, NEW i \in S, i.vendor # NoName, AlikeIn(S, i) # {i}
    PROVE  AlikeIn(S, i) \in Groups(S) /\ i \in AlikeIn(S, i)
<1> DEFINE g == AlikeIn(S, i)
<1>1. i \in g /\ g \in SUBSET S /\ \A k \in g : k.vendor # NoName
  BY DEF AlikeIn
<1>2. IsFiniteSet(g) /\ Cardinality(g) \in Nat /\ Cardinality(g) # 0
  BY <1>1, FS_Subset, FS_CardinalityType, FS_EmptySet
<1>3. Cardinality(g) # 1
  <2> HIDE DEF g
  <2>1. SUFFICES ASSUME Cardinality(g) = 1 PROVE g = {i}
    BY DEF g
  <2>2. PICK x : g = {x}
    BY <1>2, <2>1, FS_Singleton
  <2>3. QED
    BY <1>1, <2>2
<1>4. Cardinality(g) > 1
  <2> HIDE DEF g
  <2>1. Cardinality(g) = Cardinality(g)
    OBVIOUS
  <2>2. QED
    BY <1>2, <1>3, <2>1
<1>5. g \in {{k \in S : k.vendor = j.vendor /\ k.total = j.total} : j \in S}
  BY DEF AlikeIn
<1>6. QED
  <2> HIDE DEF g
  <2>1. g \in Groups(S)
    BY <1>1, <1>4, <1>5 DEF Groups
  <2>2. QED
    BY <1>1, <2>1 DEF g

\* The duplicates that are shown are doubled, and all if all groups are looked at.
LEMMA DuplicatesAreDoubled ==
    ASSUME NEW S, IsFiniteSet(S), S \subseteq Charge, NEW G \in SUBSET Groups(S)
    PROVE  Duplicates(S, G) \subseteq Doubled(S) /\ (G = Groups(S) => Duplicates(S, G) = Doubled(S))
<1>1. ASSUME NEW i \in Duplicates(S, G) PROVE i \in Doubled(S)
  <2>1. PICK g \in G : i.number = Sample(g).number /\ i \in g
    BY DEF Duplicates
  <2>2. g \in Groups(S) /\ g # {} /\ g \subseteq Charge /\ i \in S /\ g = AlikeIn(S, i) /\ i.vendor # NoName /\ g # {i}
    BY <2>1, GroupOf
  <2>3. \A j \in g : i.number <= j.number
    BY <2>1, <2>2, SampleIsLeast
  <2>4. QED
    BY <2>2, <2>3 DEF Doubled
<1>2. ASSUME G = Groups(S), NEW i \in Doubled(S) PROVE i \in Duplicates(S, G)
  <2> DEFINE g == AlikeIn(S, i)
  <2>1. i \in S /\ i.vendor # NoName /\ g # {i} /\ \A j \in g : i.number <= j.number
    BY DEF Doubled
  <2>2. g \in G /\ i \in g
    BY <1>2, <2>1, GroupIsThere
  <2>3. g \subseteq Charge
    BY DEF AlikeIn
  <2>4. i.number = Sample(g).number
    <3> HIDE DEF g
    <3>1. Sample(g) \in g /\ Sample(g).number <= i.number
      BY <2>2, <2>3, SampleIsLeast
    <3>2. i.number <= Sample(g).number
      BY <2>1, <3>1
    <3>3. i.number \in Nat /\ Sample(g).number \in Nat
      BY <2>2, <2>3, <3>1 DEF Charge
    <3>4. QED
      BY <3>1, <3>2, <3>3
  <2>5. QED
    BY <2>1, <2>2, <2>4 DEF Duplicates
<1>3. QED
  BY <1>1, <1>2

\* There are no more groups than doubled invoices.
LEMMA GroupsAreCounted ==
    ASSUME NEW S, IsFiniteSet(S), S \subseteq Charge
    PROVE  IsFiniteSet(Groups(S)) /\ Cardinality(Groups(S)) <= Cardinality(Doubled(S))
<1> DEFINE D == Doubled(S)
           G == Groups(S)
           f == [i \in D |-> AlikeIn(S, i)]
<1>1. IsFiniteSet(D)
  BY FS_Subset DEF Doubled
<1>2. \A i \in D : f[i] \in G
  BY GroupIsThere DEF Doubled
<1>3. ASSUME NEW g \in G PROVE \E i \in D : f[i] = g
  <2>1. g # {} /\ g \subseteq Charge
    <3>1. PICK j \in S : g = AlikeIn(S, j)
      BY DEF Groups, AlikeIn
    <3>2. QED
      BY <3>1 DEF AlikeIn
  <2>2. Sample(g) \in g /\ \A j \in g : Sample(g).number <= j.number
    BY <2>1, SampleIsLeast
  <2>3. /\ Sample(g) \in S /\ g = AlikeIn(S, Sample(g)) /\ Sample(g).vendor # NoName /\ g # {Sample(g)}
    BY <2>2, GroupOf
  <2>4. Sample(g) \in D
    BY <2>2, <2>3 DEF Doubled
  <2>5. QED
    BY <2>3, <2>4
<1>4. f \in Surjection(D, G)
  BY <1>2, <1>3 DEF Surjection
<1>5. QED
  <2> HIDE DEF f
  <2>1. IsFiniteSet(G) /\ Cardinality(G) <= Cardinality(D)
    <3> HIDE DEF D, G
    <3> QED BY <1>1, <1>4, FS_Surjection
  <2>2. QED
    BY <2>1

\* The invoices that are due for an alert, each for its reason.
Striking(S, today) ==
    {i \in S : Recent(S, today) # {}
               /\ i.total * Cardinality(Recent(S, today)) > Factor * Total(Recent(S, today))}
Alone(S) == {i \in S : i.vendor # NoName /\ i.total > HighValue
                       /\ \A j \in S : j.vendor = i.vendor => j = i}
AlertsFor(unusual, first, doubled) ==
    {Alert("unusual_amount", i) : i \in unusual}
    \cup {Alert("first_time_high_value_vendor", i) : i \in first}
    \cup {Alert("potential_duplicate", i) : i \in doubled}
Due(S, today) == AlertsFor(Striking(S, today), Alone(S), Doubled(S))

\* Alerts for finitely many invoices are finitely many.
LEMMA AlertsAreFinite ==
    ASSUME NEW S, IsFiniteSet(S), S \subseteq Charge,
           NEW u \in SUBSET S, NEW f \in SUBSET S, NEW d \in SUBSET S
    PROVE  IsFiniteSet(AlertsFor(u, f, d)) /\ AlertsFor(u, f, d) \subseteq Warning
<1>1. ASSUME NEW T \in SUBSET S, NEW type PROVE IsFiniteSet({Alert(type, i) : i \in T})
  <2> DEFINE g == [i \in T |-> Alert(type, i)]
  <2>1. IsFiniteSet(DOMAIN g)
    BY FS_Subset
  <2>2. {Alert(type, i) : i \in T} = {g[x] : x \in DOMAIN g}
    OBVIOUS
  <2> HIDE DEF g
  <2>3. QED
    BY <2>1, <2>2, ValuesAreFinitelyMany
<1>2. IsFiniteSet(AlertsFor(u, f, d))
  <2>1. /\ IsFiniteSet({Alert("unusual_amount", i) : i \in u})
        /\ IsFiniteSet({Alert("first_time_high_value_vendor", i) : i \in f})
        /\ IsFiniteSet({Alert("potential_duplicate", i) : i \in d})
    BY <1>1
  <2>2. QED
    BY <2>1, FS_Union DEF AlertsFor
<1>3. AlertsFor(u, f, d) \subseteq Warning
  <2>1. \A i \in S : i.id \in Nat
    BY DEF Charge
  <2>2. QED
    BY <2>1 DEF AlertsFor, Alert, Warning
<1>4. QED
  BY <1>2, <1>3

\* The only invoice of a vendor is alone.
LEMMA FirstIsAlone ==
    ASSUME NEW S, IsFiniteSet(S), NEW looked \in SUBSET High(S)
    PROVE  /\ FirstOfVendor(S, looked) \subseteq Alone(S)
           /\ looked = High(S) => FirstOfVendor(S, looked) = Alone(S)
<1>1. ASSUME NEW i \in S
      PROVE  Cardinality(Of(S, i.vendor)) = 1 <=> \A j \in S : j.vendor = i.vendor => j = i
  <2> DEFINE O == Of(S, i.vendor)
  <2>1. O \in SUBSET S /\ i \in O /\ \A j \in S : j \in O <=> j.vendor = i.vendor
    BY DEF Of
  <2>2. Cardinality(O) = Cardinality(O) /\ IsFiniteSet(O)
    BY <2>1, FS_Subset
  <2> HIDE DEF O
  <2>3. Cardinality(O) = 1 <=> O = {i}
    <3>1. ASSUME Cardinality(O) = 1 PROVE O = {i}
      <4>1. PICK x : O = {x}
        BY <2>2, <3>1, FS_Singleton
      <4>2. QED
        BY <2>1, <4>1
    <3>2. Cardinality({i}) = 1
      BY FS_Singleton
    <3>3. QED
      BY <2>2, <3>1, <3>2
  <2>4. O = {i} <=> \A j \in S : j.vendor = i.vendor => j = i
    BY <2>1
  <2>5. QED
    BY <2>3, <2>4 DEF O
<1>2. \A i \in looked : i \in S /\ i.vendor # NoName /\ i.total > HighValue
  BY DEF High
<1>3. FirstOfVendor(S, looked) \subseteq Alone(S)
  BY <1>1, <1>2 DEF FirstOfVendor, Alone
<1>4. ASSUME looked = High(S) PROVE Alone(S) \subseteq FirstOfVendor(S, looked)
  BY <1>1, <1>4 DEF FirstOfVendor, Alone, High
<1>5. QED
  BY <1>3, <1>4

\* The groups that are looked at.
Largest(S) == Leading(Groups(S), LAMBDA g : Cardinality(g), MaxGroups)

\* The alerts that are shown are due, no more than fit, and all as long as no limit is reached.
LEMMA AlertsShown ==
    ASSUME NEW S, IsFiniteSet(S), S \subseteq Charge, NEW today, NEW shown \in Alerts(S, today),
           {Factor, HighValue, MaxUnusual, MaxHighValue, MaxGroups, MaxAlerts} \subseteq Nat
    PROVE  /\ shown \subseteq Due(S, today) /\ Cardinality(shown) <= MaxAlerts
           /\ (/\ Cardinality(Due(S, today)) <= MaxAlerts
               /\ Cardinality(Striking(S, today)) <= MaxUnusual /\ Cardinality(Doubled(S)) <= MaxGroups
               /\ Cardinality({i \in S : i.total > HighValue}) <= MaxHighValue) => shown = Due(S, today)
<1>0. MaxUnusual \in Nat /\ MaxHighValue \in Nat /\ MaxGroups \in Nat /\ MaxAlerts \in Nat
  OBVIOUS
<1>1. PICK unusual \in Newest(Unusual(S, today), MaxUnusual),
           looked \in Newest(High(S), MaxHighValue),
           groups \in Largest(S) :
             shown = Capped(AlertsFor(unusual, FirstOfVendor(S, looked), Duplicates(S, groups)))
  <2>1. Alerts(S, today) =
          {Capped(AlertsFor(u, FirstOfVendor(S, l), Duplicates(S, g))) :
             u \in Newest(Unusual(S, today), MaxUnusual),
             l \in Newest(High(S), MaxHighValue), g \in Largest(S)}
    BY DEF Alerts, AlertsFor, Largest
  <2>2. QED
    BY <2>1
<1> DEFINE first == FirstOfVendor(S, looked)
           doubled == Duplicates(S, groups)
           A == AlertsFor(unusual, first, doubled)
<1>2. Unusual(S, today) = Striking(S, today) /\ Striking(S, today) \in SUBSET S
  <2>1. Cardinality(Recent(S, today)) = Cardinality(Recent(S, today))
    OBVIOUS
  <2>2. QED
    BY <2>1 DEF Unusual, Striking
<1>3. IsFiniteSet(Striking(S, today)) /\ IsFiniteSet(High(S)) /\ IsFiniteSet(Groups(S))
  <2>1. High(S) \in SUBSET S
    BY DEF High
  <2>2. QED
    BY <1>2, <2>1, FS_Subset, GroupsAreCounted
<1>4. unusual \subseteq Striking(S, today) /\ (Cardinality(Striking(S, today)) <= MaxUnusual => unusual = Striking(S, today))
  BY <1>0, <1>2, <1>3, NewestOf
<1>5. looked \in SUBSET High(S) /\ (Cardinality(High(S)) <= MaxHighValue => looked = High(S))
  BY <1>0, <1>3, NewestOf
<1>6. groups \in SUBSET Groups(S) /\ (Cardinality(Groups(S)) <= MaxGroups => groups = Groups(S))
  <2>1. groups \in SUBSET Groups(S) /\ Cardinality(groups) = Min({MaxGroups, Cardinality(Groups(S))})
    BY DEF Largest, Leading
  <2>2. QED
    BY <1>0, <1>3, <2>1, AllLead
<1>7. first \subseteq Alone(S) /\ (looked = High(S) => first = Alone(S))
  BY <1>5, FirstIsAlone
<1>8. doubled \subseteq Doubled(S) /\ (groups = Groups(S) => doubled = Doubled(S))
  BY <1>6, DuplicatesAreDoubled
<1>9. A \subseteq Due(S, today)
  <2> HIDE DEF first, doubled
  <2> QED BY <1>4, <1>7, <1>8 DEF AlertsFor, Due
<1>10. IsFiniteSet(A) /\ A \subseteq Warning
  <2>1. unusual \in SUBSET S /\ first \in SUBSET S /\ doubled \in SUBSET S
    BY <1>2, <1>4, <1>7, <1>8 DEF Alone, Doubled
  <2> HIDE DEF first, doubled
  <2>2. QED
    BY <2>1, AlertsAreFinite
<1>11. shown \subseteq A /\ Cardinality(shown) <= MaxAlerts /\ (Cardinality(A) <= MaxAlerts => shown = A)
  <2> HIDE DEF A
  <2>1. shown = Capped(A)
    BY <1>1 DEF A
  <2>2. QED
    BY <1>0, <1>10, <2>1, CappedAlerts
<1>12. ASSUME Cardinality(Due(S, today)) <= MaxAlerts,
              Cardinality(Striking(S, today)) <= MaxUnusual, Cardinality(Doubled(S)) <= MaxGroups,
              Cardinality({i \in S : i.total > HighValue}) <= MaxHighValue
       PROVE  shown = Due(S, today)
  <2>1. unusual = Striking(S, today)
    BY <1>4, <1>12
  <2>2. first = Alone(S)
    <3> DEFINE high == {i \in S : i.total > HighValue}
    <3>1. High(S) \in SUBSET high /\ high \in SUBSET S
      BY DEF High
    <3> HIDE DEF high, first
    <3>2. IsFiniteSet(high) /\ Cardinality(High(S)) <= Cardinality(high)
      BY <3>1, FS_Subset
    <3>3. Cardinality(high) \in Nat /\ Cardinality(High(S)) \in Nat /\ Cardinality(high) <= MaxHighValue
      BY <1>3, <1>12, <3>2, FS_CardinalityType DEF high
    <3>4. Cardinality(High(S)) <= MaxHighValue
      BY <1>0, <3>2, <3>3
    <3>5. QED
      BY <1>5, <1>7, <3>4
  <2>3. doubled = Doubled(S)
    <3>1. Cardinality(Groups(S)) <= Cardinality(Doubled(S)) /\ IsFiniteSet(Doubled(S))
      BY GroupsAreCounted, FS_Subset DEF Doubled
    <3>2. Cardinality(Groups(S)) \in Nat /\ Cardinality(Doubled(S)) \in Nat
      BY <1>3, <3>1, FS_CardinalityType
    <3>3. Cardinality(Groups(S)) <= MaxGroups
      BY <1>0, <1>12, <3>1, <3>2
    <3> HIDE DEF doubled
    <3>4. QED
      BY <1>6, <1>8, <3>3
  <2>4. A = Due(S, today)
    <3> HIDE DEF first, doubled
    <3> QED BY <2>1, <2>2, <2>3 DEF Due
  <2> HIDE DEF A
  <2>5. QED
    BY <1>11, <1>12, <2>4
<1>13. QED
  <2> HIDE DEF A
  <2> QED BY <1>9, <1>11, <1>12

-----------------------------------------------------------------------------
(* Cash flow.                                                              *)

\* Months since the year 0, and the invoices of some of them.
Index(t) == 12 * t.y + t.m
MonthsOf(S, a, b) == {i \in S : Index(i.date) \in a..b}

\* The month so many months back is a month of a year.
LEMMA MonthBack ==
    ASSUME NEW t, t.y \in Nat, t.m \in 1..12, NEW k \in Nat
    PROVE  /\ MonthsBack(t, k).y \in Int /\ MonthsBack(t, k).m \in 1..12
           /\ Index(MonthsBack(t, k)) = Index(t) - k
<1> DEFINE y == t.y
           m == t.m
           d == (k - m) \div 12
           wraps == IF m > k THEN 0 ELSE d + 1
<1>1. MonthsBack(t, k) = [y |-> y - wraps, m |-> m - k + 12 * wraps]
  BY DEF MonthsBack
<1>2. CASE m > k
  <2>1. wraps = 0
    BY <1>2
  <2> HIDE DEF wraps
  <2>2. QED
    BY <1>1, <1>2, <2>1 DEF Index
<1>3. CASE ~(m > k)
  <2>1. wraps = d + 1
    BY <1>3
  <2>2. k - m \in Nat
    BY <1>3
  <2>3. d \in Int /\ 12 * d <= k - m /\ k - m < 12 * d + 12
    BY <2>2
  <2> HIDE DEF wraps, d
  <2>4. MonthsBack(t, k).y = y - (d + 1) /\ MonthsBack(t, k).m = m - k + 12 * (d + 1)
    BY <1>1, <2>1
  <2>5. QED
    BY <2>2, <2>3, <2>4 DEF Index
<1>4. QED
  BY <1>2, <1>3

\* A month has one index.
LEMMA MonthsDiffer ==
    ASSUME NEW a \in Int, NEW b \in Int, NEW m \in 1..12, NEW n \in 1..12, 12 * a + m = 12 * b + n
    PROVE  a = b /\ m = n
<1>1. 12 * (a - b) = n - m
  OBVIOUS
<1>2. a - b = 0
  BY <1>1
<1>3. QED
  BY <1>2

\* The invoices of a month are those with its index.
LEMMA InMonthOf ==
    ASSUME NEW S, S \subseteq Entry, NEW l, l.y \in Int, l.m \in 1..12
    PROVE  InMonth(S, l) = MonthsOf(S, Index(l), Index(l))
<1>1. ASSUME NEW i \in S
      PROVE  i.date.y = l.y /\ i.date.m = l.m <=> Index(i.date) \in Index(l)..Index(l)
  <2>1. i.date.y \in Nat /\ i.date.m \in 1..12
    BY DEF Entry, Date
  <2>2. Index(i.date) \in Int /\ Index(l) \in Int
    BY <2>1 DEF Index
  <2>3. ASSUME Index(i.date) = Index(l) PROVE i.date.y = l.y /\ i.date.m = l.m
    <3> DEFINE a == i.date.y
               m == i.date.m
               b == l.y
               n == l.m
    <3>1. a \in Int /\ b \in Int /\ m \in 1..12 /\ n \in 1..12 /\ 12 * a + m = 12 * b + n
      BY <2>1, <2>3 DEF Index
    <3>2. a = b /\ m = n
      <4> HIDE DEF a, b, m, n
      <4> QED BY <3>1, MonthsDiffer
    <3>3. QED
      BY <3>2
  <2>4. QED
    BY <2>2, <2>3 DEF Index
<1>2. QED
  BY <1>1 DEF InMonth, MonthsOf

\* Numbers added up one after the other.
LEMMA AddedUp ==
    ASSUME NEW n \in Nat, NEW v \in [1..n -> Int], NEW h \in [0..n -> Int],
           h[0] = 0, \A k \in 1..n : h[k] = h[k - 1] + v[k],
           NEW f, \A s \in SUBSET (1..n) : f[s] = IF s = {} THEN 0 ELSE f[s \ {Max(s)}] + v[Max(s)]
    PROVE  f[1..n] = h[n]
<1> DEFINE T == {k \in 0..n : f[1..k] = h[k]}
<1>1. 0 \in T
  <2>1. 1..0 = {} /\ {} \in SUBSET (1..n) /\ 0 \in 0..n
    OBVIOUS
  <2>2. f[1..0] = 0
    BY <2>1
  <2>3. QED
    BY <2>1, <2>2
<1>2. ASSUME NEW k \in 1..n, k - 1 \in T PROVE k \in T
  <2>1. /\ 1..k \in SUBSET (1..n) /\ 1..k # {}
        /\ Max(1..k) = k /\ (1..k) \ {k} = 1..(k - 1)
    BY UpToIsFolded
  <2>2. f[1..k] = f[1..(k - 1)] + v[k]
    BY <2>1
  <2>3. QED
    BY <1>2, <2>2
<1>3. 0..n \subseteq T
  <2> HIDE DEF T
  <2> QED BY <1>1, <1>2, Climb
<1>4. QED
  BY <1>3

\* There is a function that adds up so.
LEMMA AddingUp ==
    ASSUME NEW n \in Nat, NEW v \in [1..n -> Int]
    PROVE  \E f : f = [s \in SUBSET (1..n) |-> IF s = {} THEN 0 ELSE f[s \ {Max(s)}] + v[Max(s)]]
<1> DEFINE step == [p \in (1..n) \X Int |-> p[2] + v[p[1]]]
<1>1. step \in [(1..n) \X Int -> Int] /\ 0 \in Int
  OBVIOUS
<1>2. PICK f : Unfolded(f, n, Int, 0, step)
  <2> HIDE DEF step
  <2> QED BY <1>1, FoldUnfolds
<1>3. ASSUME NEW s \in SUBSET (1..n)
      PROVE  f[s] = IF s = {} THEN 0 ELSE f[s \ {Max(s)}] + v[Max(s)]
  BY <1>2 DEF Unfolded
<1>4. f = [s \in SUBSET (1..n) |-> f[s]]
  BY <1>2 DEF Unfolded
<1>5. f = [s \in SUBSET (1..n) |-> IF s = {} THEN 0 ELSE f[s \ {Max(s)}] + v[Max(s)]]
  BY <1>3, <1>4
<1>6. QED
  BY <1>5

\* The totals and the counts of a cash flow, added up.
TotalOf(points) == FoldLeft(LAMBDA sum, p : sum + p.total, 0, points)
CountOf(points) == FoldLeft(LAMBDA sum, p : sum + p.count, 0, points)

\* What adding up the totals gives.
LEMMA TotalsAddUp ==
    ASSUME NEW n \in Nat, NEW v \in [1..n -> Int], NEW h \in [0..n -> Int],
           h[0] = 0, \A k \in 1..n : h[k] = h[k - 1] + v[k],
           NEW points, DOMAIN points = 1..n, \A k \in 1..n : points[k].total = v[k]
    PROVE  TotalOf(points) = h[n]
<1> DEFINE Fold(f) == f = [s \in SUBSET (1..n) |-> IF s = {} THEN 0
                                                    ELSE f[s \ {Max(s)}] + points[Max(s)].total]
<1>1. ASSUME NEW s \in SUBSET (1..n), s # {} PROVE points[Max(s)].total = v[Max(s)]
  BY <1>1, Greatest
<1>2. ASSUME NEW f, NEW s \in SUBSET (1..n)
      PROVE  (IF s = {} THEN 0 ELSE f[s \ {Max(s)}] + points[Max(s)].total)
             = (IF s = {} THEN 0 ELSE f[s \ {Max(s)}] + v[Max(s)])
  BY <1>1
<1>3. \E f : Fold(f)
  <2>1. PICK f : f = [s \in SUBSET (1..n) |-> IF s = {} THEN 0 ELSE f[s \ {Max(s)}] + v[Max(s)]]
    BY AddingUp
  <2>2. [s \in SUBSET (1..n) |-> IF s = {} THEN 0 ELSE f[s \ {Max(s)}] + v[Max(s)]]
        = [s \in SUBSET (1..n) |-> IF s = {} THEN 0 ELSE f[s \ {Max(s)}] + points[Max(s)].total]
    BY <1>2, Zenon
  <2>3. QED
    BY <2>1, <2>2
<1>4. TotalOf(points) = (CHOOSE f : Fold(f))[1..n]
  BY DEF TotalOf, FoldLeft, MapThenFoldSet
<1>5. PICK f : Fold(f) /\ TotalOf(points) = f[1..n]
  <2> HIDE DEF Fold
  <2> QED BY <1>3, <1>4
<1>6. \A s \in SUBSET (1..n) : f[s] = IF s = {} THEN 0 ELSE f[s \ {Max(s)}] + v[Max(s)]
  <2>1. ASSUME NEW s \in SUBSET (1..n)
        PROVE  f[s] = IF s = {} THEN 0 ELSE f[s \ {Max(s)}] + points[Max(s)].total
    BY <1>5
  <2> HIDE DEF Fold
  <2>2. QED
    BY <1>2, <2>1
<1>7. f[1..n] = h[n]
  <2>1. \A g : (\A s \in SUBSET (1..n) : g[s] = IF s = {} THEN 0 ELSE g[s \ {Max(s)}] + v[Max(s)])
                => g[1..n] = h[n]
    <3> HIDE DEF Fold
    <3> QED BY AddedUp
  <2> HIDE DEF Fold
  <2>2. QED
    BY <1>6, <2>1
<1>8. QED
  BY <1>5, <1>7

\* What adding up the counts gives.
LEMMA CountsAddUp ==
    ASSUME NEW n \in Nat, NEW v \in [1..n -> Int], NEW h \in [0..n -> Int],
           h[0] = 0, \A k \in 1..n : h[k] = h[k - 1] + v[k],
           NEW points, DOMAIN points = 1..n, \A k \in 1..n : points[k].count = v[k]
    PROVE  CountOf(points) = h[n]
<1> DEFINE Fold(f) == f = [s \in SUBSET (1..n) |-> IF s = {} THEN 0
                                                    ELSE f[s \ {Max(s)}] + points[Max(s)].count]
<1>1. ASSUME NEW s \in SUBSET (1..n), s # {} PROVE points[Max(s)].count = v[Max(s)]
  BY <1>1, Greatest
<1>2. ASSUME NEW f, NEW s \in SUBSET (1..n)
      PROVE  (IF s = {} THEN 0 ELSE f[s \ {Max(s)}] + points[Max(s)].count)
             = (IF s = {} THEN 0 ELSE f[s \ {Max(s)}] + v[Max(s)])
  BY <1>1
<1>3. \E f : Fold(f)
  <2>1. PICK f : f = [s \in SUBSET (1..n) |-> IF s = {} THEN 0 ELSE f[s \ {Max(s)}] + v[Max(s)]]
    BY AddingUp
  <2>2. [s \in SUBSET (1..n) |-> IF s = {} THEN 0 ELSE f[s \ {Max(s)}] + v[Max(s)]]
        = [s \in SUBSET (1..n) |-> IF s = {} THEN 0 ELSE f[s \ {Max(s)}] + points[Max(s)].count]
    BY <1>2, Zenon
  <2>3. QED
    BY <2>1, <2>2
<1>4. CountOf(points) = (CHOOSE f : Fold(f))[1..n]
  BY DEF CountOf, FoldLeft, MapThenFoldSet
<1>5. PICK f : Fold(f) /\ CountOf(points) = f[1..n]
  <2> HIDE DEF Fold
  <2> QED BY <1>3, <1>4
<1>6. \A s \in SUBSET (1..n) : f[s] = IF s = {} THEN 0 ELSE f[s \ {Max(s)}] + v[Max(s)]
  <2>1. ASSUME NEW s \in SUBSET (1..n)
        PROVE  f[s] = IF s = {} THEN 0 ELSE f[s \ {Max(s)}] + points[Max(s)].count
    BY <1>5
  <2> HIDE DEF Fold
  <2>2. QED
    BY <1>2, <2>1
<1>7. f[1..n] = h[n]
  <2>1. \A g : (\A s \in SUBSET (1..n) : g[s] = IF s = {} THEN 0 ELSE g[s \ {Max(s)}] + v[Max(s)])
                => g[1..n] = h[n]
    <3> HIDE DEF Fold
    <3> QED BY AddedUp
  <2> HIDE DEF Fold
  <2>2. QED
    BY <1>6, <2>1
<1>8. QED
  BY <1>5, <1>7

\* The invoices of more months.
LEMMA OneMonthMore ==
    ASSUME NEW S, \A i \in S : Index(i.date) \in Int, NEW a \in Int, NEW b \in Int, a <= b + 1
    PROVE  /\ MonthsOf(S, a, b + 1) = MonthsOf(S, a, b) \cup MonthsOf(S, b + 1, b + 1)
           /\ MonthsOf(S, a, b) \cap MonthsOf(S, b + 1, b + 1) = {}
<1>1. \A i \in S : Index(i.date) \in a..(b + 1) <=> Index(i.date) \in a..b \/ Index(i.date) \in (b + 1)..(b + 1)
  OBVIOUS
<1>2. \A i \in S : ~(Index(i.date) \in a..b /\ Index(i.date) \in (b + 1)..(b + 1))
  OBVIOUS
<1>3. QED
  BY <1>1, <1>2 DEF MonthsOf

\* The cash flow shows the months up to the current one, each with its invoices.
LEMMA FlowOf ==
    ASSUME NEW S, IsFiniteSet(S), S \subseteq Entry, NEW today \in Date, NEW n \in Nat, NEW j \in 1..n
    PROVE  LET point == Cashflow(S, today, n)[j]
               these == MonthsOf(S, Index(today) - n + j, Index(today) - n + j)
           IN  /\ point.month = MonthsBack(today, n - j)
               /\ point.month.y \in Int /\ point.month.m \in 1..12
               /\ Index(point.month) = Index(today) - n + j
               /\ point.total = Total(these) /\ point.count = Cardinality(these)
<1> DEFINE l == MonthLabels(today, n)[j]
           b == Index(today) - n + j
<1>1. l = MonthsBack(today, n - j) /\ n - j \in Nat
  BY DEF MonthLabels
<1>2. today.y \in Nat /\ today.m \in 1..12 /\ Index(today) \in Int
  BY DEF Date, Index
<1>3. l.y \in Int /\ l.m \in 1..12 /\ Index(l) = Index(today) - (n - j)
  <2> HIDE DEF l
  <2> QED BY <1>1, <1>2, MonthBack
<1>4. Index(l) = b
  <2> HIDE DEF l
  <2> QED BY <1>2, <1>3
<1>5. InMonth(S, l) = MonthsOf(S, b, b)
  <2> HIDE DEF l, b
  <2> QED BY <1>3, <1>4, InMonthOf
<1>6. Cashflow(S, today, n)[j] = [month |-> l, total |-> Total(InMonth(S, l)),
                                    count |-> Cardinality(InMonth(S, l))]
  BY DEF Cashflow
<1>7. Cardinality(MonthsOf(S, b, b)) = Cardinality(MonthsOf(S, b, b))
  OBVIOUS
<1>8. QED
  <2> HIDE DEF l
  <2> QED BY <1>1, <1>3, <1>4, <1>5, <1>6, <1>7

\* Added up, the cash flow has every invoice of its months once.
LEMMA FlowAddsUp ==
    ASSUME NEW S, IsFiniteSet(S), S \subseteq Entry, NEW today \in Date, NEW n \in Nat
    PROVE  LET these == MonthsOf(S, Index(today) - n + 1, Index(today))
           IN  /\ TotalOf(Cashflow(S, today, n)) = Total(these)
               /\ CountOf(Cashflow(S, today, n)) = Cardinality(these)
<1> DEFINE w == [i \in S |-> i.total]
           b == Index(today) - n
           Part(k) == MonthsOf(S, b + 1, b + k)
           New(k) == MonthsOf(S, b + k, b + k)
           points == Cashflow(S, today, n)
<1>1. Index(today) \in Int /\ b \in Int /\ b + n = Index(today)
  BY DEF Date, Index
<1>2. \A i \in S : Index(i.date) \in Int
  <2>1. \A i \in S : i.date.y \in Nat /\ i.date.m \in 1..12
    BY DEF Entry, Date
  <2>2. QED
    BY <2>1 DEF Index
<1>3. w \in [S -> Int] /\ \A i \in S : i.total = w[i]
  BY DEF Entry
<1>4. PICK g : Summing(g, S, w)
  <2> HIDE DEF w
  <2> QED BY <1>3, SumsExist
<1>5. \A A \in SUBSET S : Total(A) = g[A] /\ g[A] \in Int
  <2> HIDE DEF w
  <2>1. \A A \in SUBSET S : Total(A) = g[A]
    BY <1>3, <1>4, TotalIsSum
  <2>2. QED
    BY <1>4, <2>1 DEF Summing
<1>6. \A k : Part(k) \in SUBSET S /\ New(k) \in SUBSET S
  BY DEF MonthsOf
<1>7. Part(0) = {}
  BY <1>1, <1>2 DEF MonthsOf
<1>8. ASSUME NEW k \in 1..n PROVE Part(k) = Part(k - 1) \cup New(k) /\ Part(k - 1) \cap New(k) = {}
  <2> DEFINE c == b + (k - 1)
  <2>1. c \in Int /\ b + 1 \in Int /\ b + 1 <= c + 1 /\ c + 1 = b + k
    BY <1>1
  <2>2. /\ MonthsOf(S, b + 1, c + 1) = MonthsOf(S, b + 1, c) \cup MonthsOf(S, c + 1, c + 1)
        /\ MonthsOf(S, b + 1, c) \cap MonthsOf(S, c + 1, c + 1) = {}
    <3> HIDE DEF b, c
    <3> QED BY <1>2, <2>1, OneMonthMore
  <2>3. QED
    BY <2>1, <2>2
<1>9. DOMAIN points = 1..n
  BY DEF Cashflow
<1>10. ASSUME NEW k \in 1..n
       PROVE  points[k].total = g[New(k)] /\ points[k].count = Cardinality(New(k))
  <2>1. points[k].total = Total(New(k)) /\ points[k].count = Cardinality(New(k))
    BY FlowOf
  <2> HIDE DEF points, New
  <2>2. QED
    BY <1>5, <1>6, <2>1
<1>11. TotalOf(points) = g[Part(n)]
  <2> DEFINE v == [k \in 1..n |-> g[New(k)]]
             h == [k \in 0..n |-> g[Part(k)]]
  <2>1. v \in [1..n -> Int] /\ h \in [0..n -> Int]
    <3> HIDE DEF New, Part
    <3> QED BY <1>5, <1>6
  <2>2. h[0] = 0
    <3>1. g[{}] = 0
      BY <1>4 DEF Summing
    <3> HIDE DEF Part
    <3>2. QED
      BY <1>7, <3>1
  <2>3. ASSUME NEW k \in 1..n PROVE h[k] = h[k - 1] + v[k]
    <3>1. h[k] = g[Part(k)] /\ h[k - 1] = g[Part(k - 1)] /\ v[k] = g[New(k)]
      OBVIOUS
    <3> HIDE DEF Part, New, w, h, v
    <3>2. g[Part(k - 1) \cup New(k)] = g[Part(k - 1)] + g[New(k)]
      <4> DEFINE A == Part(k - 1)
                 B == New(k)
      <4>1. A \in SUBSET S /\ B \in SUBSET S /\ A \cap B = {}
        BY <1>6, <1>8
      <4>2. g[A \cup B] = g[A] + g[B]
        <5> HIDE DEF A, B
        <5> QED BY <1>4, <4>1, SumOfBoth
      <4>3. QED
        BY <4>2
    <3>3. QED
      BY <1>8, <3>1, <3>2
  <2>4. \A k \in 1..n : points[k].total = v[k]
    <3> HIDE DEF points, New
    <3> QED BY <1>10
  <2>5. TotalOf(points) = h[n]
    <3> HIDE DEF points, v, h
    <3> QED BY <1>9, <2>1, <2>2, <2>3, <2>4, TotalsAddUp
  <2>6. QED
    BY <2>5
<1>12. CountOf(points) = Cardinality(Part(n))
  <2> DEFINE v == [k \in 1..n |-> Cardinality(New(k))]
             h == [k \in 0..n |-> Cardinality(Part(k))]
  <2>0. \A A \in SUBSET S : IsFiniteSet(A) /\ Cardinality(A) \in Nat
    BY FS_Subset, FS_CardinalityType
  <2>1. v \in [1..n -> Int] /\ h \in [0..n -> Int]
    <3> HIDE DEF New, Part
    <3> QED BY <1>6, <2>0
  <2>2. h[0] = 0
    <3>1. Cardinality({}) = 0
      BY FS_EmptySet
    <3> HIDE DEF Part
    <3>2. QED
      BY <1>7, <3>1
  <2>3. ASSUME NEW k \in 1..n PROVE h[k] = h[k - 1] + v[k]
    <3>1. h[k] = Cardinality(Part(k)) /\ h[k - 1] = Cardinality(Part(k - 1)) /\ v[k] = Cardinality(New(k))
      OBVIOUS
    <3> HIDE DEF Part, New, h, v
    <3>2. IsFiniteSet(Part(k - 1)) /\ IsFiniteSet(New(k))
      BY <1>6, <2>0
    <3>3. Cardinality(Part(k - 1) \cup New(k))
          = Cardinality(Part(k - 1)) + Cardinality(New(k)) - Cardinality(Part(k - 1) \cap New(k))
      BY <3>2, FS_Union
    <3>4. Cardinality(Part(k - 1) \cap New(k)) = 0
      BY <1>8, FS_EmptySet
    <3>5. QED
      BY <1>6, <1>8, <2>0, <3>1, <3>3, <3>4
  <2>4. \A k \in 1..n : points[k].count = v[k]
    <3> HIDE DEF points, New
    <3> QED BY <1>10
  <2>5. CountOf(points) = h[n]
    <3> HIDE DEF points, v, h
    <3> QED BY <1>9, <2>1, <2>2, <2>3, <2>4, CountsAddUp
  <2>6. QED
    BY <2>5
<1>13. Part(n) = MonthsOf(S, Index(today) - n + 1, Index(today))
  BY <1>1
<1>14. QED
  <2> HIDE DEF points, Part
  <2>1. Total(Part(n)) = g[Part(n)]
    BY <1>5, <1>6
  <2>2. QED
    BY <1>11, <1>12, <1>13, <2>1 DEF points

\* A day is in the quarter if it is in one of its months.
LEMMA DaysOfQuarter ==
    ASSUME NEW t \in Date, NEW d \in Date
    PROVE  (NotAfter(QuarterStart(t), d) /\ NotAfter(d, QuarterEnd(t)))
           <=> (d.y = t.y /\ d.m \in (Quarter(t) + 1)..(Quarter(t) + 3))
<1> DEFINE q == Quarter(t)
           first == Day(t.y, q + 1, 1)
           last == Day(t.y, q + 3, MonthLength(t.y, q + 3))
<1>1. /\ t.y \in Nat /\ d.y \in Nat /\ d.m \in 1..12 /\ d.d \in 1..31 /\ d.d <= MonthLength(d.y, d.m)
      /\ d = [y |-> d.y, m |-> d.m, d |-> d.d]
  BY DEF Date, IsDay
<1>2. q \in {0, 3, 6, 9}
  <2>1. t.m \in 1..12
    BY DEF Date
  <2>2. QED
    BY <2>1, QuarterOf DEF Quarter
<1>3. MonthLength(t.y, q + 3) \in 28..31
  BY DEF MonthLength
<1>4. QuarterStart(t) = first /\ QuarterEnd(t) = last
  BY DEF QuarterStart, QuarterEnd, Quarter
<1>5. first.y = t.y /\ first.m = q + 1 /\ first.d = 1
  BY DEF Day
<1>6. last.y = t.y /\ last.m = q + 3 /\ last.d = MonthLength(t.y, q + 3)
  BY DEF Day
<1> HIDE DEF q
<1>7. NotAfter(first, d) <=> d.y > t.y \/ (d.y = t.y /\ d.m >= q + 1)
  <2>1. ASSUME d.y = t.y, d.m = q + 1, d.d = 1 PROVE first = d
    BY <1>1, <2>1 DEF Day
  <2> HIDE DEF first
  <2>2. NotAfter(first, d) <=> first = d \/ Before(first, d)
    BY DEF NotAfter
  <2>3. Before(first, d) <=>
          \/ t.y < d.y
          \/ t.y = d.y /\ q + 1 < d.m
          \/ t.y = d.y /\ q + 1 = d.m /\ 1 < d.d
    BY <1>5 DEF Before
  <2>4. first = d => d.y = t.y /\ d.m = q + 1
    BY <1>5
  <2>5. QED
    BY <1>1, <1>2, <2>1, <2>2, <2>3, <2>4
<1>8. NotAfter(d, last) <=> d.y < t.y \/ (d.y = t.y /\ d.m <= q + 3)
  <2>1. ASSUME d.y = t.y, d.m = q + 3, d.d = MonthLength(t.y, q + 3) PROVE d = last
    BY <1>1, <2>1 DEF Day
  <2> HIDE DEF last
  <2>2. NotAfter(d, last) <=> d = last \/ Before(d, last)
    BY DEF NotAfter
  <2>3. Before(d, last) <=>
          \/ d.y < t.y
          \/ d.y = t.y /\ d.m < q + 3
          \/ d.y = t.y /\ d.m = q + 3 /\ d.d < MonthLength(t.y, q + 3)
    BY <1>6 DEF Before
  <2>4. d = last => d.y = t.y /\ d.m = q + 3
    BY <1>6
  <2>5. ASSUME d.y = t.y, d.m = q + 3
        PROVE  d.d < MonthLength(t.y, q + 3) \/ d.d = MonthLength(t.y, q + 3)
    BY <1>1, <1>3, <2>5
  <2>6. QED
    BY <1>1, <1>2, <2>1, <2>2, <2>3, <2>4, <2>5
<1>9. QED
  <2> HIDE DEF first, last
  <2>1. NotAfter(QuarterStart(t), d) /\ NotAfter(d, QuarterEnd(t)) <=>
          d.y = t.y /\ d.m >= q + 1 /\ d.m <= q + 3
    BY <1>1, <1>4, <1>7, <1>8
  <2>2. d.m >= q + 1 /\ d.m <= q + 3 <=> d.m \in (q + 1)..(q + 3)
    BY <1>1, <1>2
  <2>3. QED
    BY <2>1, <2>2 DEF q

\* The taxed invoices of a month, and the sum of their taxes over the months of a quarter.
Taxed(S, y, m) == {i \in InMonth(S, [y |-> y, m |-> m]) : i.tax # << >>}
QuarterMonths(t) == {m \in 1..12 : (m - 1) \div 3 = (t.m - 1) \div 3}
TaxesOf(S, t) == FoldSet(LAMBDA m, sum : sum + Taxes(Taxed(S, t.y, m)), 0, QuarterMonths(t))

\* The months of a quarter are three, one after the other.
LEMMA MonthsOfQuarter ==
    ASSUME NEW t \in Date
    PROVE  LET q == Quarter(t) IN q \in {0, 3, 6, 9} /\ QuarterMonths(t) = {q + 1, q + 2, q + 3}
<1>1. t.m \in 1..12
  BY DEF Date
<1>2. Quarter(t) \in {0, 3, 6, 9}
  BY <1>1, QuarterOf DEF Quarter
<1>3. (t.m - 1) \div 3 \in {0, 1, 2, 3}
  BY <1>1
<1>4. ASSUME NEW c \in {0, 1, 2, 3} PROVE {m \in 1..12 : (m - 1) \div 3 = c} = {c * 3 + 1, c * 3 + 2, c * 3 + 3}
  <2>1. \A m \in 1..12 : (m - 1) \div 3 = c <=> m \in {c * 3 + 1, c * 3 + 2, c * 3 + 3}
    OBVIOUS
  <2>2. c * 3 + 1 \in 1..12 /\ c * 3 + 2 \in 1..12 /\ c * 3 + 3 \in 1..12
    OBVIOUS
  <2>3. QED
    BY <2>1, <2>2
<1>5. QED
  BY <1>2, <1>3, <1>4 DEF Quarter, QuarterMonths

\* Folding the months of a quarter adds up three sums.
LEMMA TaxesOfThree ==
    ASSUME NEW S, NEW t \in Date, \A m \in QuarterMonths(t) : Taxes(Taxed(S, t.y, m)) \in Int
    PROVE  LET q == Quarter(t)
               tax(m) == Taxes(Taxed(S, t.y, m))
           IN  TaxesOf(S, t) = tax(q + 1) + tax(q + 2) + tax(q + 3)
<1> DEFINE q == Quarter(t)
           P == QuarterMonths(t)
           tax(m) == Taxes(Taxed(S, t.y, m))
           w == [m \in P |-> tax(m)]
           Fold(f) == f = [T \in SUBSET P |-> IF T = {} THEN 0
                             ELSE f[T \ {CHOOSE x \in T : TRUE}] + tax(CHOOSE x \in T : TRUE)]
<1>1. q \in {0, 3, 6, 9} /\ P = {q + 1, q + 2, q + 3}
  BY MonthsOfQuarter
<1>2. IsFiniteSet(P) /\ w \in [P -> Int]
  <2>1. P \in SUBSET (1..12)
    BY DEF QuarterMonths
  <2>2. IsFiniteSet(1..12)
    <3>1. 1 \in Int /\ 12 \in Int
      OBVIOUS
    <3>2. QED
      BY <3>1, FS_Interval
  <2>3. w \in [P -> Int]
    OBVIOUS
  <2> HIDE DEF P, w
  <2>4. QED
    BY <2>1, <2>2, <2>3, FS_Subset
<1>3. PICK g : Summing(g, P, w)
  <2> HIDE DEF P, w
  <2> QED BY <1>2, SumsExist
<1>4. \A f : Fold(f) <=> FoldsAs(f, P, w)
  <2>1. ASSUME NEW T \in SUBSET P, T # {}
        PROVE  (CHOOSE x \in T : TRUE) = Some(T) /\ tax(CHOOSE x \in T : TRUE) = w[Some(T)]
    <3>1. (CHOOSE x \in T : TRUE) = Some(T) /\ Some(T) \in P
      BY <2>1 DEF Some
    <3> HIDE DEF P
    <3>2. w[Some(T)] = tax(Some(T))
      BY <3>1
    <3> HIDE DEF w, tax
    <3>3. QED
      BY <3>1, <3>2
  <2>2. ASSUME NEW f, NEW T \in SUBSET P
        PROVE  (IF T = {} THEN 0 ELSE f[T \ {CHOOSE x \in T : TRUE}] + tax(CHOOSE x \in T : TRUE))
               = (IF T = {} THEN 0 ELSE f[T \ {Some(T)}] + w[Some(T)])
    <3> HIDE DEF w, tax, P
    <3>1. CASE T = {}
      BY <3>1
    <3>2. CASE T # {}
      <4>1. (CHOOSE x \in T : TRUE) = Some(T)
        BY DEF Some
      <4>2. QED
        BY <2>1, <3>2, <4>1, Zenon
    <3>3. QED
      BY <3>1, <3>2
  <2> HIDE DEF w, tax, P
  <2>3. ASSUME NEW f
        PROVE  [T \in SUBSET P |-> IF T = {} THEN 0
                  ELSE f[T \ {CHOOSE x \in T : TRUE}] + tax(CHOOSE x \in T : TRUE)]
               = [T \in SUBSET P |-> IF T = {} THEN 0 ELSE f[T \ {Some(T)}] + w[Some(T)]]
    BY <2>2, Zenon
  <2>4. QED
    BY <2>3 DEF FoldsAs
<1>5. TaxesOf(S, t) = (CHOOSE f : Fold(f))[P]
  BY DEF TaxesOf, FoldSet, MapThenFoldSet
<1>6. PICK f : Fold(f) /\ TaxesOf(S, t) = f[P]
  <2>1. \E f : Fold(f)
    <3> HIDE DEF Fold, P, w
    <3>1. \E f : FoldsAs(f, P, w)
      BY <1>3, SumIsFold
    <3>2. QED
      BY <1>4, <3>1
  <2> HIDE DEF Fold
  <2>2. QED
    BY <1>5, <2>1
<1>7. TaxesOf(S, t) = g[P]
  <2> HIDE DEF Fold, P, w
  <2>1. FoldsAs(f, P, w)
    BY <1>4, <1>6
  <2>2. f[P] = g[P]
    BY <1>3, <2>1, FoldIsSum
  <2>3. QED
    BY <1>6, <2>2
<1>8. g[P] = w[q + 1] + w[q + 2] + w[q + 3]
  <2> DEFINE A == {q + 2, q + 3}
             B == {q + 3}
  <2>1. /\ P \in SUBSET P /\ q + 1 \in P /\ P \ {q + 1} = A
        /\ A \in SUBSET P /\ q + 2 \in A /\ A \ {q + 2} = B
        /\ B \in SUBSET P /\ q + 3 \in B /\ B \ {q + 3} = {}
    BY <1>1
  <2> HIDE DEF P, q, w, A, B
  <2>2. g[P] = g[A] + w[q + 1] /\ g[A] = g[B] + w[q + 2] /\ g[B] = g[{}] + w[q + 3]
    BY <1>3, <2>1, SumOfRest
  <2>3. g[{}] = 0 /\ w[q + 1] \in Int /\ w[q + 2] \in Int /\ w[q + 3] \in Int
    BY <1>2, <1>3, <2>1 DEF Summing
  <2>4. QED
    BY <2>2, <2>3
<1>9. w[q + 1] = tax(q + 1) /\ w[q + 2] = tax(q + 2) /\ w[q + 3] = tax(q + 3)
  <2> HIDE DEF tax
  <2> QED BY <1>1
<1>10. QED
  <2> HIDE DEF w
  <2> QED BY <1>7, <1>8, <1>9

\* The VAT of a quarter is that of its months.
LEMMA VatAddsUp ==
    ASSUME NEW S, IsFiniteSet(S), S \subseteq Entry, NEW t \in Date
    PROVE  Kpis(S, t).vat = TaxesOf(S, t)
<1> DEFINE R == {i \in S : i.tax # << >>}
           w == [i \in R |-> i.tax[1]]
           q == Quarter(t)
           V == {i \in S : /\ NotAfter(QuarterStart(t), i.date)
                           /\ NotAfter(i.date, QuarterEnd(t))
                           /\ i.tax # NoTax}
           TaxedIn(m) == Taxed(S, t.y, m)
<1>1. IsFiniteSet(R)
  BY FS_Subset
<1>2. w \in [R -> Int] /\ \A i \in R : i.tax[1] = w[i]
  <2>1. ASSUME NEW i \in R PROVE i.tax[1] \in Int
    <3>1. i.tax \in Seq(Int) /\ i.tax # << >>
      BY DEF Entry
    <3>2. QED
      BY <3>1
  <2>2. QED
    BY <2>1
<1>3. PICK g : Summing(g, R, w)
  <2> HIDE DEF R, w
  <2> QED BY <1>1, <1>2, SumsExist
<1>4. \A A \in SUBSET R : Taxes(A) = g[A] /\ g[A] \in Int
  <2> HIDE DEF R, w
  <2>1. \A A \in SUBSET R : Taxes(A) = g[A]
    BY <1>2, <1>3, TaxesIsSum
  <2>2. QED
    BY <1>3, <2>1 DEF Summing
<1>5. \A m : TaxedIn(m) \in SUBSET R
  BY DEF Taxed, InMonth
<1>6. q \in {0, 3, 6, 9}
  BY MonthsOfQuarter
<1>7. V = (TaxedIn(q + 1) \cup TaxedIn(q + 2)) \cup TaxedIn(q + 3)
  <2>1. ASSUME NEW i \in S
        PROVE  i \in V <=> i.date.y = t.y /\ i.date.m \in (q + 1)..(q + 3) /\ i.tax # << >>
    <3>1. i.date \in Date
      BY DEF Entry
    <3>2. NotAfter(QuarterStart(t), i.date) /\ NotAfter(i.date, QuarterEnd(t))
          <=> i.date.y = t.y /\ i.date.m \in (q + 1)..(q + 3)
      BY <3>1, DaysOfQuarter
    <3> HIDE DEF q
    <3>3. QED
      BY <3>2 DEF NoTax
  <2>2. ASSUME NEW i \in S, NEW m PROVE i \in TaxedIn(m) <=> i.date.y = t.y /\ i.date.m = m /\ i.tax # << >>
    BY DEF Taxed, InMonth
  <2>3. ASSUME NEW i \in S
        PROVE  i.date.m \in (q + 1)..(q + 3) <=> i.date.m = q + 1 \/ i.date.m = q + 2 \/ i.date.m = q + 3
    <3>1. i.date.m \in 1..12
      BY DEF Entry, Date
    <3> HIDE DEF q
    <3>2. QED
      BY <1>6, <3>1
  <2>4. V \subseteq S /\ \A m : TaxedIn(m) \subseteq S
    BY DEF Taxed, InMonth
  <2> HIDE DEF V, TaxedIn, q
  <2>5. \A i \in S : i \in V <=> i \in TaxedIn(q + 1) \/ i \in TaxedIn(q + 2) \/ i \in TaxedIn(q + 3)
    BY <2>1, <2>2, <2>3
  <2>6. QED
    BY <2>4, <2>5
<1>8. TaxedIn(q + 1) \cap TaxedIn(q + 2) = {} /\ (TaxedIn(q + 1) \cup TaxedIn(q + 2)) \cap TaxedIn(q + 3) = {}
  <2>1. \A m : \A i \in TaxedIn(m) : i.date.m = m
    BY DEF Taxed, InMonth
  <2> HIDE DEF TaxedIn, q
  <2>2. q + 1 # q + 2 /\ q + 1 # q + 3 /\ q + 2 # q + 3
    BY <1>6
  <2>3. QED
    BY <2>1, <2>2
<1>9. g[V] = g[TaxedIn(q + 1)] + g[TaxedIn(q + 2)] + g[TaxedIn(q + 3)]
  <2> DEFINE A == TaxedIn(q + 1)
             B == TaxedIn(q + 2)
             C == TaxedIn(q + 3)
  <2>1. A \in SUBSET R /\ B \in SUBSET R /\ C \in SUBSET R /\ A \cup B \in SUBSET R
    BY <1>5
  <2>2. A \cap B = {} /\ (A \cup B) \cap C = {} /\ V = (A \cup B) \cup C
    BY <1>7, <1>8
  <2> HIDE DEF A, B, C, R, V, w
  <2>3. g[A \cup B] = g[A] + g[B]
    BY <1>3, <2>1, <2>2, SumOfBoth
  <2>4. g[(A \cup B) \cup C] = g[A \cup B] + g[C]
    BY <1>3, <2>1, <2>2, SumOfBoth
  <2>5. g[A] + g[B] + g[C] = g[V]
    BY <2>2, <2>3, <2>4
  <2>6. QED
    BY <2>5 DEF A, B, C
<1>10. Kpis(S, t).vat = Taxes(V)
  BY DEF Kpis
<1>11. V \in SUBSET R
  BY <1>5, <1>7
<1>12. TaxesOf(S, t) = Taxes(TaxedIn(q + 1)) + Taxes(TaxedIn(q + 2)) + Taxes(TaxedIn(q + 3))
  <2>1. \A m : Taxes(TaxedIn(m)) \in Int
    <3> HIDE DEF TaxedIn, R
    <3> QED BY <1>4, <1>5
  <2>2. QED
    BY <2>1, TaxesOfThree
<1>13. QED
  <2> HIDE DEF V, R, q
  <2>1. Taxes(V) = g[V]
    BY <1>4, <1>11
  <2>2. \A m : Taxes(TaxedIn(m)) = g[TaxedIn(m)]
    <3> HIDE DEF TaxedIn
    <3> QED BY <1>4, <1>5
  <2>3. QED
    <3> HIDE DEF TaxedIn
    <3> QED BY <1>9, <1>10, <1>12, <2>1, <2>2

\* The inputs of the cash flow, and of the alerts.
Flow(f) == /\ f.today \in Date /\ f.months \in Nat \ {0}
           /\ IsFiniteSet(f.invoices) /\ f.invoices \subseteq Entry
Book(b) == /\ b.today \in Date /\ b.limit \in Nat \ {0}
           /\ IsFiniteSet(b.invoices) /\ b.invoices \subseteq Charge

\* The cash flow is complete.
LEMMA FlowIsComplete == (On("cash flow") => Flow(In)) => CashflowIsComplete
<1> DEFINE n == In.months
           S == In.invoices
           today == In.today
           points == Cashflow(S, today, n)
           last == 12 * today.y + today.m
           oldest == last - n + 1
           these == {i \in S : 12 * i.date.y + i.date.m \in oldest..last}
<1>1. SUFFICES ASSUME On("cash flow"), Flow(In) PROVE CashflowIsComplete
  BY DEF CashflowIsComplete
<1>2. n \in Nat /\ n > 0 /\ IsFiniteSet(S) /\ S \subseteq Entry /\ today \in Date
  <2>1. today \in Date /\ n \in Nat \ {0} /\ IsFiniteSet(S) /\ S \subseteq Entry
    BY <1>1 DEF Flow
  <2> HIDE DEF n, S, today
  <2>2. QED
    BY <2>1
<1>3. today.y \in Nat /\ today.m \in 1..12
  BY <1>2 DEF Date
<1> HIDE DEF n, S, today
<1>4. points[n].month = [y |-> today.y, m |-> today.m]
  <2>1. n \in 1..n /\ n - n = 0
    BY <1>2
  <2>2. points[n].month = MonthsBack(today, 0)
    BY <1>2, <2>1, FlowOf
  <2>3. MonthsBack(today, 0) = [y |-> today.y - 0, m |-> today.m - 0 + 12 * 0]
    BY <1>3 DEF MonthsBack
  <2>4. today.y - 0 = today.y /\ today.m - 0 + 12 * 0 = today.m
    BY <1>3
  <2> HIDE DEF points
  <2>5. QED
    BY <2>2, <2>3, <2>4
<1>5. ASSUME NEW k \in 2..n
      PROVE  12 * points[k - 1].month.y + points[k - 1].month.m + 1 = 12 * points[k].month.y + points[k].month.m
  <2> DEFINE a == points[k - 1].month
             b == points[k].month
  <2>1. k - 1 \in 1..n /\ k \in 1..n
    BY <1>2
  <2>2. a.y \in Int /\ a.m \in 1..12 /\ Index(a) = Index(today) - n + (k - 1)
    BY <1>2, <2>1, FlowOf
  <2>3. b.y \in Int /\ b.m \in 1..12 /\ Index(b) = Index(today) - n + k
    BY <1>2, <2>1, FlowOf
  <2>4. Index(today) \in Int
    BY <1>3 DEF Index
  <2> HIDE DEF a, b
  <2>5. Index(a) + 1 = Index(b)
    BY <1>2, <2>2, <2>3, <2>4
  <2>6. QED
    BY <2>5 DEF Index, a, b
<1>6. TotalOf(points) = Total(these) /\ CountOf(points) = Cardinality(these)
  <2>1. these = MonthsOf(S, Index(today) - n + 1, Index(today))
    <3>1. Index(today) = 12 * today.y + today.m /\ \A i \in S : Index(i.date) = 12 * i.date.y + i.date.m
      BY DEF Index
    <3>2. these = {i \in S : Index(i.date) \in (Index(today) - n + 1)..Index(today)}
      <4>1. last = Index(today) /\ oldest = Index(today) - n + 1
        BY <3>1
      <4> HIDE DEF last, oldest
      <4>2. \A i \in S : 12 * i.date.y + i.date.m \in oldest..last
                         <=> Index(i.date) \in (Index(today) - n + 1)..Index(today)
        BY <3>1, <4>1
      <4>3. QED
        BY <4>2
    <3>3. QED
      BY <3>2 DEF MonthsOf
  <2> HIDE DEF these, points
  <2>2. QED
    BY <1>2, <2>1, FlowAddsUp DEF points
<1>7. QED
  <2>1. \A k \in 2..n : 12 * points[k - 1].month.y + points[k - 1].month.m + 1
                        = 12 * points[k].month.y + points[k].month.m
    BY <1>5
  <2> DEFINE first == 12 * today.y + today.m - n + 1
             all == {i \in S : 12 * i.date.y + i.date.m \in first..last}
  <2>2. these = all
    <3>1. first = oldest
      BY <1>2, <1>3
    <3> HIDE DEF first, oldest, last
    <3>2. QED
      BY <3>1
  <2>3. TotalOf(points) = Total(all) /\ CountOf(points) = Cardinality(all)
    <3> HIDE DEF points, these, all
    <3> QED BY <1>6, <2>2
  <2> HIDE DEF oldest, these
  <2>4. QED
    BY <1>4, <2>1, <2>3 DEF CashflowIsComplete, TotalOf, CountOf, n, S, today

\* The VAT is that of the months.
LEMMA VatIsComplete == (On("cash flow") => Flow(In)) => VatIsOfTheMonths
<1>1. SUFFICES ASSUME On("cash flow"), Flow(In) PROVE VatIsOfTheMonths
  BY DEF VatIsOfTheMonths
<1>2. Kpis(In.invoices, In.today).vat = TaxesOf(In.invoices, In.today)
  BY <1>1, VatAddsUp DEF Flow
<1>3. QED
  BY <1>2 DEF VatIsOfTheMonths, TaxesOf, QuarterMonths, Taxed

\* What is settled is what the open invoices leave of the number and the total.
LEMMA OpenIsComplete == (On("cash flow") => Flow(In)) => OpenIsTheRest
<1>1. SUFFICES ASSUME On("cash flow"), Flow(In) PROVE OpenIsTheRest
  BY DEF OpenIsTheRest
<1> DEFINE S == In.invoices
           open == Open(S)
           settled == {i \in S : i.booked /\ i.reviewed}
           w == [i \in S |-> i.total]
<1>2. IsFiniteSet(S) /\ S \subseteq Entry
  BY <1>1 DEF Flow
<1>3. /\ open \in SUBSET S /\ settled \in SUBSET S
      /\ open \cup settled = S /\ open \cap settled = {}
  BY <1>2 DEF Open
<1>4. w \in [S -> Int] /\ \A i \in S : i.total = w[i]
  BY <1>2 DEF Entry
<1>5. /\ Kpis(S, In.today).count = Cardinality(open)
      /\ Kpis(S, In.today).total = Total(open)
  BY DEF Kpis
<1> HIDE DEF S, open, settled, w
<1>6. PICK g : Summing(g, S, w)
  BY <1>2, <1>4, SumsExist
<1>7. Total(open) = g[open] /\ Total(settled) = g[settled] /\ Total(S) = g[S]
  <2>1. S \in SUBSET S
    OBVIOUS
  <2>2. QED
    BY <1>3, <1>4, <1>6, <2>1, TotalIsSum
<1>8. g[S] = g[open] + g[settled]
  <2>1. g[open \cup settled] = g[open] + g[settled]
    <3>1. open \in SUBSET S /\ settled \in SUBSET S /\ open \cap settled = {}
      BY <1>3
    <3>2. QED
      BY <1>6, <3>1, SumOfBoth
  <2>2. QED
    BY <1>3, <2>1
<1>9. Cardinality(S) = Cardinality(open) + Cardinality(settled)
  <2>1. IsFiniteSet(open) /\ IsFiniteSet(settled)
    BY <1>2, <1>3, FS_Subset
  <2>2. /\ Cardinality(open \cup settled)
           = Cardinality(open) + Cardinality(settled) - Cardinality(open \cap settled)
    BY <2>1, FS_Union
  <2>3. Cardinality(open \cap settled) = 0
    BY <1>3, FS_EmptySet
  <2>4. Cardinality(open) \in Nat /\ Cardinality(settled) \in Nat
    BY <2>1, FS_CardinalityType
  <2>5. QED
    BY <1>3, <2>2, <2>3, <2>4
<1>10. /\ Kpis(S, In.today).count + Cardinality(settled) = Cardinality(S)
       /\ Kpis(S, In.today).total + Total(settled) = Total(S)
  BY <1>5, <1>7, <1>8, <1>9
<1>11. QED
  BY <1>10 DEF OpenIsTheRest, S, settled

\* The alerts, and those that lead, are right.
LEMMA BookIsRight == (On("alerts") => Book(In)) => AlertsAreRight /\ UnusualNeedsHistory /\ TopIsMost
<1>1. SUFFICES ASSUME On("alerts"), Book(In) PROVE AlertsAreRight /\ UnusualNeedsHistory /\ TopIsMost
  BY DEF AlertsAreRight, UnusualNeedsHistory, TopIsMost
<1> DEFINE S == In.invoices
           today == In.today
<1>2. IsFiniteSet(S) /\ S \subseteq Charge
  BY <1>1 DEF Book
<1>3. {Factor, HighValue, MaxUnusual, MaxHighValue, MaxGroups, MaxAlerts} \subseteq Nat
  BY InputsAssumption, Zenon
<1> HIDE DEF S, today
<1>4. ASSUME NEW shown \in Alerts(S, today)
      PROVE  /\ shown \subseteq Due(S, today) /\ Cardinality(shown) <= MaxAlerts
             /\ (/\ Cardinality(Due(S, today)) <= MaxAlerts
                 /\ Cardinality(Striking(S, today)) <= MaxUnusual /\ Cardinality(Doubled(S)) <= MaxGroups
                 /\ Cardinality({i \in S : i.total > HighValue}) <= MaxHighValue) => shown = Due(S, today)
  BY <1>2, <1>3, AlertsShown
<1>5. AlertsAreRight
  BY <1>4, Zenon DEF AlertsAreRight, Due, AlertsFor, Striking, Alone, Doubled, AlikeIn, S, today
<1>6. UnusualNeedsHistory
  <2>1. Factor \in Nat
    BY <1>3
  <2>2. (\A i \in S : i.total >= 0) =>
          \A i \in Unusual(S, today) \cap Recent(S, today) : Cardinality(Recent(S, today)) > Factor
    BY <1>2, <2>1, UnusualHasHistory
  <2>3. QED
    BY <2>2 DEF UnusualNeedsHistory, S, today
<1>7. TopIsMost
  <2> DEFINE n == In.limit
  <2>1. n \in Nat \ {0}
    BY <1>1 DEF Book
  <2> HIDE DEF n
  <2>2. ASSUME NEW top \in TopVendors(S, n)
        PROVE  LET V == Vendors(S)
                   shown == {r.vendor : r \in top}
               IN  /\ Cardinality(top) = Min({n, Cardinality(V)})
                   /\ \A r \in top : r.total = Total(Of(S, r.vendor))
                   /\ \A v \in V \ shown :
                          Cardinality({w \in V \ {v} : Total(Of(S, w)) >= Total(Of(S, v))}) >= n
                   /\ \A v \in shown : Cardinality({w \in V : Total(Of(S, w)) > Total(Of(S, v))}) < n
    BY <1>2, <2>1, TopsAreMost
  <2>3. ASSUME NEW shown \in RecentActivity(S, n)
        PROVE  /\ \A i \in S \ shown : Cardinality({j \in S \ {i} : j.updated >= i.updated}) >= n
               /\ \A i \in shown : Cardinality({j \in S : j.updated > i.updated}) < n
    BY <1>2, <2>1, LastChangesLead
  <2>4. QED
    BY <2>2, <2>3, Zenon DEF TopIsMost, Turnover, S, n
<1>8. QED
  BY <1>5, <1>6, <1>7

-----------------------------------------------------------------------------
(* Distances.                                                              *)

\* A cell is the least that the cells above, to the left and at the corner allow.
IsLeast(x, above, left, corner, cost) ==
    /\ x <= above + 1 /\ x <= left + 1 /\ x <= corner + cost
    /\ x = above + 1 \/ x = left + 1 \/ x = corner + cost

\* A row of the table, and what the next one holds.
Cost(l, r) == IF l = r THEN 0 ELSE 1
Cells(n) == [1..(n + 1) -> Nat]
Next(p, l, v, q) ==
    /\ q[1] = p[1] + 1
    /\ \A j \in 1..Len(v) : IsLeast(q[j + 1], p[j + 1], q[j], p[j], Cost(l, v[j]))

\* The rows of a table, from no letter of u on.
RowsOf(u, v) ==
    {h \in [0..Len(u) -> Cells(Len(v))] :
        /\ h[0] = [j \in 1..(Len(v) + 1) |-> j - 1]
        /\ \A i \in 1..Len(u) : Next(h[i - 1], u[i], v, h[i])}

\* Cells of two rows that differ by one at most.
Close(p, q, n) == \A j \in 1..(n + 1) : p[j] <= q[j] + 1 /\ q[j] <= p[j] + 1
\* A row whose cells side by side differ by one at most.
Smooth(p, n) == \A j \in 1..n : p[j] <= p[j + 1] + 1 /\ p[j + 1] <= p[j] + 1

\* A property of all cells of a row, from the first one on.
LEMMA AllCells ==
    ASSUME NEW n \in Nat, NEW T, 1 \in T, \A j \in 1..n : j \in T => j + 1 \in T
    PROVE  \A j \in 1..(n + 1) : j \in T
<1> DEFINE S == {k \in 0..n : k + 1 \in T}
<1>1. 0 \in S
  OBVIOUS
<1>2. ASSUME NEW k \in 1..n, k - 1 \in S PROVE k \in S
  <2>1. (k - 1) + 1 = k /\ k \in 0..n /\ k \in T
    BY <1>2
  <2>2. QED
    BY <2>1
<1>3. 0..n \subseteq S
  <2> HIDE DEF S
  <2> QED BY <1>1, <1>2, Climb
<1>4. ASSUME NEW j \in 1..(n + 1) PROVE j \in T
  <2>1. j - 1 \in 0..n /\ (j - 1) + 1 = j
    OBVIOUS
  <2>2. QED
    BY <1>3, <2>1
<1>5. QED
  BY <1>4

\* What the cells of a row are computed from.
LEMMA CellsOf ==
    ASSUME NEW v \in Seq(STRING), NEW p \in Cells(Len(v)), NEW q \in Cells(Len(v)), NEW l,
           Next(p, l, v, q), NEW j \in 1..Len(v)
    PROVE  /\ p[j] \in Nat /\ p[j + 1] \in Nat /\ q[j] \in Nat /\ q[j + 1] \in Nat
           /\ Cost(l, v[j]) \in {0, 1}
           /\ IsLeast(q[j + 1], p[j + 1], q[j], p[j], Cost(l, v[j]))
<1>1. Len(v) \in Nat /\ j \in 1..(Len(v) + 1) /\ j + 1 \in 1..(Len(v) + 1)
  OBVIOUS
<1>2. p[j] \in Nat /\ p[j + 1] \in Nat /\ q[j] \in Nat /\ q[j + 1] \in Nat
  BY <1>1 DEF Cells
<1>3. QED
  BY <1>2 DEF Next, IsLeast, Cost

\* A cell is close to those around it if these are close.
LEMMA LeastIsAround ==
    ASSUME NEW left \in Nat, NEW above \in Nat, NEW corner \in Nat, NEW x \in Nat, NEW c \in {0, 1},
           IsLeast(x, above, left, corner, c),
           corner <= above + 1, above <= corner + 1, corner <= left + 1, left <= corner + 1
    PROVE  x <= above + 1 /\ above <= x + 1 /\ x <= left + 1 /\ left <= x + 1
BY DEF IsLeast

\* Close rows are followed by close ones.
LEMMA NextIsClose ==
    ASSUME NEW v \in Seq(STRING), NEW n, n = Len(v), NEW l,
           NEW p \in Cells(n), NEW q \in Cells(n), NEW r \in Cells(n), NEW s \in Cells(n),
           Close(p, q, n), Next(p, l, v, r), Next(q, l, v, s)
    PROVE  Close(r, s, n)
<1> DEFINE T == {j \in 1..(n + 1) : r[j] <= s[j] + 1 /\ s[j] <= r[j] + 1}
<1>0. n \in Nat
  OBVIOUS
<1>1. 1 \in T
  <2>1. 1 \in 1..(n + 1) /\ p[1] \in Nat /\ q[1] \in Nat
    BY <1>0 DEF Cells
  <2>2. r[1] = p[1] + 1 /\ s[1] = q[1] + 1 /\ p[1] <= q[1] + 1 /\ q[1] <= p[1] + 1
    BY <2>1 DEF Next, Close
  <2>3. QED
    BY <2>1, <2>2
<1>2. ASSUME NEW j \in 1..n, j \in T PROVE j + 1 \in T
  <2> DEFINE c == Cost(l, v[j])
             p1 == p[j]
             p2 == p[j + 1]
             q1 == q[j]
             q2 == q[j + 1]
             r1 == r[j]
             r2 == r[j + 1]
             s1 == s[j]
             s2 == s[j + 1]
  <2>1. /\ p1 \in Nat /\ p2 \in Nat /\ r1 \in Nat /\ r2 \in Nat /\ c \in {0, 1}
        /\ IsLeast(r2, p2, r1, p1, c)
    BY CellsOf
  <2>2. /\ q1 \in Nat /\ q2 \in Nat /\ s1 \in Nat /\ s2 \in Nat
        /\ IsLeast(s2, q2, s1, q1, c)
    BY CellsOf
  <2>3. /\ j \in 1..(n + 1) /\ j + 1 \in 1..(n + 1)
        /\ p1 <= q1 + 1 /\ q1 <= p1 + 1 /\ p2 <= q2 + 1 /\ q2 <= p2 + 1
        /\ r1 <= s1 + 1 /\ s1 <= r1 + 1
    BY <1>0, <1>2 DEF Close
  <2>4. r2 <= s2 + 1 /\ s2 <= r2 + 1
    <3> HIDE DEF c, p1, p2, q1, q2, r1, r2, s1, s2
    <3> QED BY <2>1, <2>2, <2>3 DEF IsLeast
  <2>5. QED
    BY <2>3, <2>4
<1>3. \A j \in 1..(n + 1) : j \in T
  <2> HIDE DEF T
  <2> QED BY <1>0, <1>1, <1>2, AllCells
<1>4. QED
  BY <1>3 DEF Close

\* Another letter makes rows close.
LEMMA OtherIsClose ==
    ASSUME NEW v \in Seq(STRING), NEW n, n = Len(v), NEW l, NEW m,
           NEW p \in Cells(n), NEW r \in Cells(n), NEW s \in Cells(n),
           Next(p, l, v, r), Next(p, m, v, s)
    PROVE  Close(r, s, n)
<1> DEFINE T == {j \in 1..(n + 1) : r[j] <= s[j] + 1 /\ s[j] <= r[j] + 1}
<1>0. n \in Nat
  OBVIOUS
<1>1. 1 \in T
  <2>1. 1 \in 1..(n + 1) /\ p[1] \in Nat
    BY <1>0 DEF Cells
  <2>2. r[1] = p[1] + 1 /\ s[1] = p[1] + 1
    BY DEF Next
  <2>3. QED
    BY <2>1, <2>2
<1>2. ASSUME NEW j \in 1..n, j \in T PROVE j + 1 \in T
  <2> DEFINE c == Cost(l, v[j])
             d == Cost(m, v[j])
             p1 == p[j]
             p2 == p[j + 1]
             r1 == r[j]
             r2 == r[j + 1]
             s1 == s[j]
             s2 == s[j + 1]
  <2>1. /\ p1 \in Nat /\ p2 \in Nat /\ r1 \in Nat /\ r2 \in Nat /\ c \in {0, 1}
        /\ IsLeast(r2, p2, r1, p1, c)
    BY CellsOf
  <2>2. /\ s1 \in Nat /\ s2 \in Nat /\ d \in {0, 1}
        /\ IsLeast(s2, p2, s1, p1, d)
    BY CellsOf
  <2>3. j + 1 \in 1..(n + 1) /\ r1 <= s1 + 1 /\ s1 <= r1 + 1
    BY <1>0, <1>2
  <2>4. r2 <= s2 + 1 /\ s2 <= r2 + 1
    <3> HIDE DEF c, d, p1, p2, r1, r2, s1, s2
    <3> QED BY <2>1, <2>2, <2>3 DEF IsLeast
  <2>5. QED
    BY <2>3, <2>4
<1>3. \A j \in 1..(n + 1) : j \in T
  <2> HIDE DEF T
  <2> QED BY <1>0, <1>1, <1>2, AllCells
<1>4. QED
  BY <1>3 DEF Close

\* A smooth row is followed by a smooth one that is close to it.
LEMMA NextIsSmooth ==
    ASSUME NEW v \in Seq(STRING), NEW n, n = Len(v), NEW l,
           NEW p \in Cells(n), NEW q \in Cells(n), Smooth(p, n), Next(p, l, v, q)
    PROVE  Smooth(q, n) /\ Close(p, q, n)
<1> DEFINE T == {j \in 1..(n + 1) : p[j] <= q[j] + 1 /\ q[j] <= p[j] + 1}
<1>0. n \in Nat
  OBVIOUS
<1>1. 1 \in T
  <2>1. 1 \in 1..(n + 1) /\ p[1] \in Nat
    BY <1>0 DEF Cells
  <2>2. q[1] = p[1] + 1
    BY DEF Next
  <2>3. QED
    BY <2>1, <2>2
<1>2. ASSUME NEW j \in 1..n, j \in T
      PROVE  j + 1 \in T /\ q[j] <= q[j + 1] + 1 /\ q[j + 1] <= q[j] + 1
  <2> DEFINE c == Cost(l, v[j])
             p1 == p[j]
             p2 == p[j + 1]
             q1 == q[j]
             q2 == q[j + 1]
  <2>1. /\ p1 \in Nat /\ p2 \in Nat /\ q1 \in Nat /\ q2 \in Nat /\ c \in {0, 1}
        /\ IsLeast(q2, p2, q1, p1, c)
    BY CellsOf
  <2>2. /\ p1 <= p2 + 1 /\ p2 <= p1 + 1 /\ j + 1 \in 1..(n + 1)
        /\ p1 <= q1 + 1 /\ q1 <= p1 + 1
    BY <1>0, <1>2 DEF Smooth
  <2>3. /\ p2 <= q2 + 1 /\ q2 <= p2 + 1
        /\ q1 <= q2 + 1 /\ q2 <= q1 + 1
    <3> HIDE DEF c, p1, p2, q1, q2
    <3> QED BY <2>1, <2>2, LeastIsAround
  <2>4. QED
    BY <2>2, <2>3
<1>3. \A j \in 1..(n + 1) : j \in T
  <2> HIDE DEF T
  <2> QED BY <1>0, <1>1, <1>2, AllCells
<1>4. \A j \in 1..n : j \in T /\ q[j] <= q[j + 1] + 1 /\ q[j + 1] <= q[j] + 1
  <2>1. \A j \in 1..n : j \in 1..(n + 1)
    BY <1>0
  <2> HIDE DEF T
  <2>2. QED
    BY <1>2, <1>3, <2>1
<1>5. QED
  BY <1>3, <1>4 DEF Close, Smooth

\* A row is followed by one row.
LEMMA NextIsOne ==
    ASSUME NEW v \in Seq(STRING), NEW n, n = Len(v), NEW l,
           NEW p \in Cells(n), NEW r \in Cells(n), NEW s \in Cells(n),
           Next(p, l, v, r), Next(p, l, v, s)
    PROVE  r = s
<1> DEFINE T == {j \in 1..(n + 1) : r[j] = s[j]}
<1>0. n \in Nat
  OBVIOUS
<1>1. 1 \in T
  BY <1>0 DEF Next
<1>2. ASSUME NEW j \in 1..n, j \in T PROVE j + 1 \in T
  <2> DEFINE c == Cost(l, v[j])
             p1 == p[j]
             p2 == p[j + 1]
             r1 == r[j]
             r2 == r[j + 1]
             s1 == s[j]
             s2 == s[j + 1]
  <2>1. /\ p1 \in Nat /\ p2 \in Nat /\ r1 \in Nat /\ r2 \in Nat /\ c \in {0, 1}
        /\ IsLeast(r2, p2, r1, p1, c)
    BY CellsOf
  <2>2. /\ s1 \in Nat /\ s2 \in Nat
        /\ IsLeast(s2, p2, s1, p1, c)
    BY CellsOf
  <2>3. j + 1 \in 1..(n + 1) /\ r1 = s1
    BY <1>0, <1>2
  <2>4. r2 = s2
    <3> HIDE DEF c, p1, p2, r1, r2, s1, s2
    <3> QED BY <2>1, <2>2, <2>3 DEF IsLeast
  <2>5. QED
    BY <2>3, <2>4
<1>3. \A j \in 1..(n + 1) : j \in T
  <2> HIDE DEF T
  <2> QED BY <1>0, <1>1, <1>2, AllCells
<1>4. QED
  BY <1>3 DEF Cells

\* Every row is smooth.
LEMMA RowsAreSmooth ==
    ASSUME NEW u \in Seq(STRING), NEW v \in Seq(STRING), NEW h \in RowsOf(u, v)
    PROVE  \A i \in 0..Len(u) : h[i] \in Cells(Len(v)) /\ Smooth(h[i], Len(v))
<1> DEFINE m == Len(u)
           n == Len(v)
           T == {i \in 0..m : Smooth(h[i], n)}
<1>0. m \in Nat /\ n \in Nat /\ h \in [0..m -> Cells(n)]
  BY DEF RowsOf
<1>1. 0 \in T
  <2>1. h[0] = [j \in 1..(n + 1) |-> j - 1]
    BY DEF RowsOf
  <2>2. ASSUME NEW j \in 1..n PROVE h[0][j] = j - 1 /\ h[0][j + 1] = j
    <3>1. j \in 1..(n + 1) /\ j + 1 \in 1..(n + 1) /\ (j + 1) - 1 = j
      BY <1>0
    <3>2. QED
      BY <2>1, <3>1
  <2>3. QED
    BY <1>0, <2>2 DEF Smooth
<1>2. ASSUME NEW i \in 1..m, i - 1 \in T PROVE i \in T
  <2>1. i \in 0..m /\ i - 1 \in 0..m
    BY <1>0
  <2>2. h[i - 1] \in Cells(n) /\ h[i] \in Cells(n) /\ Smooth(h[i - 1], n)
    BY <1>0, <1>2, <2>1
  <2>3. Next(h[i - 1], u[i], v, h[i])
    BY DEF RowsOf
  <2>4. Smooth(h[i], n)
    BY <2>2, <2>3, NextIsSmooth
  <2>5. QED
    BY <2>1, <2>4
<1>3. 0..m \subseteq T
  <2> HIDE DEF T, m
  <2> QED BY <1>0, <1>1, <1>2, Climb
<1>4. QED
  BY <1>0, <1>3

\* Words that begin alike have the same first rows.
LEMMA SameRows ==
    ASSUME NEW u \in Seq(STRING), NEW x \in Seq(STRING), NEW v \in Seq(STRING),
           NEW h \in RowsOf(u, v), NEW g \in RowsOf(x, v),
           NEW k \in Nat, k <= Len(u), k <= Len(x), \A i \in 1..k : u[i] = x[i]
    PROVE  h[k] = g[k]
<1> DEFINE n == Len(v)
           T == {i \in 0..k : h[i] = g[i]}
<1>0. n \in Nat /\ h \in [0..Len(u) -> Cells(n)] /\ g \in [0..Len(x) -> Cells(n)]
  BY DEF RowsOf
<1>1. 0 \in T
  BY DEF RowsOf
<1>2. ASSUME NEW i \in 1..k, i - 1 \in T PROVE i \in T
  <2>1. /\ i \in 1..Len(u) /\ i \in 1..Len(x) /\ i \in 0..k
        /\ i - 1 \in 0..Len(u) /\ i \in 0..Len(u) /\ i \in 0..Len(x)
    OBVIOUS
  <2>2. Next(h[i - 1], u[i], v, h[i]) /\ Next(g[i - 1], x[i], v, g[i])
    BY <2>1 DEF RowsOf
  <2>3. h[i - 1] \in Cells(n) /\ h[i] \in Cells(n) /\ g[i] \in Cells(n) /\ h[i - 1] = g[i - 1] /\ u[i] = x[i]
    BY <1>0, <1>2, <2>1
  <2>4. h[i] = g[i]
    <3>1. Next(h[i - 1], u[i], v, g[i])
      BY <2>2, <2>3
    <3>2. QED
      BY <2>2, <2>3, <3>1, NextIsOne
  <2>5. QED
    BY <2>1, <2>4
<1>3. 0..k \subseteq T
  <2> HIDE DEF T
  <2> QED BY <1>1, <1>2, Climb
<1>4. QED
  BY <1>3

\* Words that end with the same k letters, after a and b.
EndAlike(u, a, x, b, k) == a + k = Len(u) /\ b + k = Len(x) /\ \A i \in 1..k : u[a + i] = x[b + i]

\* Words that end alike have close last rows if rows were close before.
LEMMA CloseRows ==
    ASSUME NEW u \in Seq(STRING), NEW x \in Seq(STRING), NEW v \in Seq(STRING),
           NEW h \in RowsOf(u, v), NEW g \in RowsOf(x, v),
           NEW a \in Nat, NEW b \in Nat, NEW k \in Nat, EndAlike(u, a, x, b, k),
           Close(h[a], g[b], Len(v))
    PROVE  Close(h[Len(u)], g[Len(x)], Len(v))
<1> DEFINE n == Len(v)
           T == {i \in 0..k : Close(h[a + i], g[b + i], n)}
<1>0. /\ n \in Nat /\ h \in [0..Len(u) -> Cells(n)] /\ g \in [0..Len(x) -> Cells(n)]
      /\ a + k = Len(u) /\ b + k = Len(x) /\ \A i \in 1..k : u[a + i] = x[b + i]
  BY DEF RowsOf, EndAlike
<1>1. 0 \in T
  OBVIOUS
<1>2. ASSUME NEW i \in 1..k, i - 1 \in T PROVE i \in T
  <2>1. /\ a + i \in 1..Len(u) /\ b + i \in 1..Len(x) /\ i \in 0..k
        /\ a + i \in 0..Len(u) /\ b + i \in 0..Len(x)
        /\ (a + i) - 1 = a + (i - 1) /\ (b + i) - 1 = b + (i - 1)
        /\ a + (i - 1) \in 0..Len(u) /\ b + (i - 1) \in 0..Len(x)
    BY <1>0
  <2>2. Next(h[a + (i - 1)], u[a + i], v, h[a + i]) /\ Next(g[b + (i - 1)], x[b + i], v, g[b + i])
    <3>1. Next(h[(a + i) - 1], u[a + i], v, h[a + i]) /\ Next(g[(b + i) - 1], x[b + i], v, g[b + i])
      BY <2>1 DEF RowsOf
    <3>2. QED
      BY <2>1, <3>1
  <2>3. /\ h[a + (i - 1)] \in Cells(n) /\ h[a + i] \in Cells(n)
        /\ g[b + (i - 1)] \in Cells(n) /\ g[b + i] \in Cells(n)
        /\ u[a + i] = x[b + i]
    BY <1>0, <2>1
  <2>4. Close(h[a + (i - 1)], g[b + (i - 1)], n)
    BY <1>2
  <2>5. Close(h[a + i], g[b + i], n)
    <3>1. Next(g[b + (i - 1)], u[a + i], v, g[b + i])
      BY <2>2, <2>3
    <3> DEFINE p == h[a + (i - 1)]
               q == g[b + (i - 1)]
               r == h[a + i]
               s == g[b + i]
               c == u[a + i]
    <3>2. /\ Next(p, c, v, r) /\ Next(q, c, v, s) /\ Close(p, q, n)
          /\ p \in Cells(n) /\ q \in Cells(n) /\ r \in Cells(n) /\ s \in Cells(n)
      BY <2>2, <2>3, <2>4, <3>1
    <3> HIDE DEF p, q, r, s, c
    <3>3. Close(r, s, Len(v))
      BY <3>2, NextIsClose
    <3>4. QED
      BY <3>3 DEF r, s
  <2>6. QED
    BY <2>1, <2>5
<1>3. 0..k \subseteq T
  <2> HIDE DEF T
  <2> QED BY <1>1, <1>2, Climb
<1>4. Close(h[a + k], g[b + k], n)
  <2>1. k \in 0..k
    OBVIOUS
  <2>2. k \in T
    BY <1>3, <2>1
  <2>3. QED
    BY <2>2
<1>5. QED
  BY <1>0, <1>4

-----------------------------------------------------------------------------
(* Edits.                                                                  *)

Letter == STRING
Words == Seq(Letter)
Deleted(w, n) == SubSeq(w, 1, n) \o SubSeq(w, n + 2, Len(w))
Inserted(w, n, c) == SubSeq(w, 1, n) \o <<c>> \o SubSeq(w, n + 1, Len(w))
Swapped(w, n, c) == SubSeq(w, 1, n) \o <<c>> \o SubSeq(w, n + 2, Len(w))

\* The parts of a word.
LEMMA PartOfWord ==
    ASSUME NEW w \in Words, NEW a \in Nat, NEW b \in Nat, 1 <= a, a <= b + 1, b <= Len(w)
    PROVE  /\ SubSeq(w, a, b) \in Words /\ Len(SubSeq(w, a, b)) = b - a + 1
           /\ \A i \in 1..(b - a + 1) : SubSeq(w, a, b)[i] = w[a + i - 1]
BY DEF Words

\* Two parts one after the other.
LEMMA PartsOf ==
    ASSUME NEW p \in Words, NEW q \in Words
    PROVE  /\ p \o q \in Words /\ Len(p \o q) = Len(p) + Len(q)
           /\ \A i \in 1..Len(p) : (p \o q)[i] = p[i]
           /\ \A i \in 1..Len(q) : (p \o q)[Len(p) + i] = q[i]
BY DEF Words

\* Words of the same letters are the same.
LEMMA SameWord ==
    ASSUME NEW p \in Words, NEW q \in Words, Len(p) = Len(q), \A i \in 1..Len(p) : p[i] = q[i]
    PROVE  p = q
BY DEF Words

\* What is left when a letter is deleted.
LEMMA DeletedIs ==
    ASSUME NEW w \in Words, NEW n \in 0..(Len(w) - 1)
    PROVE  /\ Deleted(w, n) \in Words /\ Len(Deleted(w, n)) = Len(w) - 1
           /\ \A i \in 1..n : Deleted(w, n)[i] = w[i]
           /\ \A i \in 1..(Len(w) - n - 1) : Deleted(w, n)[n + i] = w[n + 1 + i]
<1> DEFINE p == SubSeq(w, 1, n)
           q == SubSeq(w, n + 2, Len(w))
<1>0. Len(w) \in Nat /\ n \in Nat /\ n + 2 \in Nat /\ n <= Len(w)
  BY DEF Words
<1>1. p \in Words /\ Len(p) = n /\ \A i \in 1..n : p[i] = w[i]
  <2>1. /\ p \in Words /\ Len(p) = n - 1 + 1
        /\ \A i \in 1..(n - 1 + 1) : p[i] = w[1 + i - 1]
    BY <1>0, PartOfWord
  <2>2. n - 1 + 1 = n /\ \A i \in 1..n : 1 + i - 1 = i
    BY <1>0
  <2>3. QED
    BY <2>1, <2>2
<1>2. q \in Words /\ Len(q) = Len(w) - n - 1 /\ \A i \in 1..(Len(w) - n - 1) : q[i] = w[n + 1 + i]
  <2>1. /\ q \in Words /\ Len(q) = Len(w) - (n + 2) + 1
        /\ \A i \in 1..(Len(w) - (n + 2) + 1) : q[i] = w[(n + 2) + i - 1]
    BY <1>0, PartOfWord
  <2>2. Len(w) - (n + 2) + 1 = Len(w) - n - 1
    BY <1>0
  <2>3. ASSUME NEW i \in 1..(Len(w) - n - 1) PROVE (n + 2) + i - 1 = n + 1 + i
    BY <1>0
  <2>4. QED
    BY <2>1, <2>2, <2>3
<1>3. Deleted(w, n) = p \o q
  BY DEF Deleted
<1> DEFINE x == p \o q
<1> HIDE DEF p, q
<1>4. /\ x \in Words /\ Len(x) = Len(p) + Len(q)
      /\ \A i \in 1..Len(p) : x[i] = p[i]
      /\ \A i \in 1..Len(q) : x[Len(p) + i] = q[i]
  BY <1>1, <1>2, PartsOf
<1> HIDE DEF x
<1>5. Len(x) = Len(w) - 1
  BY <1>0, <1>1, <1>2, <1>4
<1>6. (\A i \in 1..n : x[i] = w[i]) /\ \A i \in 1..(Len(w) - n - 1) : x[n + i] = w[n + 1 + i]
  BY <1>1, <1>2, <1>4
<1>7. QED
  BY <1>3, <1>4, <1>5, <1>6 DEF x

\* A letter between two parts.
Joined(w, n, m, c) == SubSeq(w, 1, n) \o <<c>> \o SubSeq(w, m + 1, Len(w))

\* A word with a letter between two of its parts.
LEMMA Between ==
    ASSUME NEW w \in Words, NEW n \in 0..Len(w), NEW c \in Letter, NEW m \in n..Len(w)
    PROVE  /\ Joined(w, n, m, c) \in Words /\ Len(Joined(w, n, m, c)) = n + 1 + (Len(w) - m)
           /\ \A i \in 1..n : Joined(w, n, m, c)[i] = w[i]
           /\ Joined(w, n, m, c)[n + 1] = c
           /\ \A i \in 1..(Len(w) - m) : Joined(w, n, m, c)[n + 1 + i] = w[m + i]
<1> DEFINE p == SubSeq(w, 1, n)
           q == SubSeq(w, m + 1, Len(w))
<1>0. Len(w) \in Nat /\ n \in Nat /\ m \in Nat /\ n <= Len(w) /\ m + 1 \in Nat /\ m <= Len(w)
  BY DEF Words
<1>1. p \in Words /\ Len(p) = n /\ \A i \in 1..n : p[i] = w[i]
  <2>1. /\ p \in Words /\ Len(p) = n - 1 + 1
        /\ \A i \in 1..(n - 1 + 1) : p[i] = w[1 + i - 1]
    BY <1>0, PartOfWord
  <2>2. n - 1 + 1 = n /\ \A i \in 1..n : 1 + i - 1 = i
    BY <1>0
  <2>3. QED
    BY <2>1, <2>2
<1>2. q \in Words /\ Len(q) = Len(w) - m /\ \A i \in 1..(Len(w) - m) : q[i] = w[m + i]
  <2>1. /\ q \in Words /\ Len(q) = Len(w) - (m + 1) + 1
        /\ \A i \in 1..(Len(w) - (m + 1) + 1) : q[i] = w[(m + 1) + i - 1]
    BY <1>0, PartOfWord
  <2>2. Len(w) - (m + 1) + 1 = Len(w) - m
    BY <1>0
  <2>3. ASSUME NEW i \in 1..(Len(w) - m) PROVE (m + 1) + i - 1 = m + i
    BY <1>0
  <2>4. QED
    BY <2>1, <2>2, <2>3
<1> DEFINE l == <<c>>
           r == p \o l
<1>3. l \in Words /\ Len(l) = 1 /\ l[1] = c
  BY DEF Words
<1>4. Joined(w, n, m, c) = r \o q
  BY DEF Joined
<1> HIDE DEF p, q, l
<1>5. /\ r \in Words /\ Len(r) = n + 1
      /\ \A i \in 1..n : r[i] = p[i]
      /\ r[n + 1] = c
  <2>1. /\ r \in Words /\ Len(r) = Len(p) + Len(l)
        /\ \A i \in 1..Len(p) : r[i] = p[i]
        /\ \A i \in 1..Len(l) : r[Len(p) + i] = l[i]
    BY <1>1, <1>3, PartsOf
  <2>2. QED
    BY <1>0, <1>1, <1>3, <2>1
<1> HIDE DEF r
<1> DEFINE z == r \o q
<1>6. /\ z \in Words /\ Len(z) = Len(r) + Len(q)
      /\ \A i \in 1..Len(r) : z[i] = r[i]
      /\ \A i \in 1..Len(q) : z[Len(r) + i] = q[i]
  BY <1>2, <1>5, PartsOf
<1>7. Joined(w, n, m, c) = z
  BY <1>4
<1> HIDE DEF z
<1>8. \A i \in 1..n : i \in 1..(n + 1)
  BY <1>0
<1>9. n + 1 \in 1..(n + 1)
  BY <1>0
<1>10. Len(z) = n + 1 + (Len(w) - m)
  BY <1>0, <1>2, <1>5, <1>6
<1>11. (\A i \in 1..n : z[i] = w[i]) /\ z[n + 1] = c
  BY <1>1, <1>5, <1>6, <1>8, <1>9
<1>12. \A i \in 1..(Len(w) - m) : z[n + 1 + i] = w[m + i]
  BY <1>2, <1>5, <1>6
<1>13. QED
  BY <1>6, <1>7, <1>10, <1>11, <1>12

\* What results when a letter is inserted, or put for another.
LEMMA InsertedIs ==
    ASSUME NEW w \in Words, NEW n \in 0..Len(w), NEW c \in Letter
    PROVE  /\ Inserted(w, n, c) \in Words /\ Len(Inserted(w, n, c)) = Len(w) + 1
           /\ \A i \in 1..n : Inserted(w, n, c)[i] = w[i]
           /\ Inserted(w, n, c)[n + 1] = c
           /\ \A i \in 1..(Len(w) - n) : Inserted(w, n, c)[n + 1 + i] = w[n + i]
<1> DEFINE x == Inserted(w, n, c)
<1>0. Len(w) \in Nat /\ n \in Nat
  BY DEF Words
<1>1. x = Joined(w, n, n, c) /\ n \in n..Len(w)
  BY <1>0 DEF Inserted, Joined
<1> HIDE DEF x
<1>2. /\ x \in Words /\ Len(x) = n + 1 + (Len(w) - n)
      /\ \A i \in 1..n : x[i] = w[i]
      /\ x[n + 1] = c
      /\ \A i \in 1..(Len(w) - n) : x[n + 1 + i] = w[n + i]
  BY <1>1, Between
<1>3. n + 1 + (Len(w) - n) = Len(w) + 1
  BY <1>0
<1>4. QED
  BY <1>2, <1>3 DEF x

\* What comes of a letter in the place of another.
LEMMA SwappedIs ==
    ASSUME NEW w \in Words, NEW n \in 0..(Len(w) - 1), NEW c \in Letter
    PROVE  /\ Swapped(w, n, c) \in Words /\ Len(Swapped(w, n, c)) = Len(w)
           /\ \A i \in 1..n : Swapped(w, n, c)[i] = w[i]
           /\ Swapped(w, n, c)[n + 1] = c
           /\ \A i \in 1..(Len(w) - n - 1) : Swapped(w, n, c)[n + 1 + i] = w[n + 1 + i]
<1> DEFINE x == Swapped(w, n, c)
<1>0. Len(w) \in Nat /\ n \in Nat /\ n \in 0..Len(w)
  BY DEF Words
<1> DEFINE m == n + 1
<1>1. m \in n..Len(w) /\ n + 2 = m + 1
  BY <1>0
<1>2. x = Joined(w, n, m, c)
  BY <1>1 DEF Swapped, Joined
<1> HIDE DEF x, m
<1>3. /\ x \in Words /\ Len(x) = n + 1 + (Len(w) - m)
      /\ \A i \in 1..n : x[i] = w[i]
      /\ x[n + 1] = c
      /\ \A i \in 1..(Len(w) - m) : x[n + 1 + i] = w[m + i]
  BY <1>0, <1>1, <1>2, Between
<1>4. n + 1 + (Len(w) - m) = Len(w) /\ Len(w) - m = Len(w) - n - 1
  BY <1>0 DEF m
<1>5. Len(x) = Len(w) /\ \A i \in 1..(Len(w) - n - 1) : x[n + 1 + i] = w[m + i]
  BY <1>3, <1>4
<1>6. QED
  BY <1>3, <1>5 DEF x, m

\* The edits of a word.
LEMMA EditsOf ==
    ASSUME NEW w \in Words, NEW A, NEW x
    PROVE  x \in Edited(w, A) <=>
              \/ \E n \in 0..(Len(w) - 1) : x = Deleted(w, n)
              \/ \E n \in 0..Len(w), c \in A : x = Inserted(w, n, c)
              \/ \E n \in 0..(Len(w) - 1), c \in A : x = Swapped(w, n, c)
<1>1. Edited(w, A) = {Deleted(w, n) : n \in 0..(Len(w) - 1)}
                     \cup {Inserted(w, n, c) : n \in 0..Len(w), c \in A}
                     \cup {Swapped(w, n, c) : n \in 0..(Len(w) - 1), c \in A}
  BY DEF Edited, Deleted, Inserted, Swapped
<1>2. /\ x \in {Deleted(w, n) : n \in 0..(Len(w) - 1)} <=> \E n \in 0..(Len(w) - 1) : x = Deleted(w, n)
      /\ x \in {Inserted(w, n, c) : n \in 0..Len(w), c \in A} <=> \E n \in 0..Len(w), c \in A : x = Inserted(w, n, c)
      /\ x \in {Swapped(w, n, c) : n \in 0..(Len(w) - 1), c \in A} <=> \E n \in 0..(Len(w) - 1), c \in A : x = Swapped(w, n, c)
  OBVIOUS
<1>3. QED
  BY <1>1, <1>2

\* Words with a letter more at the end.
LEMMA AppendedIs ==
    ASSUME NEW w \in Words, NEW c \in Letter
    PROVE  /\ Append(w, c) \in Words /\ Len(Append(w, c)) = Len(w) + 1
           /\ \A i \in 1..Len(w) : Append(w, c)[i] = w[i]
           /\ Append(w, c)[Len(w) + 1] = c
BY DEF Words

\* Edits at the end.
LEMMA EditsAtEnd ==
    ASSUME NEW w \in Words, NEW A \in SUBSET Letter, NEW c \in Letter
    PROVE  /\ w \in Edited(Append(w, c), A)
           /\ \A d \in A : Append(w, d) \in Edited(w, A) /\ Append(w, d) \in Edited(Append(w, c), A)
<1> DEFINE n == Len(w)
           wc == Append(w, c)
<1>0. n \in Nat
  BY DEF Words
<1>1. wc \in Words /\ Len(wc) = n + 1 /\ (\A i \in 1..n : wc[i] = w[i]) /\ wc[n + 1] = c
  BY AppendedIs
<1>2. n \in 0..n /\ n \in 0..((n + 1) - 1)
  BY <1>0
<1>3. \A i \in 1..(n + 1) : i \in 1..n \/ i = n + 1
  BY <1>0
<1> HIDE DEF wc
<1>4. w \in Edited(wc, A)
  <2> DEFINE x == Deleted(wc, n)
  <2>1. x \in Words /\ Len(x) = (n + 1) - 1 /\ \A i \in 1..n : x[i] = wc[i]
    BY <1>1, <1>2, DeletedIs
  <2>2. w = x
    <3> HIDE DEF x
    <3>1. Len(x) = n /\ \A i \in 1..n : w[i] = x[i]
      BY <1>0, <1>1, <2>1
    <3>2. QED
      BY <2>1, <3>1, SameWord
  <2>3. n \in 0..(Len(wc) - 1)
    BY <1>1, <1>2
  <2>4. QED
    BY <1>1, <2>2, <2>3, EditsOf
<1>5. ASSUME NEW d \in A PROVE Append(w, d) \in Edited(w, A) /\ Append(w, d) \in Edited(wc, A)
  <2> DEFINE wd == Append(w, d)
  <2>0. d \in Letter
    OBVIOUS
  <2>1. wd \in Words /\ Len(wd) = n + 1 /\ (\A i \in 1..n : wd[i] = w[i]) /\ wd[n + 1] = d
    BY <2>0, AppendedIs
  <2> HIDE DEF wd
  <2>2. wd \in Edited(w, A)
    <3> DEFINE x == Inserted(w, n, d)
    <3>1. x \in Words /\ Len(x) = n + 1 /\ (\A i \in 1..n : x[i] = w[i]) /\ x[n + 1] = d
      BY <2>0, <1>2, InsertedIs
    <3>2. wd = x
      <4> HIDE DEF x
      <4>1. \A i \in 1..(n + 1) : wd[i] = x[i]
        BY <1>3, <2>1, <3>1
      <4>2. QED
        BY <2>1, <3>1, <4>1, SameWord
    <3>3. QED
      BY <1>2, <3>2, EditsOf
  <2>3. wd \in Edited(wc, A)
    <3> DEFINE x == Swapped(wc, n, d)
    <3>1. n \in 0..(Len(wc) - 1)
      BY <1>1, <1>2
    <3>2. x \in Words /\ Len(x) = n + 1 /\ (\A i \in 1..n : x[i] = wc[i]) /\ x[n + 1] = d
      BY <2>0, <1>1, <3>1, SwappedIs
    <3>3. wd = x
      <4> HIDE DEF x
      <4>1. \A i \in 1..(n + 1) : wd[i] = x[i]
        BY <1>1, <1>3, <2>1, <3>2
      <4>2. QED
        BY <2>1, <3>2, <4>1, SameWord
    <3>4. QED
      BY <1>1, <3>1, <3>3, EditsOf
  <2>4. QED
    BY <2>2, <2>3 DEF wd
<1>6. QED
  BY <1>4, <1>5 DEF wc

\* A word that is edited and then continued is an edit of the continued word.
LEMMA EditsContinue ==
    ASSUME NEW w \in Words, NEW A \in SUBSET Letter, NEW x \in Edited(w, A), NEW e \in Letter
    PROVE  x \in Words /\ Append(x, e) \in Edited(Append(w, e), A)
<1> DEFINE we == Append(w, e)
           xe == Append(x, e)
           n == Len(w)
<1>0. n \in Nat
  BY DEF Words
<1>1. we \in Words /\ Len(we) = n + 1 /\ (\A i \in 1..n : we[i] = w[i]) /\ we[n + 1] = e
  BY AppendedIs
<1>2. ASSUME x \in Words
      PROVE  xe \in Words /\ Len(xe) = Len(x) + 1 /\ (\A i \in 1..Len(x) : xe[i] = x[i]) /\ xe[Len(x) + 1] = e
  BY <1>2, AppendedIs
<1>3. \/ \E k \in 0..(n - 1) : x = Deleted(w, k)
      \/ \E k \in 0..n, c \in A : x = Inserted(w, k, c)
      \/ \E k \in 0..(n - 1), c \in A : x = Swapped(w, k, c)
  BY EditsOf
<1>4. CASE \E k \in 0..(n - 1) : x = Deleted(w, k)
  <2>1. PICK k \in 0..(n - 1) : x = Deleted(w, k)
    BY <1>4
  <2>2. /\ x \in Words /\ Len(x) = n - 1
        /\ \A i \in 1..k : x[i] = w[i]
        /\ \A i \in 1..(n - k - 1) : x[k + i] = w[k + 1 + i]
    BY <2>1, DeletedIs
  <2> DEFINE y == Deleted(we, k)
  <2>3. k \in 0..(Len(we) - 1)
    BY <1>0, <1>1
  <2>4. /\ y \in Words /\ Len(y) = Len(we) - 1
        /\ \A i \in 1..k : y[i] = we[i]
        /\ \A i \in 1..(Len(we) - k - 1) : y[k + i] = we[k + 1 + i]
    BY <1>1, <2>3, DeletedIs
  <2> HIDE DEF y, we
  <2>5. xe \in Words /\ Len(xe) = n /\ (\A i \in 1..(n - 1) : xe[i] = x[i]) /\ xe[n] = e
    <3>1. Len(x) + 1 = n
      BY <1>0, <2>2
    <3>2. QED
      BY <1>2, <2>2, <3>1
  <2> HIDE DEF xe
  <2>6. ASSUME NEW i \in 1..n PROVE xe[i] = y[i]
    <3>1. CASE i <= k
      <4>1. i \in 1..k /\ i \in 1..(n - 1) /\ i \in 1..n
        BY <1>0, <3>1
      <4>2. QED
        BY <1>1, <2>2, <2>4, <2>5, <4>1
    <3>2. CASE i > k /\ i < n
      <4> DEFINE j == i - k
      <4>1. /\ j \in 1..(n - k - 1) /\ j \in 1..(Len(we) - k - 1) /\ i = k + j
            /\ k + 1 + j \in 1..n /\ i \in 1..(n - 1)
        BY <1>0, <1>1, <3>2
      <4> HIDE DEF j
      <4>2. xe[i] = w[k + 1 + j] /\ y[i] = w[k + 1 + j]
        BY <1>1, <2>2, <2>4, <2>5, <4>1
      <4>3. QED
        BY <4>2
    <3>3. CASE i > k /\ i = n
      <4> DEFINE j == n - k
      <4>1. j \in 1..(Len(we) - k - 1) /\ n = k + j /\ k + 1 + j = n + 1
        BY <1>0, <1>1, <3>3
      <4> HIDE DEF j
      <4>2. y[n] = we[n + 1]
        BY <2>4, <4>1
      <4>3. QED
        BY <1>1, <2>5, <3>3, <4>2
    <3>4. QED
      BY <1>0, <3>1, <3>2, <3>3
  <2>7. xe = y
    <3>1. Len(y) = n
      BY <1>0, <1>1, <2>4
    <3>2. QED
      BY <2>4, <2>5, <2>6, <3>1, SameWord
  <2>8. y \in Edited(we, A)
    BY <1>1, <2>3, EditsOf DEF y
  <2>9. QED
    BY <2>2, <2>7, <2>8 DEF we, xe
<1>5. CASE \E k \in 0..n, c \in A : x = Inserted(w, k, c)
  <2>1. PICK k \in 0..n, c \in A : x = Inserted(w, k, c)
    BY <1>5
  <2>0. c \in Letter
    OBVIOUS
  <2>2. /\ x \in Words /\ Len(x) = n + 1
        /\ \A i \in 1..k : x[i] = w[i]
        /\ x[k + 1] = c
        /\ \A i \in 1..(n - k) : x[k + 1 + i] = w[k + i]
    BY <2>0, <2>1, InsertedIs
  <2> DEFINE y == Inserted(we, k, c)
  <2>3. k \in 0..Len(we)
    BY <1>0, <1>1
  <2>4. /\ y \in Words /\ Len(y) = Len(we) + 1
        /\ \A i \in 1..k : y[i] = we[i]
        /\ y[k + 1] = c
        /\ \A i \in 1..(Len(we) - k) : y[k + 1 + i] = we[k + i]
    BY <2>0, <1>1, <2>3, InsertedIs
  <2> HIDE DEF y, we
  <2>5. xe \in Words /\ Len(xe) = n + 2 /\ (\A i \in 1..(n + 1) : xe[i] = x[i]) /\ xe[n + 2] = e
    <3>1. Len(x) + 1 = n + 2
      BY <1>0, <2>2
    <3>2. QED
      BY <1>2, <2>2, <3>1
  <2> HIDE DEF xe
  <2>6. ASSUME NEW i \in 1..(n + 2) PROVE xe[i] = y[i]
    <3>1. CASE i <= k
      <4>1. i \in 1..k /\ i \in 1..(n + 1) /\ i \in 1..n
        BY <1>0, <3>1
      <4>2. QED
        BY <1>1, <2>2, <2>4, <2>5, <4>1
    <3>2. CASE i = k + 1
      <4>1. i \in 1..(n + 1)
        BY <1>0, <3>2
      <4>2. QED
        BY <2>2, <2>4, <2>5, <3>2, <4>1
    <3>3. CASE i > k + 1 /\ i <= n + 1
      <4> DEFINE j == i - k - 1
      <4>1. /\ j \in 1..(n - k) /\ j \in 1..(Len(we) - k) /\ i = k + 1 + j
            /\ k + j \in 1..n /\ i \in 1..(n + 1)
        BY <1>0, <1>1, <3>3
      <4> HIDE DEF j
      <4>2. xe[i] = w[k + j] /\ y[i] = w[k + j]
        BY <1>1, <2>2, <2>4, <2>5, <4>1
      <4>3. QED
        BY <4>2
    <3>4. CASE i = n + 2
      <4> DEFINE j == n + 1 - k
      <4>1. j \in 1..(Len(we) - k) /\ n + 2 = k + 1 + j /\ k + j = n + 1
        BY <1>0, <1>1
      <4> HIDE DEF j
      <4>2. y[n + 2] = we[n + 1]
        BY <2>4, <4>1
      <4>3. QED
        BY <1>1, <2>5, <3>4, <4>2
    <3>5. QED
      BY <1>0, <3>1, <3>2, <3>3, <3>4
  <2>7. xe = y
    <3>1. Len(y) = n + 2
      BY <1>0, <1>1, <2>4
    <3>2. QED
      BY <2>4, <2>5, <2>6, <3>1, SameWord
  <2>8. y \in Edited(we, A)
    BY <1>1, <2>3, EditsOf DEF y
  <2>9. QED
    BY <2>2, <2>7, <2>8 DEF we, xe
<1>6. CASE \E k \in 0..(n - 1), c \in A : x = Swapped(w, k, c)
  <2>1. PICK k \in 0..(n - 1), c \in A : x = Swapped(w, k, c)
    BY <1>6
  <2>0. c \in Letter
    OBVIOUS
  <2>2. /\ x \in Words /\ Len(x) = n
        /\ \A i \in 1..k : x[i] = w[i]
        /\ x[k + 1] = c
        /\ \A i \in 1..(n - k - 1) : x[k + 1 + i] = w[k + 1 + i]
    BY <2>0, <2>1, SwappedIs
  <2> DEFINE y == Swapped(we, k, c)
  <2>3. k \in 0..(Len(we) - 1)
    BY <1>0, <1>1
  <2>4. /\ y \in Words /\ Len(y) = Len(we)
        /\ \A i \in 1..k : y[i] = we[i]
        /\ y[k + 1] = c
        /\ \A i \in 1..(Len(we) - k - 1) : y[k + 1 + i] = we[k + 1 + i]
    BY <2>0, <1>1, <2>3, SwappedIs
  <2> HIDE DEF y, we
  <2>5. xe \in Words /\ Len(xe) = n + 1 /\ (\A i \in 1..n : xe[i] = x[i]) /\ xe[n + 1] = e
    BY <1>2, <2>2
  <2> HIDE DEF xe
  <2>6. ASSUME NEW i \in 1..(n + 1) PROVE xe[i] = y[i]
    <3>1. CASE i <= k
      <4>1. i \in 1..k /\ i \in 1..n
        BY <1>0, <3>1
      <4>2. QED
        BY <1>1, <2>2, <2>4, <2>5, <4>1
    <3>2. CASE i = k + 1
      <4>1. i \in 1..n
        BY <1>0, <3>2
      <4>2. QED
        BY <2>2, <2>4, <2>5, <3>2, <4>1
    <3>3. CASE i > k + 1 /\ i <= n
      <4> DEFINE j == i - k - 1
      <4>1. /\ j \in 1..(n - k - 1) /\ j \in 1..(Len(we) - k - 1) /\ i = k + 1 + j
            /\ i \in 1..n
        BY <1>0, <1>1, <3>3
      <4> HIDE DEF j
      <4>2. xe[i] = w[i] /\ y[i] = w[i]
        BY <1>1, <2>2, <2>4, <2>5, <4>1
      <4>3. QED
        BY <4>2
    <3>4. CASE i = n + 1
      <4> DEFINE j == n - k
      <4>1. j \in 1..(Len(we) - k - 1) /\ n + 1 = k + 1 + j
        BY <1>0, <1>1
      <4> HIDE DEF j
      <4>2. y[n + 1] = we[n + 1]
        BY <2>4, <4>1
      <4>3. QED
        BY <1>1, <2>5, <3>4, <4>2
    <3>5. QED
      BY <1>0, <3>1, <3>2, <3>3, <3>4
  <2>7. xe = y
    <3>1. Len(y) = n + 1
      BY <1>1, <2>4
    <3>2. QED
      BY <2>4, <2>5, <2>6, <3>1, SameWord
  <2>8. y \in Edited(we, A)
    BY <1>1, <2>3, EditsOf DEF y
  <2>9. QED
    BY <2>2, <2>7, <2>8 DEF we, xe
<1>7. QED
  BY <1>3, <1>4, <1>5, <1>6

\* The words within some edits of another.
Within(k, w, A) == IF k = 0 THEN {w} ELSE IF k = 1 THEN Near({w}, A) ELSE Near(Near({w}, A), A)

\* Words around one.
LEMMA NearOne ==
    ASSUME NEW w, NEW A, NEW x
    PROVE  x \in Near({w}, A) <=> x = w \/ x \in Edited(w, A)
BY DEF Near

\* Words around those around one.
LEMMA NearTwo ==
    ASSUME NEW w, NEW A, NEW x
    PROVE  x \in Near(Near({w}, A), A) <=> \E y \in Near({w}, A) : x = y \/ x \in Edited(y, A)
BY DEF Near

\* An edit at either side is one more.
LEMMA OneEditMore ==
    ASSUME NEW A, NEW w, NEW x, NEW y, NEW z, NEW k \in {0, 1}, y \in Within(k, x, A)
    PROVE  /\ x \in Edited(w, A) => y \in Within(k + 1, w, A)
           /\ z \in Edited(y, A) => z \in Within(k + 1, x, A)
<1>1. CASE k = 0
  <2>1. k + 1 = 1 /\ y = x
    BY <1>1 DEF Within
  <2>2. Within(k + 1, w, A) = Near({w}, A) /\ Within(k + 1, x, A) = Near({x}, A)
    BY <2>1 DEF Within
  <2>3. ASSUME x \in Edited(w, A) PROVE y \in Near({w}, A)
    BY <2>1, <2>3, NearOne
  <2>4. ASSUME z \in Edited(y, A) PROVE z \in Near({x}, A)
    BY <2>1, <2>4, NearOne
  <2>5. QED
    BY <2>2, <2>3, <2>4
<1>2. CASE k = 1
  <2>1. k + 1 = 2 /\ y \in Near({x}, A)
    BY <1>2 DEF Within
  <2>2. \A u : Within(2, u, A) = Near(Near({u}, A), A)
    BY DEF Within
  <2>3. y = x \/ y \in Edited(x, A)
    BY <2>1, NearOne
  <2>4. ASSUME x \in Edited(w, A) PROVE y \in Near(Near({w}, A), A)
    BY <2>3, <2>4, NearOne, NearTwo
  <2>5. ASSUME z \in Edited(y, A) PROVE z \in Near(Near({x}, A), A)
    BY <2>1, <2>5, NearTwo
  <2>6. QED
    BY <2>1, <2>2, <2>4, <2>5
<1>3. QED
  BY <1>1, <1>2

\* Words that are continued alike stay as near.
LEMMA WithinContinues ==
    ASSUME NEW A \in SUBSET Letter, NEW w \in Words, NEW k \in {0, 1, 2}, NEW x \in Within(k, w, A), NEW e \in Letter
    PROVE  x \in Words /\ Append(x, e) \in Within(k, Append(w, e), A)
<1>0. ASSUME NEW v \in Words, NEW y \in Near({v}, A)
      PROVE  y \in Words /\ Append(y, e) \in Near({Append(v, e)}, A)
  <2>1. CASE y = v
    BY <2>1, NearOne
  <2>2. CASE y \in Edited(v, A)
    <3>1. y \in Words /\ Append(y, e) \in Edited(Append(v, e), A)
      BY <2>2, EditsContinue
    <3>2. QED
      BY <3>1, NearOne
  <2>3. QED
    BY <2>1, <2>2, NearOne
<1>1. CASE k = 0
  BY <1>1 DEF Within
<1>2. CASE k = 1
  <2>1. x \in Near({w}, A) /\ Within(1, Append(w, e), A) = Near({Append(w, e)}, A)
    BY <1>2 DEF Within
  <2>2. QED
    BY <1>0, <1>2, <2>1
<1>3. CASE k = 2
  <2>1. x \in Near(Near({w}, A), A) /\ Within(2, Append(w, e), A) = Near(Near({Append(w, e)}, A), A)
    BY <1>3 DEF Within
  <2>2. PICK y \in Near({w}, A) : x = y \/ x \in Edited(y, A)
    BY <2>1, NearTwo
  <2>3. y \in Words /\ Append(y, e) \in Near({Append(w, e)}, A)
    BY <1>0
  <2>4. x \in Near({y}, A)
    BY <2>2, NearOne
  <2>5. x \in Words /\ Append(x, e) \in Near({Append(y, e)}, A)
    BY <1>0, <2>3, <2>4
  <2>6. Append(x, e) = Append(y, e) \/ Append(x, e) \in Edited(Append(y, e), A)
    BY <2>5, NearOne
  <2>7. Append(x, e) \in Near(Near({Append(w, e)}, A), A)
    BY <2>3, <2>6, NearTwo
  <2>8. QED
    BY <1>3, <2>1, <2>5, <2>7
<1>4. QED
  BY <1>1, <1>2, <1>3

\* The beginnings of a word.
Start(w, i) == SubSeq(w, 1, i)

\* The beginnings of a word, and how one follows from the one before.
LEMMA StartsOf ==
    ASSUME NEW w \in Words
    PROVE  /\ Start(w, 0) = << >> /\ Start(w, Len(w)) = w
           /\ \A i \in 1..Len(w) : /\ Start(w, i - 1) \in Words /\ w[i] \in Letter
                                   /\ Start(w, i) = Append(Start(w, i - 1), w[i])
<1>0. Len(w) \in Nat
  BY DEF Words
<1>1. ASSUME NEW i \in 0..Len(w)
      PROVE  /\ Start(w, i) \in Words /\ Len(Start(w, i)) = i
             /\ \A j \in 1..i : Start(w, i)[j] = w[j]
  <2>1. /\ SubSeq(w, 1, i) \in Words /\ Len(SubSeq(w, 1, i)) = i - 1 + 1
        /\ \A j \in 1..(i - 1 + 1) : SubSeq(w, 1, i)[j] = w[1 + j - 1]
    BY <1>0, PartOfWord
  <2>2. i - 1 + 1 = i /\ \A j \in 1..i : 1 + j - 1 = j
    BY <1>0
  <2>3. QED
    BY <2>1, <2>2 DEF Start
<1>2. Start(w, 0) = << >>
  <2>1. Start(w, 0) \in Words /\ Len(Start(w, 0)) = 0
    BY <1>0, <1>1
  <2>2. QED
    BY <2>1 DEF Words
<1>3. Start(w, Len(w)) = w
  <2>1. Len(w) \in 0..Len(w)
    BY <1>0
  <2>2. QED
    BY <1>1, <2>1, SameWord
<1>4. ASSUME NEW i \in 1..Len(w)
      PROVE  Start(w, i - 1) \in Words /\ w[i] \in Letter /\ Start(w, i) = Append(Start(w, i - 1), w[i])
  <2> DEFINE p == Start(w, i - 1)
             q == Start(w, i)
             r == Append(p, w[i])
  <2>1. i \in 0..Len(w) /\ i - 1 \in 0..Len(w) /\ (i - 1) + 1 = i
    BY <1>0
  <2>2. p \in Words /\ Len(p) = i - 1 /\ \A j \in 1..(i - 1) : p[j] = w[j]
    BY <1>1, <2>1
  <2>3. q \in Words /\ Len(q) = i /\ \A j \in 1..i : q[j] = w[j]
    BY <1>1, <2>1
  <2>4. w[i] \in Letter
    BY DEF Words
  <2>5. r \in Words /\ Len(r) = i /\ (\A j \in 1..(i - 1) : r[j] = p[j]) /\ r[i] = w[i]
    <3>1. r \in Words /\ Len(r) = Len(p) + 1 /\ (\A j \in 1..Len(p) : r[j] = p[j]) /\ r[Len(p) + 1] = w[i]
      BY <2>2, <2>4, AppendedIs
    <3>2. QED
      BY <2>1, <2>2, <3>1
  <2> HIDE DEF p, q, r
  <2>6. \A j \in 1..i : j \in 1..(i - 1) \/ j = i
    BY <2>1
  <2>7. \A j \in 1..i : q[j] = r[j]
    BY <2>2, <2>3, <2>5, <2>6
  <2>8. q = r
    BY <2>3, <2>5, <2>7, SameWord
  <2>9. QED
    BY <2>2, <2>4, <2>8 DEF p, q, r
<1>5. QED
  BY <1>2, <1>3, <1>4

\* What a cell means.
Reached(u, v, A, i, j, x) == \A k \in {0, 1, 2} : x <= k => Start(v, j) \in Within(k, Start(u, i), A)

\* A cell that is one more than the one above.
LEMMA ReachedFromAbove ==
    ASSUME NEW u \in Words, NEW v \in Words, NEW A \in SUBSET Letter, NEW x \in Nat,
           NEW i \in 1..Len(u), NEW j \in 0..Len(v),
           Reached(u, v, A, i - 1, j, x)
    PROVE  Reached(u, v, A, i, j, x + 1)
<1> SUFFICES ASSUME NEW k \in {0, 1, 2}, x + 1 <= k PROVE Start(v, j) \in Within(k, Start(u, i), A)
  BY DEF Reached
<1>1. PICK m \in {0, 1} : m + 1 = k /\ x <= m /\ m \in {0, 1, 2}
  <2>1. k - 1 \in {0, 1} /\ (k - 1) + 1 = k /\ x <= k - 1 /\ k - 1 \in {0, 1, 2}
    OBVIOUS
  <2>2. QED
    BY <2>1
<1>2. Start(v, j) \in Within(m, Start(u, i - 1), A)
  BY <1>1 DEF Reached
<1>3. Start(u, i - 1) \in Edited(Start(u, i), A)
  <2>1. Start(u, i - 1) \in Words /\ u[i] \in Letter /\ Start(u, i) = Append(Start(u, i - 1), u[i])
    BY StartsOf
  <2>2. QED
    BY <2>1, EditsAtEnd
<1>4. QED
  BY <1>1, <1>2, <1>3, OneEditMore

\* A cell that is one more than the one to the left.
LEMMA ReachedFromLeft ==
    ASSUME NEW u \in Words, NEW v \in Words, NEW A \in SUBSET Letter, NEW x \in Nat,
           NEW i \in 0..Len(u), NEW j \in 1..Len(v), v[j] \in A,
           Reached(u, v, A, i, j - 1, x)
    PROVE  Reached(u, v, A, i, j, x + 1)
<1> SUFFICES ASSUME NEW k \in {0, 1, 2}, x + 1 <= k PROVE Start(v, j) \in Within(k, Start(u, i), A)
  BY DEF Reached
<1>1. PICK m \in {0, 1} : m + 1 = k /\ x <= m /\ m \in {0, 1, 2}
  <2>1. k - 1 \in {0, 1} /\ (k - 1) + 1 = k /\ x <= k - 1 /\ k - 1 \in {0, 1, 2}
    OBVIOUS
  <2>2. QED
    BY <2>1
<1>2. Start(v, j - 1) \in Within(m, Start(u, i), A)
  BY <1>1 DEF Reached
<1>3. Start(v, j) \in Edited(Start(v, j - 1), A)
  <2>1. Start(v, j - 1) \in Words /\ v[j] \in Letter /\ Start(v, j) = Append(Start(v, j - 1), v[j])
    BY StartsOf
  <2>2. QED
    BY <2>1, EditsAtEnd
<1>4. QED
  BY <1>1, <1>2, <1>3, OneEditMore

\* A cell that comes from the corner.
LEMMA ReachedFromCorner ==
    ASSUME NEW u \in Words, NEW v \in Words, NEW A \in SUBSET Letter, NEW x \in Nat,
           NEW i \in 1..Len(u), NEW j \in 1..Len(v), v[j] \in A,
           Reached(u, v, A, i - 1, j - 1, x)
    PROVE  Reached(u, v, A, i, j, x + Cost(u[i], v[j]))
<1> DEFINE p == Start(u, i - 1)
           q == Start(v, j - 1)
<1>1. p \in Words /\ u[i] \in Letter /\ Start(u, i) = Append(p, u[i])
  BY StartsOf
<1>2. q \in Words /\ v[j] \in Letter /\ Start(v, j) = Append(q, v[j])
  BY StartsOf
<1> SUFFICES ASSUME NEW k \in {0, 1, 2}, x + Cost(u[i], v[j]) <= k
             PROVE  Append(q, v[j]) \in Within(k, Append(p, u[i]), A)
  BY <1>1, <1>2 DEF Reached
<1>3. CASE u[i] = v[j]
  <2>1. x <= k
    BY <1>3 DEF Cost
  <2>2. q \in Within(k, p, A)
    BY <2>1 DEF Reached
  <2> HIDE DEF p, q
  <2>3. QED
    BY <1>1, <1>2, <1>3, <2>2, WithinContinues
<1>4. CASE u[i] # v[j]
  <2>1. PICK m \in {0, 1} : m + 1 = k /\ x <= m /\ m \in {0, 1, 2}
    <3>1. k - 1 \in {0, 1} /\ (k - 1) + 1 = k /\ x <= k - 1 /\ k - 1 \in {0, 1, 2}
      BY <1>4 DEF Cost
    <3>2. QED
      BY <3>1
  <2>2. q \in Within(m, p, A)
    BY <2>1 DEF Reached
  <2> HIDE DEF p, q
  <2>3. Append(q, v[j]) \in Within(m, Append(p, v[j]), A)
    BY <1>1, <1>2, <2>1, <2>2, WithinContinues
  <2>4. Append(p, v[j]) \in Edited(Append(p, u[i]), A)
    BY <1>1, <1>2, EditsAtEnd
  <2>5. QED
    BY <2>1, <2>3, <2>4, OneEditMore
<1>5. QED
  BY <1>3, <1>4

\* What the cells of a table say of the beginnings of two words.
LEMMA CellsAreReached ==
    ASSUME NEW u \in Words, NEW v \in Words, NEW A \in SUBSET Letter, \A j \in 1..Len(v) : v[j] \in A,
           NEW h \in RowsOf(u, v)
    PROVE  \A i \in 0..Len(u) : \A j \in 1..(Len(v) + 1) : Reached(u, v, A, i, j - 1, h[i][j])
<1> DEFINE m == Len(u)
           n == Len(v)
           T == {i \in 0..m : \A j \in 1..(n + 1) : Reached(u, v, A, i, j - 1, h[i][j])}
<1>0. /\ m \in Nat /\ n \in Nat /\ h \in [0..m -> Cells(n)] /\ v \in Seq(STRING)
      /\ \A i \in 0..m : \A j \in 1..(n + 1) : h[i][j] \in Nat
  <2>1. m \in Nat /\ n \in Nat /\ v \in Seq(STRING)
    BY DEF Words, Letter
  <2>2. h \in [0..m -> Cells(n)]
    BY DEF RowsOf
  <2>3. QED
    BY <2>1, <2>2 DEF Cells
<1>1. 0 \in T
  <2> DEFINE S == {j \in 1..(n + 1) : Reached(u, v, A, 0, j - 1, h[0][j])}
  <2>0. \A j \in 1..(n + 1) : h[0][j] = j - 1
    BY DEF RowsOf
  <2>1. 1 \in S
    <3>1. 1 \in 1..(n + 1) /\ h[0][1] = 0 /\ 1 - 1 = 0
      BY <1>0, <2>0
    <3>2. \A k \in {0, 1, 2} : << >> \in Within(k, << >>, A)
      <4>1. << >> \in Near({<< >>}, A)
        BY NearOne
      <4>2. << >> \in Near(Near({<< >>}, A), A)
        BY <4>1, NearTwo
      <4>3. QED
        BY <4>1, <4>2 DEF Within
    <3>3. Reached(u, v, A, 0, 0, 0)
      BY <3>2, StartsOf DEF Reached
    <3>4. QED
      BY <3>1, <3>3
  <2>2. ASSUME NEW j \in 1..n, j \in S PROVE j + 1 \in S
    <3>1. /\ j + 1 \in 1..(n + 1) /\ h[0][j + 1] = j /\ h[0][j] = j - 1 /\ j - 1 \in Nat
          /\ (j - 1) + 1 = j /\ (j + 1) - 1 = j /\ 0 \in 0..Len(u)
      BY <1>0, <2>0
    <3>2. Reached(u, v, A, 0, j - 1, j - 1)
      BY <2>2, <3>1
    <3>3. Reached(u, v, A, 0, j, (j - 1) + 1)
      BY <3>1, <3>2, ReachedFromLeft
    <3>4. QED
      BY <3>1, <3>3
  <2>3. \A j \in 1..(n + 1) : j \in S
    <3> HIDE DEF S
    <3> QED BY <1>0, <2>1, <2>2, AllCells
  <2>4. 0 \in 0..m
    BY <1>0
  <2>5. QED
    BY <2>3, <2>4
<1>2. ASSUME NEW i \in 1..m, i - 1 \in T PROVE i \in T
  <2> DEFINE p == h[i - 1]
             q == h[i]
             S == {j \in 1..(n + 1) : Reached(u, v, A, i, j - 1, q[j])}
  <2>1. i \in 0..m /\ i - 1 \in 0..m
    BY <1>0
  <2>2. p \in Cells(n) /\ q \in Cells(n) /\ Next(p, u[i], v, q)
    BY <1>0, <2>1 DEF RowsOf
  <2>3. \A j \in 1..(n + 1) : /\ p[j] \in Nat /\ q[j] \in Nat
                              /\ Reached(u, v, A, i - 1, j - 1, p[j])
    BY <1>0, <1>2, <2>1
  <2> HIDE DEF p, q
  <2>4. 1 \in S
    <3>1. 1 \in 1..(n + 1) /\ q[1] = p[1] + 1 /\ 1 - 1 \in 0..Len(v)
      BY <1>0, <2>2 DEF Next
    <3>2. Reached(u, v, A, i, 1 - 1, p[1] + 1)
      BY <2>3, <3>1, ReachedFromAbove
    <3>3. QED
      BY <3>1, <3>2
  <2>5. ASSUME NEW j \in 1..n, j \in S PROVE j + 1 \in S
    <3>1. /\ j \in 1..(n + 1) /\ j + 1 \in 1..(n + 1) /\ (j + 1) - 1 = j /\ j \in 0..Len(v)
      BY <1>0
    <3>2. /\ p[j] \in Nat /\ p[j + 1] \in Nat /\ q[j] \in Nat /\ v[j] \in A
          /\ Reached(u, v, A, i - 1, j - 1, p[j]) /\ Reached(u, v, A, i - 1, j, p[j + 1])
          /\ Reached(u, v, A, i, j - 1, q[j])
      BY <2>3, <2>5, <3>1
    <3>3. q[j + 1] = p[j + 1] + 1 \/ q[j + 1] = q[j] + 1 \/ q[j + 1] = p[j] + Cost(u[i], v[j])
      BY <2>2 DEF Next, IsLeast
    <3>4. Reached(u, v, A, i, j, p[j + 1] + 1)
      BY <3>1, <3>2, ReachedFromAbove
    <3>5. Reached(u, v, A, i, j, q[j] + 1)
      BY <2>1, <3>1, <3>2, ReachedFromLeft
    <3>6. Reached(u, v, A, i, j, p[j] + Cost(u[i], v[j]))
      BY <3>1, <3>2, ReachedFromCorner
    <3>7. Reached(u, v, A, i, j, q[j + 1])
      BY <3>3, <3>4, <3>5, <3>6
    <3>8. QED
      BY <3>1, <3>7
  <2>6. \A j \in 1..(n + 1) : j \in S
    <3> HIDE DEF S
    <3> QED BY <1>0, <2>4, <2>5, AllCells
  <2>7. QED
    BY <2>1, <2>6 DEF q
<1>3. 0..m \subseteq T
  <2> HIDE DEF T, m
  <2> QED BY <1>0, <1>1, <1>2, Climb
<1>4. QED
  BY <1>3

\* An edit changes the cells of the last row by one at most.
LEMMA EditIsClose ==
    ASSUME NEW w \in Words, NEW v \in Words, NEW A \in SUBSET Letter, NEW x \in Edited(w, A),
           NEW h \in RowsOf(w, v), NEW g \in RowsOf(x, v)
    PROVE  Close(h[Len(w)], g[Len(x)], Len(v))
<1> DEFINE n == Len(v)
<1>0. n \in Nat /\ Len(w) \in Nat /\ w \in Seq(STRING) /\ v \in Seq(STRING)
  BY DEF Words, Letter
<1>1. \/ \E k \in 0..(Len(w) - 1) : x = Deleted(w, k)
      \/ \E k \in 0..Len(w), c \in A : x = Inserted(w, k, c)
      \/ \E k \in 0..(Len(w) - 1), c \in A : x = Swapped(w, k, c)
  BY EditsOf
<1>2. \A i \in 0..Len(w) : h[i] \in Cells(n) /\ Smooth(h[i], n)
  BY <1>0, RowsAreSmooth
<1>3. ASSUME x \in Words PROVE x \in Seq(STRING) /\ \A i \in 0..Len(x) : g[i] \in Cells(n) /\ Smooth(g[i], n)
  <2>1. x \in Seq(STRING)
    BY <1>3 DEF Words, Letter
  <2>2. QED
    BY <1>0, <2>1, RowsAreSmooth
<1>4. ASSUME NEW k \in 0..(Len(w) - 1), x = Deleted(w, k) PROVE Close(h[Len(w)], g[Len(x)], n)
  <2>1. /\ x \in Words /\ Len(x) = Len(w) - 1
        /\ \A i \in 1..k : x[i] = w[i]
        /\ \A i \in 1..(Len(w) - k - 1) : x[k + i] = w[k + 1 + i]
    BY <1>4, DeletedIs
  <2>2. /\ k \in Nat /\ k <= Len(w) /\ k <= Len(x) /\ k + 1 \in 1..Len(w) /\ (k + 1) - 1 = k
        /\ k \in 0..Len(w) /\ k + 1 \in 0..Len(w) /\ k + 1 \in Nat
        /\ Len(w) - k - 1 \in Nat /\ k + 1 + (Len(w) - k - 1) = Len(w) /\ k + (Len(w) - k - 1) = Len(x)
    BY <1>0, <2>1
  <2>3. h[k] = g[k]
    BY <1>0, <1>3, <2>1, <2>2, SameRows
  <2>4. Next(h[k], w[k + 1], v, h[k + 1])
    <3>1. Next(h[(k + 1) - 1], w[k + 1], v, h[k + 1])
      BY <2>2 DEF RowsOf
    <3>2. QED
      BY <2>2, <3>1
  <2>5. Close(h[k], h[k + 1], n)
    BY <1>0, <1>2, <2>2, <2>4, NextIsSmooth
  <2>6. Close(h[k + 1], g[k], n)
    BY <2>3, <2>5 DEF Close
  <2>7. \A i \in 1..(Len(w) - k - 1) : w[k + 1 + i] = x[k + i]
    BY <2>1
  <2> DEFINE a == k + 1
             b == Len(w) - k - 1
  <2>8. a \in Nat /\ b \in Nat /\ EndAlike(w, a, x, k, b)
    BY <2>2, <2>7 DEF EndAlike
  <2>9. Close(h[a], g[k], n)
    BY <2>6
  <2> HIDE DEF a, b
  <2>10. QED
    BY <1>0, <1>3, <2>1, <2>2, <2>8, <2>9, CloseRows
<1>5. ASSUME NEW k \in 0..Len(w), NEW c \in A, x = Inserted(w, k, c) PROVE Close(h[Len(w)], g[Len(x)], n)
  <2>0. c \in Letter
    OBVIOUS
  <2>1. /\ x \in Words /\ Len(x) = Len(w) + 1
        /\ \A i \in 1..k : x[i] = w[i]
        /\ \A i \in 1..(Len(w) - k) : x[k + 1 + i] = w[k + i]
    BY <2>0, <1>5, InsertedIs
  <2>2. /\ k \in Nat /\ k <= Len(w) /\ k <= Len(x) /\ k + 1 \in 1..Len(x) /\ (k + 1) - 1 = k
        /\ k \in 0..Len(x) /\ k + 1 \in 0..Len(x) /\ k + 1 \in Nat
        /\ Len(w) - k \in Nat /\ k + (Len(w) - k) = Len(w) /\ k + 1 + (Len(w) - k) = Len(x)
    BY <1>0, <2>1
  <2>3. h[k] = g[k]
    BY <1>0, <1>3, <2>1, <2>2, SameRows
  <2>4. Next(g[k], x[k + 1], v, g[k + 1])
    <3>1. Next(g[(k + 1) - 1], x[k + 1], v, g[k + 1])
      BY <2>2 DEF RowsOf
    <3>2. QED
      BY <2>2, <3>1
  <2>5. Close(g[k], g[k + 1], n)
    <3>1. g[k] \in Cells(n) /\ g[k + 1] \in Cells(n) /\ Smooth(g[k], n)
      BY <1>3, <2>1, <2>2
    <3>2. QED
      BY <1>0, <2>4, <3>1, NextIsSmooth
  <2>6. Close(h[k], g[k + 1], n)
    BY <2>3, <2>5
  <2> DEFINE a == k + 1
             b == Len(w) - k
  <2>8. a \in Nat /\ b \in Nat /\ EndAlike(w, k, x, a, b)
    BY <2>1, <2>2 DEF EndAlike
  <2>9. Close(h[k], g[a], n)
    BY <2>6
  <2> HIDE DEF a, b
  <2>10. QED
    BY <1>0, <1>3, <2>1, <2>2, <2>8, <2>9, CloseRows
<1>6. ASSUME NEW k \in 0..(Len(w) - 1), NEW c \in A, x = Swapped(w, k, c) PROVE Close(h[Len(w)], g[Len(x)], n)
  <2>0. c \in Letter
    OBVIOUS
  <2>1. /\ x \in Words /\ Len(x) = Len(w)
        /\ \A i \in 1..k : x[i] = w[i]
        /\ \A i \in 1..(Len(w) - k - 1) : x[k + 1 + i] = w[k + 1 + i]
    BY <2>0, <1>6, SwappedIs
  <2>2. /\ k \in Nat /\ k <= Len(w) /\ k <= Len(x) /\ k + 1 \in 1..Len(w) /\ k + 1 \in 1..Len(x) /\ (k + 1) - 1 = k
        /\ k \in 0..Len(w) /\ k + 1 \in 0..Len(w) /\ k + 1 \in 0..Len(x) /\ k + 1 \in Nat
        /\ Len(w) - k - 1 \in Nat /\ k + 1 + (Len(w) - k - 1) = Len(w)
    BY <1>0, <2>1
  <2>3. h[k] = g[k]
    BY <1>0, <1>3, <2>1, <2>2, SameRows
  <2>4. Next(h[k], w[k + 1], v, h[k + 1]) /\ Next(h[k], x[k + 1], v, g[k + 1])
    <3>1. Next(h[(k + 1) - 1], w[k + 1], v, h[k + 1]) /\ Next(g[(k + 1) - 1], x[k + 1], v, g[k + 1])
      BY <2>2 DEF RowsOf
    <3>2. QED
      BY <2>2, <2>3, <3>1
  <2>5. Close(h[k + 1], g[k + 1], n)
    <3>1. h[k] \in Cells(n) /\ h[k + 1] \in Cells(n) /\ g[k + 1] \in Cells(n)
      BY <1>2, <1>3, <2>1, <2>2
    <3>2. QED
      BY <1>0, <2>4, <3>1, OtherIsClose
  <2> DEFINE a == k + 1
             b == Len(w) - k - 1
  <2>8. a \in Nat /\ b \in Nat /\ EndAlike(w, a, x, a, b)
    BY <2>1, <2>2 DEF EndAlike
  <2>9. Close(h[a], g[a], n)
    BY <2>5
  <2> HIDE DEF a, b
  <2>10. QED
    BY <1>0, <1>3, <2>1, <2>2, <2>8, <2>9, CloseRows
<1>7. QED
  BY <1>1, <1>4, <1>5, <1>6

\* The distance of a word to itself is in the last cell of each row.
LEMMA DiagonalIsZero ==
    ASSUME NEW v \in Words, NEW h \in RowsOf(v, v)
    PROVE  h[Len(v)][Len(v) + 1] = 0
<1> DEFINE n == Len(v)
           T == {i \in 0..n : h[i][i + 1] = 0}
<1>0. n \in Nat /\ h \in [0..n -> Cells(n)] /\ v \in Seq(STRING)
  BY DEF RowsOf, Words, Letter
<1>1. 0 \in T
  BY <1>0 DEF RowsOf
<1>2. ASSUME NEW i \in 1..n, i - 1 \in T PROVE i \in T
  <2>1. i \in 0..n /\ i - 1 \in 0..n /\ (i - 1) + 1 = i
    BY <1>0
  <2>2. h[i - 1] \in Cells(n) /\ h[i] \in Cells(n) /\ Next(h[i - 1], v[i], v, h[i]) /\ h[i - 1][i] = 0
    BY <1>0, <1>2, <2>1 DEF RowsOf
  <2>3. h[i][i + 1] \in Nat /\ IsLeast(h[i][i + 1], h[i - 1][i + 1], h[i][i], h[i - 1][i], Cost(v[i], v[i]))
    BY <1>0, <2>2, CellsOf
  <2>4. h[i][i + 1] <= 0
    BY <2>2, <2>3 DEF IsLeast, Cost
  <2>5. QED
    BY <2>1, <2>3, <2>4
<1>3. 0..n \subseteq T
  <2> HIDE DEF T
  <2> QED BY <1>0, <1>1, <1>2, Climb
<1>4. QED
  BY <1>0, <1>3

\* The first column counts the letters.
LEMMA FirstCells ==
    ASSUME NEW u \in Words, NEW v \in Words, NEW h \in RowsOf(u, v)
    PROVE  \A i \in 0..Len(u) : h[i][1] = i
<1> DEFINE m == Len(u)
           T == {i \in 0..m : h[i][1] = i}
<1>0. m \in Nat /\ Len(v) \in Nat
  BY DEF Words
<1>1. 0 \in T
  BY <1>0 DEF RowsOf
<1>2. ASSUME NEW i \in 1..m, i - 1 \in T PROVE i \in T
  <2>1. Next(h[i - 1], u[i], v, h[i])
    BY DEF RowsOf
  <2>2. h[i][1] = (i - 1) + 1
    BY <1>2, <2>1 DEF Next
  <2>3. QED
    BY <1>0, <2>2
<1>3. 0..m \subseteq T
  <2> HIDE DEF T, m
  <2> QED BY <1>0, <1>1, <1>2, Climb
<1>4. QED
  BY <1>3

\* The least of three numbers.
LEMMA LeastOfThree ==
    ASSUME NEW a \in Nat, NEW b \in Nat, NEW c \in Nat
    PROVE  /\ Min({a, b, c}) \in {a, b, c}
           /\ Min({a, b, c}) <= a /\ Min({a, b, c}) <= b /\ Min({a, b, c}) <= c
<1>1. \E x \in {a, b, c} : \A y \in {a, b, c} : x <= y
  OBVIOUS
<1>2. QED
  BY <1>1 DEF Min

\* Two cells of a row that are next to each other.
LEMMA InRow ==
    ASSUME NEW n \in Nat, NEW p \in Cells(n), NEW j \in 1..n
    PROVE  p[j + 1] \in Nat /\ p[j] \in Nat /\ p[1] \in Nat
<1>1. j \in 1..(n + 1) /\ j + 1 \in 1..(n + 1) /\ 1 \in 1..(n + 1)
  OBVIOUS
<1>2. QED
  BY <1>1 DEF Cells

\* A row with the next cell.
Extended(row, j, p, l, v) ==
    Append(row, Min({p[j + 1] + 1, Last(row) + 1, p[j] + (IF l = v[j] THEN 0 ELSE 1)}))

\* The beginnings of the next row.
Beginnings(h, n, p, l, v) ==
    /\ h \in [0..n -> Seq(Nat) \ {<< >>}]
    /\ h[0] = <<p[1] + 1>>
    /\ \A k \in 1..n : h[k] = Extended(h[k - 1], k, p, l, v)

\* NextRow puts cells together one after the other.
LEMMA CellsPass ==
    ASSUME NEW v \in Words, NEW n, n = Len(v), NEW p \in Cells(n), NEW l
    PROVE  \E h : Beginnings(h, n, p, l, v) /\ NextRow(p, l, v) = h[n]
<1> DEFINE S == Seq(Nat) \ {<< >>}
           step == [q \in (1..n) \X S |-> Extended(q[2], q[1], p, l, v)]
           Fold(g) == g = [s \in SUBSET (1..n) |->
                             IF s = {} THEN <<p[1] + 1>>
                             ELSE Extended(g[s \ {Max(s)}], Max(s), p, l, v)]
           places == [j \in DOMAIN v |-> j]
<1>0. n \in Nat /\ DOMAIN v = 1..n /\ DOMAIN places = 1..n
  BY DEF Words
<1>1. <<p[1] + 1>> \in S
  <2>1. 1 \in 1..(n + 1)
    BY <1>0
  <2>2. p[1] \in Nat
    BY <2>1 DEF Cells
  <2> DEFINE c == p[1] + 1
  <2>3. c \in Nat
    BY <2>2
  <2> HIDE DEF c
  <2>4. <<c>> \in S
    BY <2>3
  <2>5. QED
    BY <2>4 DEF c
<1>2. ASSUME NEW j \in 1..n, NEW row \in S PROVE Extended(row, j, p, l, v) \in S
  <2>1. p[j + 1] \in Nat /\ p[j] \in Nat
    BY <1>0, InRow
  <2>2. Last(row) \in Nat
    <3>1. Len(row) \in Nat /\ Len(row) # 0 /\ Len(row) \in 1..Len(row)
      OBVIOUS
    <3>2. row[Len(row)] \in Nat
      BY <3>1
    <3>3. QED
      BY <3>2 DEF Last
  <2> DEFINE a == p[j + 1] + 1
             b == Last(row) + 1
             c == p[j] + (IF l = v[j] THEN 0 ELSE 1)
  <2>3. a \in Nat /\ b \in Nat /\ c \in Nat
    <3>1. a \in Nat /\ b \in Nat
      BY <2>1, <2>2
    <3>2. c \in Nat
      BY <2>1
    <3>3. QED
      BY <3>1, <3>2
  <2> HIDE DEF a, b, c
  <2>4. Min({a, b, c}) \in Nat
    BY <2>3, LeastOfThree
  <2>5. Append(row, Min({a, b, c})) \in S
    BY <2>4
  <2>6. QED
    BY <2>5 DEF Extended, a, b, c
<1>3. step \in [(1..n) \X S -> S]
  <2> HIDE DEF S
  <2> QED BY <1>2
<1>4. PICK f : Unfolded(f, n, S, <<p[1] + 1>>, step)
  <2> HIDE DEF step, S
  <2> QED BY <1>0, <1>1, <1>3, FoldUnfolds
<1>5. Fold(f)
  BY <1>4 DEF Unfolded
<1>6. NextRow(p, l, v) = (CHOOSE g : Fold(g))[1..n]
  <2>1. \A s \in SUBSET (1..n) : s # {} => places[Max(s)] = Max(s)
    BY <1>0, Greatest
  <2> DEFINE Fold2(g) == g = [s \in SUBSET (1..n) |->
                             IF s = {} THEN <<p[1] + 1>>
                             ELSE Extended(g[s \ {Max(s)}], places[Max(s)], p, l, v)]
  <2>2. NextRow(p, l, v) = (CHOOSE g : Fold2(g))[1..n]
    BY <1>0 DEF NextRow, FoldLeft, MapThenFoldSet, Extended, Max
  <2>3. ASSUME NEW g PROVE Fold2(g) <=> Fold(g)
    BY <2>1
  <2>4. (CHOOSE g : Fold2(g)) = (CHOOSE g : Fold(g))
    <3> HIDE DEF Fold2
    <3> QED BY <2>3
  <2>5. QED
    BY <2>2, <2>4
<1>7. PICK g : Fold(g) /\ NextRow(p, l, v) = g[1..n]
  <2> HIDE DEF Fold
  <2> QED BY <1>5, <1>6
<1>8. g[{}] = <<p[1] + 1>>
  BY <1>7
<1>9. ASSUME NEW s \in SUBSET (1..n), s # {}, g[s \ {Max(s)}] \in S
      PROVE  g[s] = step[<<Max(s), g[s \ {Max(s)}]>>]
  <2>1. Max(s) \in 1..n
    BY <1>0, <1>9, Greatest
  <2>2. QED
    BY <1>7, <1>9, <2>1
<1> DEFINE h == [k \in 0..n |-> g[1..k]]
<1>10. h \in Passes(n, S, <<p[1] + 1>>, step)
  <2> HIDE DEF step, Fold, S
  <2> QED BY <1>0, <1>1, <1>3, <1>8, <1>9, FoldPasses
<1>11. h[n] = g[1..n]
  BY <1>0
<1>12. /\ h \in [0..n -> S] /\ h[0] = <<p[1] + 1>>
       /\ \A k \in 1..n : h[k] = Extended(h[k - 1], k, p, l, v)
  <2>1. h \in [0..n -> S] /\ h[0] = <<p[1] + 1>> /\ \A k \in 1..n : h[k] = step[<<k, h[k - 1]>>]
    <3> HIDE DEF h, step, S
    <3> QED BY <1>10 DEF Passes
  <2>2. \A k \in 1..n : <<k, h[k - 1]>> \in (1..n) \X S
    <3> HIDE DEF h, S
    <3> QED BY <1>0, <2>1
  <2>3. \A k \in 1..n : step[<<k, h[k - 1]>>] = Extended(h[k - 1], k, p, l, v)
    <3> HIDE DEF h, S
    <3> QED BY <2>2
  <2>4. QED
    BY <2>1, <2>3
<1>13. QED
  <2> HIDE DEF h
  <2> QED BY <1>7, <1>11, <1>12 DEF Beginnings

\* NextRow gives the next row.
LEMMA NextRowIs ==
    ASSUME NEW v \in Words, NEW n, n = Len(v), NEW p \in Cells(n), NEW l
    PROVE  NextRow(p, l, v) \in Cells(n) /\ Next(p, l, v, NextRow(p, l, v))
<1>0. n \in Nat
  BY DEF Words
<1>a. PICK h : Beginnings(h, n, p, l, v) /\ NextRow(p, l, v) = h[n]
  BY CellsPass
<1>1. /\ h \in [0..n -> Seq(Nat) \ {<< >>}]
      /\ h[0] = <<p[1] + 1>>
      /\ \A k \in 1..n : h[k] = Extended(h[k - 1], k, p, l, v)
  BY <1>a DEF Beginnings
<1> DEFINE Good(row, k) ==
             /\ Len(row) = k + 1 /\ row[1] = p[1] + 1
             /\ \A j \in 1..k : IsLeast(row[j + 1], p[j + 1], row[j], p[j], Cost(l, v[j]))
           T == {k \in 0..n : Good(h[k], k)}
<1>2. 0 \in T
  <2>1. Good(<<p[1] + 1>>, 0)
    OBVIOUS
  <2>2. 0 \in 0..n
    BY <1>0
  <2> HIDE DEF Good
  <2>3. Good(h[0], 0)
    BY <1>1, <2>1
  <2>4. QED
    BY <2>2, <2>3
<1>3. ASSUME NEW k \in 1..n, k - 1 \in T PROVE k \in T
  <2> DEFINE row == h[k - 1]
             a == p[k + 1] + 1
             b == Last(row) + 1
             c == p[k] + Cost(l, v[k])
             least == Min({a, b, c})
  <2>1. /\ k \in 0..n /\ k - 1 \in 0..n /\ (k - 1) + 1 = k /\ k \in Nat
        /\ row \in Seq(Nat) /\ p[k + 1] \in Nat /\ p[k] \in Nat
    <3>1. k \in 0..n /\ k - 1 \in 0..n /\ (k - 1) + 1 = k /\ k \in Nat
      BY <1>0
    <3>2. row \in Seq(Nat)
      BY <1>1, <3>1
    <3>3. QED
      BY <1>0, <3>1, <3>2, InRow
  <2>2. /\ Len(row) = k /\ row[1] = p[1] + 1
        /\ \A j \in 1..(k - 1) : IsLeast(row[j + 1], p[j + 1], row[j], p[j], Cost(l, v[j]))
    BY <1>3, <2>1
  <2>3. Last(row) = row[k] /\ row[k] \in Nat
    BY <2>1, <2>2 DEF Last
  <2>4. h[k] = Append(row, least)
    BY <1>1 DEF Extended, Cost
  <2>5. a \in Nat /\ b \in Nat /\ c \in Nat
    <3>1. Last(row) \in Nat /\ Cost(l, v[k]) \in {0, 1}
      BY <2>3 DEF Cost
    <3>2. QED
      BY <2>1, <3>1
  <2>6. IsLeast(least, p[k + 1], row[k], p[k], Cost(l, v[k])) /\ least \in Nat
    <3>1. least \in {a, b, c} /\ least <= a /\ least <= b /\ least <= c
      <4> HIDE DEF a, b, c
      <4> QED BY <2>5, LeastOfThree
    <3>2. QED
      BY <2>3, <2>5, <3>1 DEF IsLeast
  <2> HIDE DEF row, least, a, b, c
  <2> DEFINE next == Append(row, least)
  <2>7. /\ Len(next) = k + 1 /\ next[k + 1] = least
        /\ \A j \in 1..k : next[j] = row[j]
    BY <2>1, <2>2, <2>6
  <2> HIDE DEF next
  <2>8. next[1] = p[1] + 1
    BY <2>1, <2>2, <2>7
  <2>9. ASSUME NEW j \in 1..k PROVE IsLeast(next[j + 1], p[j + 1], next[j], p[j], Cost(l, v[j]))
    <3>1. CASE j = k
      BY <2>6, <2>7, <3>1
    <3>2. CASE j # k
      <4>1. j \in 1..(k - 1) /\ j + 1 \in 1..k
        BY <2>1, <3>2
      <4>2. QED
        BY <2>2, <2>7, <4>1
    <3>3. QED
      BY <3>1, <3>2
  <2>10. Good(next, k)
    BY <2>7, <2>8, <2>9
  <2>11. QED
    BY <2>1, <2>4, <2>10 DEF next
<1>4. 0..n \subseteq T
  <2> HIDE DEF T
  <2> QED BY <1>0, <1>2, <1>3, Climb
<1>5. h[n] \in Seq(Nat) /\ Good(h[n], n)
  <2>1. n \in 0..n
    BY <1>0
  <2>2. n \in T
    BY <1>4, <2>1
  <2>3. QED
    BY <1>1, <2>1, <2>2
<1>6. h[n] \in Cells(n)
  BY <1>0, <1>5 DEF Cells
<1>7. QED
  BY <1>a, <1>5, <1>6 DEF Next

\* The last row of the table of two words is what Distance folds.
LEMMA RowsPass ==
    ASSUME NEW u \in Words, NEW v \in Words
    PROVE  \E h \in RowsOf(u, v) :
              u # v /\ u # << >> /\ v # << >> => Distance(u, v) = h[Len(u)][Len(v) + 1]
<1> DEFINE n == Len(v)
           m == Len(u)
           S == Cells(n)
           base == [j \in 1..(Len(v) + 1) |-> j - 1]
           step == [q \in (1..m) \X S |-> NextRow(q[2], u[q[1]], v)]
           Fold(g) == g = [s \in SUBSET (1..m) |->
                             IF s = {} THEN base ELSE NextRow(g[s \ {Max(s)}], u[Max(s)], v)]
<1>0. n \in Nat /\ m \in Nat /\ DOMAIN u = 1..m /\ base \in S
  BY DEF Words, Cells
<1>1. step \in [(1..m) \X S -> S]
  BY NextRowIs
<1>2. PICK f : Unfolded(f, m, S, base, step)
  <2> HIDE DEF step, S, base, m
  <2> QED BY <1>0, <1>1, FoldUnfolds
<1>3. Fold(f)
  BY <1>2 DEF Unfolded
<1> DEFINE last == (CHOOSE g : Fold(g))[1..m]
<1>4. u # v /\ u # << >> /\ v # << >> => Distance(u, v) = Last(last)
  <2> HIDE DEF n
  <2> QED BY <1>0 DEF Distance, FoldLeft, MapThenFoldSet, Max
<1>5. PICK g : Fold(g) /\ last = g[1..m]
  <2> HIDE DEF Fold
  <2> QED BY <1>3
<1> HIDE DEF last
<1>6. g[{}] = base
  BY <1>5
<1>7. ASSUME NEW s \in SUBSET (1..m), s # {}, g[s \ {Max(s)}] \in S
      PROVE  g[s] = step[<<Max(s), g[s \ {Max(s)}]>>]
  <2>1. Max(s) \in 1..m
    BY <1>0, <1>7, Greatest
  <2>2. QED
    BY <1>5, <1>7, <2>1
<1> DEFINE h == [k \in 0..m |-> g[1..k]]
<1>8. h \in Passes(m, S, base, step)
  <2> HIDE DEF step, Fold, S, base, m
  <2> QED BY <1>0, <1>1, <1>6, <1>7, FoldPasses
<1>9. h[m] = last
  BY <1>0, <1>5
<1>10. /\ h \in [0..m -> S] /\ h[0] = base
       /\ \A k \in 1..m : h[k] = NextRow(h[k - 1], u[k], v)
  <2>1. h \in [0..m -> S] /\ h[0] = base /\ \A k \in 1..m : h[k] = step[<<k, h[k - 1]>>]
    <3> HIDE DEF h, step, S, base, m
    <3> QED BY <1>8 DEF Passes
  <2>2. \A k \in 1..m : <<k, h[k - 1]>> \in (1..m) \X S
    <3> HIDE DEF h, S, base, m
    <3> QED BY <1>0, <2>1
  <2>3. \A k \in 1..m : step[<<k, h[k - 1]>>] = NextRow(h[k - 1], u[k], v)
    <3> HIDE DEF h, S, base, m
    <3> QED BY <2>2
  <2>4. QED
    BY <2>1, <2>3
<1> HIDE DEF h
<1>11. \A k \in 1..m : h[k - 1] \in S
  BY <1>0, <1>10
<1>12. \A k \in 1..m : Next(h[k - 1], u[k], v, h[k])
  BY <1>10, <1>11, NextRowIs
<1>13. h \in RowsOf(u, v)
  BY <1>10, <1>12 DEF RowsOf
<1>14. Last(last) = h[m][n + 1]
  <2>1. last \in [1..(n + 1) -> Nat]
    BY <1>0, <1>9, <1>10 DEF Cells
  <2>2. Len(last) = n + 1
    BY <1>0, <2>1
  <2>3. QED
    BY <1>9, <2>2 DEF Last
<1>15. QED
  BY <1>4, <1>13, <1>14

\* There are rows of any two words.
LEMMA RowsExist ==
    ASSUME NEW u \in Words, NEW v \in Words
    PROVE  \E h : h \in RowsOf(u, v)
BY RowsPass

\* The distance is the last cell of the last row.
LEMMA DistanceIsLast ==
    ASSUME NEW u \in Words, NEW v \in Words, NEW h \in RowsOf(u, v)
    PROVE  Distance(u, v) = h[Len(u)][Len(v) + 1] /\ Distance(u, v) \in Nat
<1>0. Len(u) \in Nat /\ Len(v) \in Nat
  BY DEF Words
<1>1. h[Len(u)][Len(v) + 1] \in Nat
  <2>1. h \in [0..Len(u) -> Cells(Len(v))] /\ Len(u) \in 0..Len(u) /\ Len(v) + 1 \in 1..(Len(v) + 1)
    BY <1>0 DEF RowsOf
  <2>2. h[Len(u)] \in Cells(Len(v))
    BY <2>1
  <2>3. QED
    BY <2>1, <2>2 DEF Cells
<1>2. CASE u = v
  <2>1. Distance(u, v) = 0
    BY <1>2 DEF Distance
  <2>2. h \in RowsOf(v, v)
    BY <1>2
  <2>3. h[Len(v)][Len(v) + 1] = 0
    BY <2>2, DiagonalIsZero
  <2>4. QED
    BY <1>2, <2>1, <2>3
<1>3. CASE u # v /\ u = << >>
  <2>1. Distance(u, v) = Len(v)
    BY <1>3 DEF Distance
  <2>2. Len(u) = 0
    BY <1>3
  <2>3. h[0] = [j \in 1..(Len(v) + 1) |-> j - 1]
    BY DEF RowsOf
  <2>4. h[0][Len(v) + 1] = Len(v)
    BY <1>0, <2>3
  <2>5. QED
    BY <1>0, <2>1, <2>2, <2>4
<1>4. CASE u # v /\ u # << >> /\ v = << >>
  <2>1. Distance(u, v) = Len(u)
    BY <1>4 DEF Distance
  <2>2. Len(v) + 1 = 1 /\ Len(u) \in 0..Len(u)
    BY <1>0, <1>4
  <2>3. h[Len(u)][1] = Len(u)
    BY <2>2, FirstCells
  <2>4. QED
    BY <1>0, <2>1, <2>2, <2>3
<1>5. CASE u # v /\ u # << >> /\ v # << >>
  <2>1. PICK g \in RowsOf(u, v) : Distance(u, v) = g[Len(u)][Len(v) + 1]
    BY <1>5, RowsPass
  <2>2. u \in Seq(STRING) /\ v \in Seq(STRING)
    BY DEF Words, Letter
  <2>3. Len(u) \in Nat /\ Len(u) <= Len(u) /\ \A i \in 1..Len(u) : u[i] = u[i]
    BY <1>0
  <2>4. h[Len(u)] = g[Len(u)]
    BY <2>2, <2>3, SameRows
  <2>5. QED
    BY <1>1, <2>1, <2>4
<1>6. QED
  BY <1>2, <1>3, <1>4, <1>5

\* What the distance is at most can be reached by as many edits.
LEMMA DistanceIsReached ==
    ASSUME NEW u \in Words, NEW v \in Words, NEW A \in SUBSET Letter, \A j \in 1..Len(v) : v[j] \in A,
           NEW k \in {0, 1, 2}, Distance(u, v) <= k
    PROVE  v \in Within(k, u, A)
<1>1. PICK h : h \in RowsOf(u, v)
  BY RowsExist
<1>2. Distance(u, v) = h[Len(u)][Len(v) + 1]
  BY <1>1, DistanceIsLast
<1>3. Len(u) \in 0..Len(u) /\ Len(v) + 1 \in 1..(Len(v) + 1) /\ (Len(v) + 1) - 1 = Len(v)
  BY DEF Words
<1>4. Reached(u, v, A, Len(u), Len(v), h[Len(u)][Len(v) + 1])
  <2>1. Reached(u, v, A, Len(u), (Len(v) + 1) - 1, h[Len(u)][Len(v) + 1])
    BY <1>1, <1>3, CellsAreReached
  <2>2. QED
    BY <1>3, <2>1
<1>5. Start(v, Len(v)) \in Within(k, Start(u, Len(u)), A)
  BY <1>2, <1>4 DEF Reached
<1>6. QED
  BY <1>5, StartsOf

\* Edits of words are words.
LEMMA EditsAreWords ==
    ASSUME NEW w \in Words, NEW A \in SUBSET Letter, NEW x \in Edited(w, A)
    PROVE  x \in Words
<1>1. \/ \E n \in 0..(Len(w) - 1) : x = Deleted(w, n)
      \/ \E n \in 0..Len(w), c \in A : x = Inserted(w, n, c)
      \/ \E n \in 0..(Len(w) - 1), c \in A : x = Swapped(w, n, c)
  BY EditsOf
<1>2. \A c \in A : c \in Letter
  OBVIOUS
<1>3. QED
  BY <1>1, <1>2, DeletedIs, InsertedIs, SwappedIs

\* An edit adds one to the distance at most.
LEMMA EditAddsOne ==
    ASSUME NEW u \in Words, NEW v \in Words, NEW A \in SUBSET Letter, NEW y \in Edited(u, A) \cup {u}
    PROVE  y \in Words /\ Distance(u, v) <= Distance(y, v) + 1
<1>1. CASE y = u
  <2>1. PICK h : h \in RowsOf(u, v)
    BY RowsExist
  <2>2. Distance(u, v) \in Nat
    BY <2>1, DistanceIsLast
  <2>3. QED
    BY <1>1, <2>2
<1>2. CASE y \in Edited(u, A)
  <2>2. y \in Words
    BY <1>2, EditsAreWords
  <2>3. PICK h : h \in RowsOf(u, v)
    BY RowsExist
  <2>4. PICK g : g \in RowsOf(y, v)
    BY <2>2, RowsExist
  <2>5. Close(h[Len(u)], g[Len(y)], Len(v))
    BY <1>2, <2>3, <2>4, EditIsClose
  <2>6. Len(v) + 1 \in 1..(Len(v) + 1)
    BY DEF Words
  <2>7. h[Len(u)][Len(v) + 1] <= g[Len(y)][Len(v) + 1] + 1
    BY <2>5, <2>6 DEF Close
  <2>8. QED
    BY <2>2, <2>3, <2>4, <2>7, DistanceIsLast
<1>3. QED
  BY <1>1, <1>2

\* As many edits as a word is away are at least its distance.
LEMMA ReachedIsDistance ==
    ASSUME NEW u \in Words, NEW v \in Words, NEW A \in SUBSET Letter
    PROVE  /\ v \in Near({u}, A) => Distance(u, v) <= 1
           /\ v \in Near(Near({u}, A), A) => Distance(u, v) <= 2
<1>0. ASSUME NEW w \in Words PROVE Distance(w, v) \in Nat
  BY RowsExist, DistanceIsLast
<1>1. Distance(v, v) = 0
  BY DEF Distance
<1>2. ASSUME NEW y \in Words, v \in Near({y}, A) PROVE Distance(y, v) <= 1
  <2>1. v \in Edited(y, A) \cup {y}
    BY <1>2, NearOne
  <2>2. Distance(y, v) <= Distance(v, v) + 1
    BY <2>1, EditAddsOne
  <2>3. QED
    BY <1>1, <2>2
<1>3. ASSUME v \in Near(Near({u}, A), A) PROVE Distance(u, v) <= 2
  <2>1. PICK y \in Near({u}, A) : v = y \/ v \in Edited(y, A)
    BY <1>3, NearTwo
  <2>2. y \in Edited(u, A) \cup {u}
    BY <2>1, NearOne
  <2>3. y \in Words /\ Distance(u, v) <= Distance(y, v) + 1
    BY <2>2, EditAddsOne
  <2>4. v \in Near({y}, A)
    BY <2>1, NearOne
  <2>5. Distance(y, v) <= 1
    BY <1>2, <2>3, <2>4
  <2>6. QED
    BY <1>0, <2>3, <2>5
<1>4. QED
  BY <1>2, <1>3

\* Two words are equal only at no distance.
LEMMA ZeroIsEqual ==
    ASSUME NEW u \in Words, NEW v \in Words, NEW A \in SUBSET Letter, \A j \in 1..Len(v) : v[j] \in A,
           NEW d, d = Distance(u, v)
    PROVE  /\ d \in Nat
           /\ d = 0 <=> u = v
           /\ d <= 1 <=> v \in Near({u}, A)
           /\ d <= 2 <=> v \in Near(Near({u}, A), A)
<1>0. d \in Nat
  BY RowsExist, DistanceIsLast
<1>1. u = v => d = 0
  BY DEF Distance
<1>2. \A k \in {0, 1, 2} : d <= k => v \in Within(k, u, A)
  BY DistanceIsReached
<1>3. /\ d <= 0 => v \in {u}
      /\ d <= 1 => v \in Near({u}, A)
      /\ d <= 2 => v \in Near(Near({u}, A), A)
  BY <1>2 DEF Within
<1>4. /\ v \in Near({u}, A) => d <= 1
      /\ v \in Near(Near({u}, A), A) => d <= 2
  BY ReachedIsDistance
<1>5. d = 0 <=> u = v
  <2>1. d <= 0 => v = u
    BY <1>3
  <2>2. QED
    BY <1>0, <1>1, <2>1
<1>6. QED
  BY <1>0, <1>3, <1>4, <1>5

\* The distance counts edits (_levenshtein_distance).
LEMMA DistancesAreEdits ==
    ASSUME On("distance") => In \in Seq(STRING) \X Seq(STRING)
    PROVE  DistanceIsEdits
<1> SUFFICES ASSUME On("distance") PROVE DistanceIsEdits
  BY DEF DistanceIsEdits
<1> DEFINE u == In[1]
           v == In[2]
           A == ToSet(v)
<1>1. u \in Words /\ v \in Words
  BY DEF Words, Letter
<1>2. A \in SUBSET Letter /\ \A j \in 1..Len(v) : v[j] \in A
  BY <1>1 DEF Words, ToSet
<1> HIDE DEF u, v, A
<1>3. LET d == Distance(u, v)
      IN  /\ d = 0 <=> u = v
          /\ d <= 1 <=> v \in Near({u}, A)
          /\ d <= 2 <=> v \in Near(Near({u}, A), A)
  BY <1>1, <1>2, ZeroIsEqual
<1>4. QED
  BY <1>3 DEF DistanceIsEdits, u, v, A

-----------------------------------------------------------------------------
(* Suggestions.                                                            *)

\* A mapping that is compared and close enough, and the best of those before.
IsNear(key, m) == Distance(key, m.key) <= 2 /\ ~LengthsDiffer(key, m.key)
Candidate(key, m) == [mapping |-> m, distance |-> Distance(key, m.key)]
NoBetter(key, m, other) ==
    \/ Distance(key, other.key) > Distance(key, m.key)
    \/ Distance(key, other.key) = Distance(key, m.key) /\ other.used <= m.used
BestOf(b, key, ms, k) ==
    \/ b = << >> /\ \A i \in 1..k : ~IsNear(key, ms[i])
    \/ \E j \in 1..k : /\ b = Candidate(key, ms[j]) /\ IsNear(key, ms[j])
                       /\ \A i \in 1..k : IsNear(key, ms[i]) => NoBetter(key, ms[j], ms[i])

\* Fields of mappings and candidates.
LEMMA MappingFields ==
    ASSUME NEW m \in Mapping, NEW key \in Words
    PROVE  /\ m.key \in Words /\ m.used \in Nat /\ m.usage \in Nat
           /\ Distance(key, m.key) \in Nat
           /\ Candidate(key, m).mapping = m /\ Candidate(key, m).distance = Distance(key, m.key)
           /\ Candidate(key, m) # << >>
<1>1. m.key \in Words /\ m.used \in Nat /\ m.usage \in Nat
  BY DEF Mapping, Words, Letter
<1>2. Distance(key, m.key) \in Nat
  BY <1>1, RowsExist, DistanceIsLast
<1>3. Candidate(key, m).mapping = m /\ Candidate(key, m).distance = Distance(key, m.key)
  BY DEF Candidate
<1>4. "mapping" \in DOMAIN Candidate(key, m)
  BY DEF Candidate
<1>5. DOMAIN << >> = {}
  OBVIOUS
<1>6. Candidate(key, m) # << >>
  BY <1>4, <1>5
<1>7. QED
  BY <1>1, <1>2, <1>3, <1>6

\* What Consider does.
LEMMA ConsiderIs ==
    ASSUME NEW key \in Words, NEW m \in Mapping, NEW b
    PROVE  /\ ~IsNear(key, m) => Consider(key, b, m) = b
           /\ IsNear(key, m) /\ b = << >> => Consider(key, b, m) = Candidate(key, m)
           /\ \A o \in Mapping : IsNear(key, m) /\ b = Candidate(key, o) =>
                 \/ Consider(key, b, m) = b /\ NoBetter(key, o, m)
                 \/ Consider(key, b, m) = Candidate(key, m) /\ NoBetter(key, m, o)
<1> DEFINE d == Distance(key, m.key)
<1>1. d \in Nat /\ m.used \in Nat
  BY MappingFields
<1>2. Consider(key, b, m) = IF ~IsNear(key, m) \/ ~Better(m, d, b) THEN b ELSE Candidate(key, m)
  BY <1>1 DEF Consider, IsNear, Candidate
<1>3. IsNear(key, m) /\ b = << >> => Consider(key, b, m) = Candidate(key, m)
  BY <1>2 DEF Better
<1>4. ASSUME NEW o \in Mapping, IsNear(key, m), b = Candidate(key, o)
      PROVE  \/ Consider(key, b, m) = b /\ NoBetter(key, o, m)
             \/ Consider(key, b, m) = Candidate(key, m) /\ NoBetter(key, m, o)
  <2> DEFINE e == Distance(key, o.key)
  <2>1. e \in Nat /\ o.used \in Nat /\ b.mapping = o /\ b.distance = e /\ b # << >>
    BY <1>4, MappingFields
  <2>2. Better(m, d, b) <=> d < e \/ (d = e /\ m.used > o.used)
    BY <2>1 DEF Better
  <2>3. /\ NoBetter(key, o, m) <=> d > e \/ (d = e /\ m.used <= o.used)
        /\ NoBetter(key, m, o) <=> e > d \/ (e = d /\ o.used <= m.used)
    BY DEF NoBetter
  <2> HIDE DEF d, e
  <2>4. CASE Better(m, d, b)
    <3>1. NoBetter(key, m, o)
      BY <1>1, <2>1, <2>2, <2>3, <2>4
    <3>2. QED
      BY <1>2, <1>4, <2>4, <3>1
  <2>5. CASE ~Better(m, d, b)
    <3>1. NoBetter(key, o, m)
      BY <1>1, <2>1, <2>2, <2>3, <2>5
    <3>2. QED
      BY <1>2, <2>5, <3>1
  <2>6. QED
    BY <2>4, <2>5
<1>5. QED
  BY <1>2, <1>3, <1>4

\* What is no better than a mapping is no better than one that is better still.
LEMMA NoBetterPasses ==
    ASSUME NEW key \in Words, NEW a \in Mapping, NEW b \in Mapping, NEW c \in Mapping,
           NoBetter(key, a, b), NoBetter(key, b, c)
    PROVE  NoBetter(key, a, c)
<1> DEFINE d == Distance(key, a.key)
           e == Distance(key, b.key)
           f == Distance(key, c.key)
<1>1. d \in Nat /\ e \in Nat /\ f \in Nat /\ a.used \in Nat /\ b.used \in Nat /\ c.used \in Nat
  BY MappingFields
<1>2. /\ e > d \/ (e = d /\ b.used <= a.used)
      /\ f > e \/ (f = e /\ c.used <= b.used)
  BY DEF NoBetter
<1>3. f > d \/ (f = d /\ c.used <= a.used)
  <2> HIDE DEF d, e, f
  <2> QED BY <1>1, <1>2
<1>4. QED
  BY <1>3 DEF NoBetter

\* One mapping more.
LEMMA OneMore ==
    ASSUME NEW key \in Words, NEW n, NEW ms \in [1..n -> Mapping], NEW b, n \in Nat,
           NEW k \in 1..n, BestOf(b, key, ms, k - 1)
    PROVE  BestOf(Consider(key, b, ms[k]), key, ms, k)
<1> DEFINE m == ms[k]
           c == Consider(key, b, m)
<1>1. m \in Mapping /\ k \in 1..k
  OBVIOUS
<1>2. \A i \in 1..k : i = k \/ i \in 1..(k - 1)
  OBVIOUS
<1>3. \A i \in 1..(k - 1) : i \in 1..k /\ ms[i] \in Mapping
  OBVIOUS
<1>4. CASE b = << >> /\ \A i \in 1..(k - 1) : ~IsNear(key, ms[i])
  <2>1. CASE IsNear(key, m)
    <3>1. c = Candidate(key, m)
      BY <1>1, <1>4, <2>1, ConsiderIs
    <3>2. NoBetter(key, m, m)
      BY <1>1, MappingFields DEF NoBetter
    <3>3. \A i \in 1..k : IsNear(key, ms[i]) => NoBetter(key, ms[k], ms[i])
      BY <1>2, <1>4, <3>2
    <3>4. QED
      BY <1>1, <2>1, <3>1, <3>3 DEF BestOf
  <2>2. CASE ~IsNear(key, m)
    <3>1. c = << >>
      BY <1>1, <1>4, <2>2, ConsiderIs
    <3>2. \A i \in 1..k : ~IsNear(key, ms[i])
      BY <1>2, <1>4, <2>2
    <3>3. QED
      BY <3>1, <3>2 DEF BestOf
  <2>3. QED
    BY <2>1, <2>2
<1>5. ASSUME NEW j \in 1..(k - 1), b = Candidate(key, ms[j]), IsNear(key, ms[j]),
             \A i \in 1..(k - 1) : IsNear(key, ms[i]) => NoBetter(key, ms[j], ms[i])
      PROVE  BestOf(c, key, ms, k)
  <2>1. ms[j] \in Mapping /\ j \in 1..k
    BY <1>3
  <2>2. CASE c = b /\ (IsNear(key, m) => NoBetter(key, ms[j], m))
    <3>1. \A i \in 1..k : IsNear(key, ms[i]) => NoBetter(key, ms[j], ms[i])
      BY <1>2, <1>5, <2>2
    <3>2. QED
      BY <1>5, <2>1, <2>2, <3>1 DEF BestOf
  <2>3. CASE IsNear(key, m) /\ c = Candidate(key, m) /\ NoBetter(key, m, ms[j])
    <3>1. \A i \in 1..(k - 1) : IsNear(key, ms[i]) => NoBetter(key, m, ms[i])
      BY <1>1, <1>3, <1>5, <2>1, <2>3, NoBetterPasses
    <3>2. NoBetter(key, m, m)
      BY <1>1, MappingFields DEF NoBetter
    <3>3. \A i \in 1..k : IsNear(key, ms[i]) => NoBetter(key, ms[k], ms[i])
      BY <1>2, <3>1, <3>2
    <3>4. QED
      BY <1>1, <2>3, <3>3 DEF BestOf
  <2>4. QED
    BY <1>1, <1>5, <2>1, <2>2, <2>3, ConsiderIs
<1>6. QED
  BY <1>4, <1>5 DEF BestOf

\* The best of all that are compared.
ChosenFrom(key, ms) == FoldLeft(LAMBDA b, m : Consider(key, b, m), << >>, ms)

\* What is left at the end is the best of all.
LEMMA ChosenIsBest ==
    ASSUME NEW key \in Words, NEW ms \in Seq(Mapping)
    PROVE  BestOf(ChosenFrom(key, ms), key, ms, Len(ms))
<1> DEFINE n == Len(ms)
           S == {<< >>} \cup {Candidate(key, m) : m \in Mapping}
           step == [q \in (1..n) \X S |-> Consider(key, q[2], ms[q[1]])]
           Fold(g) == g = [s \in SUBSET (1..n) |->
                             IF s = {} THEN << >> ELSE Consider(key, g[s \ {Max(s)}], ms[Max(s)])]
<1>0. n \in Nat /\ DOMAIN ms = 1..n /\ ms \in [1..n -> Mapping]
  OBVIOUS
<1>a. << >> \in S
  OBVIOUS
<1>1. step \in [(1..n) \X S -> S]
  <2>1. ASSUME NEW k \in 1..n, NEW b \in S PROVE Consider(key, b, ms[k]) \in S
    <3>1. ms[k] \in Mapping
      BY <1>0
    <3>2. b = << >> \/ \E o \in Mapping : b = Candidate(key, o)
      BY <2>1
    <3>3. Consider(key, b, ms[k]) = b \/ Consider(key, b, ms[k]) = Candidate(key, ms[k])
      BY <3>1, <3>2, ConsiderIs
    <3>4. QED
      BY <2>1, <3>1, <3>3
  <2> HIDE DEF S, n
  <2>2. QED
    BY <2>1
<1>2. PICK f : Unfolded(f, n, S, << >>, step)
  <2> HIDE DEF step, S, n
  <2> QED BY <1>0, <1>a, <1>1, FoldUnfolds
<1>3. Fold(f)
  BY <1>2 DEF Unfolded
<1> DEFINE last == (CHOOSE g : Fold(g))[1..n]
<1>4. ChosenFrom(key, ms) = last
  <2> HIDE DEF n
  <2> QED BY <1>0 DEF ChosenFrom, FoldLeft, MapThenFoldSet, Max
<1>5. PICK g : Fold(g) /\ last = g[1..n]
  <2> HIDE DEF Fold
  <2> QED BY <1>3
<1> HIDE DEF last
<1>6. g[{}] = << >>
  BY <1>5
<1>7. ASSUME NEW s \in SUBSET (1..n), s # {}, g[s \ {Max(s)}] \in S
      PROVE  g[s] = step[<<Max(s), g[s \ {Max(s)}]>>]
  <2>1. Max(s) \in 1..n
    BY <1>0, <1>7, Greatest
  <2>2. QED
    BY <1>5, <1>7, <2>1
<1> DEFINE h == [k \in 0..n |-> g[1..k]]
<1>8. h \in Passes(n, S, << >>, step)
  <2> HIDE DEF step, Fold, S, n
  <2> QED BY <1>0, <1>a, <1>1, <1>6, <1>7, FoldPasses
<1>9. h[n] = last
  BY <1>0, <1>5
<1>10. /\ h \in [0..n -> S] /\ h[0] = << >>
       /\ \A k \in 1..n : h[k] = Consider(key, h[k - 1], ms[k])
  <2>1. h \in [0..n -> S] /\ h[0] = << >> /\ \A k \in 1..n : h[k] = step[<<k, h[k - 1]>>]
    <3> HIDE DEF h, step, S, n
    <3> QED BY <1>8 DEF Passes
  <2>2. \A k \in 1..n : <<k, h[k - 1]>> \in (1..n) \X S
    <3> HIDE DEF h, S, n
    <3> QED BY <1>0, <2>1
  <2>3. \A k \in 1..n : step[<<k, h[k - 1]>>] = Consider(key, h[k - 1], ms[k])
    <3> HIDE DEF h, S, n
    <3> QED BY <2>2
  <2>4. QED
    BY <2>1, <2>3
<1> HIDE DEF h
<1> DEFINE T == {k \in 0..n : BestOf(h[k], key, ms, k)}
<1>11. 0 \in T
  BY <1>0, <1>10 DEF BestOf
<1>12. ASSUME NEW k \in 1..n, k - 1 \in T PROVE k \in T
  <2>1. k \in 0..n /\ BestOf(h[k - 1], key, ms, k - 1)
    BY <1>0, <1>12
  <2>2. BestOf(Consider(key, h[k - 1], ms[k]), key, ms, k)
    BY <1>0, <2>1, OneMore
  <2>3. QED
    BY <1>10, <2>1, <2>2
<1>13. 0..n \subseteq T
  <2> HIDE DEF T, n
  <2> QED BY <1>0, <1>11, <1>12, Climb
<1>14. BestOf(h[n], key, ms, n)
  BY <1>0, <1>13
<1>15. QED
  BY <1>4, <1>9, <1>14

\* The mappings that are compared are some of the mappings.
LEMMA ComparedAreSome ==
    ASSUME NEW ms \in Seq(Mapping), Cutoff \in Nat
    PROVE  /\ Compared(ms) \in Seq(Mapping)
           /\ \A n \in DOMAIN Compared(ms) : Compared(ms)[n] \in ToSet(ms)
<1> DEFINE k == Min({Cutoff, Len(ms)})
<1>1. Len(ms) \in Nat
  OBVIOUS
<1>2. k \in 0..Len(ms)
  <2>1. \E x \in {Cutoff, Len(ms)} : \A y \in {Cutoff, Len(ms)} : x <= y
    BY <1>1
  <2>2. k \in {Cutoff, Len(ms)} /\ k <= Len(ms)
    BY <2>1 DEF Min
  <2>3. QED
    BY <1>1, <2>2
<1>3. Compared(ms) = SubSeq(ms, 1, k)
  BY DEF Compared
<1> HIDE DEF k
<1>4. /\ SubSeq(ms, 1, k) \in Seq(Mapping) /\ Len(SubSeq(ms, 1, k)) = k
      /\ \A n \in 1..k : SubSeq(ms, 1, k)[n] = ms[n]
  BY <1>2
<1>5. \A n \in DOMAIN SubSeq(ms, 1, k) : n \in 1..k /\ n \in 1..Len(ms) /\ ms[n] \in ToSet(ms)
  BY <1>1, <1>2, <1>4 DEF ToSet
<1>6. QED
  BY <1>3, <1>4, <1>5

\* What is suggested.
LEMMA SuggestionIs ==
    ASSUME NEW ms, NEW key
    PROVE  LET s     == SuggestForVendor(ms, key)
               exact == {m \in ToSet(ms) : m.key = key}
               best  == ChosenFrom(key, Compared(ms))
           IN  /\ key = << >> => s = NoSuggestion
               /\ key # << >> /\ exact # {} =>
                     \E m \in exact : s = [match |-> "exact", mapping |-> m,
                                           confidence |-> CalculateConfidence(m.usage)]
               /\ key # << >> /\ exact = {} /\ best # << >> =>
                     s = [match |-> "fuzzy", mapping |-> best.mapping,
                          confidence |-> CalculateConfidence(best.mapping.usage) \div 2]
               /\ key # << >> /\ exact = {} /\ best = << >> => s = NoSuggestion
<1> DEFINE s     == SuggestForVendor(ms, key)
           exact == {m \in ToSet(ms) : m.key = key}
           best  == ChosenFrom(key, Compared(ms))
           m     == CHOOSE x \in exact : TRUE
           whole == [match |-> "exact", mapping |-> m, confidence |-> CalculateConfidence(m.usage)]
           part  == [match |-> "fuzzy", mapping |-> best.mapping,
                     confidence |-> CalculateConfidence(best.mapping.usage) \div 2]
<1>1. s = CASE key = << >> -> NoSuggestion
            [] key # << >> /\ exact # {} -> whole
            [] key # << >> /\ exact = {} /\ best # << >> -> part
            [] OTHER -> NoSuggestion
  BY DEF SuggestForVendor, ChosenFrom, FoldLeft, MapThenFoldSet, ToSet
<1>2. exact # {} => m \in exact
  OBVIOUS
<1> HIDE DEF s, exact, best, m, whole, part
<1>3. /\ key = << >> => s = NoSuggestion
      /\ key # << >> /\ exact # {} => s = whole
      /\ key # << >> /\ exact = {} /\ best # << >> => s = part
      /\ key # << >> /\ exact = {} /\ best = << >> => s = NoSuggestion
  BY <1>1
<1>4. QED
  BY <1>2, <1>3 DEF s, exact, best, whole, part

\* The suggestion is the closest (suggest_for_vendor).
LEMMA SuggestionsAreClosest ==
    ASSUME Cutoff \in Nat,
           On("suggestion") => In.key \in Seq(STRING) /\ In.mappings \in Seq(Mapping)
    PROVE  ClosestIsSuggested
<1> SUFFICES ASSUME On("suggestion") PROVE ClosestIsSuggested
  BY DEF ClosestIsSuggested
<1> DEFINE key == In.key
           ms  == In.mappings
           c   == Compared(ms)
           s   == SuggestForVendor(ms, key)
           exact == {m \in ToSet(ms) : m.key = key}
           best  == ChosenFrom(key, c)
           close == {m \in ToSet(c) : Distance(key, m.key) <= 2 /\ ~LengthsDiffer(key, m.key)}
<1>1. key \in Words /\ ms \in Seq(Mapping)
  BY DEF Words, Letter
<1>2. c \in Seq(Mapping)
  BY <1>1, ComparedAreSome
<1>3. BestOf(best, key, c, Len(c))
  BY <1>1, <1>2, ChosenIsBest
<1>4. /\ key = << >> => s = NoSuggestion
      /\ key # << >> /\ exact # {} =>
            \E m \in exact : s = [match |-> "exact", mapping |-> m,
                                  confidence |-> CalculateConfidence(m.usage)]
      /\ key # << >> /\ exact = {} /\ best # << >> =>
            s = [match |-> "fuzzy", mapping |-> best.mapping,
                 confidence |-> CalculateConfidence(best.mapping.usage) \div 2]
      /\ key # << >> /\ exact = {} /\ best = << >> => s = NoSuggestion
  BY SuggestionIs
<1> HIDE DEF key, ms, c, s, exact, best
<1>5. \A m : m \in close <=> \E i \in 1..Len(c) : m = c[i] /\ IsNear(key, c[i])
  <2>1. DOMAIN c = 1..Len(c)
    BY <1>2
  <2>2. \A m : m \in ToSet(c) <=> \E i \in 1..Len(c) : m = c[i]
    BY <2>1 DEF ToSet
  <2>3. QED
    BY <2>2 DEF IsNear
<1> HIDE DEF close
<1>6. NoSuggestion.match = "none"
  BY DEF NoSuggestion
<1>7. CASE key # << >> /\ exact # {}
  <2>1. PICK m \in exact : s = [match |-> "exact", mapping |-> m,
                                confidence |-> CalculateConfidence(m.usage)]
    BY <1>4, <1>7
  <2>2. s.match = "exact" /\ s.mapping = m /\ m.key = key
    BY <2>1 DEF exact
  <2>3. \E x \in ToSet(ms) : x.key = key
    BY <1>7 DEF exact
  <2>4. QED
    BY <1>7, <2>2, <2>3 DEF ClosestIsSuggested, key, ms, s
<1>8. CASE ~(key # << >> /\ exact # {}) /\ (key = << >> \/ close = {})
  <2>1. key # << >> => best = << >>
    <3>1. ASSUME NEW j \in 1..Len(c), IsNear(key, c[j]), key # << >> PROVE FALSE
      <4>1. c[j] \in close
        BY <1>5, <3>1
      <4>2. QED
        BY <1>8, <3>1, <4>1
    <3>2. QED
      BY <1>3, <3>1 DEF BestOf
  <2>2. s.match = "none"
    BY <1>4, <1>6, <1>8, <2>1
  <2>3. ~(key # << >> /\ \E x \in ToSet(ms) : x.key = key)
    BY <1>8 DEF exact
  <2>4. QED
    BY <1>8, <2>2, <2>3 DEF ClosestIsSuggested, key, ms, s, close, c
<1>9. CASE key # << >> /\ exact = {} /\ close # {}
  <2>1. PICK i \in 1..Len(c) : IsNear(key, c[i])
    BY <1>5, <1>9
  <2>2. PICK j \in 1..Len(c) :
           /\ best = Candidate(key, c[j]) /\ IsNear(key, c[j])
           /\ \A n \in 1..Len(c) : IsNear(key, c[n]) => NoBetter(key, c[j], c[n])
    BY <1>3, <2>1 DEF BestOf
  <2>3. c[j] \in Mapping
    BY <1>2
  <2>4. best # << >> /\ best.mapping = c[j]
    BY <1>1, <2>2, <2>3, MappingFields
  <2>5. s.match = "fuzzy" /\ s.mapping = c[j]
    BY <1>4, <1>9, <2>4
  <2>6. c[j] \in close
    BY <1>5, <2>2
  <2>7. \A m \in close : NoBetter(key, c[j], m)
    BY <1>5, <2>2
  <2>8. ~\E x \in ToSet(ms) : x.key = key
    BY <1>9 DEF exact
  <2> DEFINE z == c[j]
  <2>9. \A m \in close : \/ Distance(key, m.key) > Distance(key, z.key)
                         \/ /\ Distance(key, m.key) = Distance(key, z.key)
                            /\ m.used <= z.used
    BY <2>7 DEF NoBetter
  <2> HIDE DEF z
  <2>10. s.match = "fuzzy" /\ s.mapping = z /\ z \in close
    BY <2>5, <2>6 DEF z
  <2>11. QED
    BY <1>9, <2>8, <2>9, <2>10 DEF ClosestIsSuggested, key, ms, s, close, c
<1>10. QED
  BY <1>7, <1>8, <1>9

\* Only the mapping of the very key is booked on (resolve_for_export).
LEMMA ExactAreBooked ==
    ASSUME Cutoff \in Nat,
           On("suggestion") => In.key \in Seq(STRING) /\ In.mappings \in Seq(Mapping)
    PROVE  OnlyExactIsBooked
<1> SUFFICES ASSUME On("suggestion") PROVE OnlyExactIsBooked
  BY DEF OnlyExactIsBooked
<1> DEFINE key == In.key
           ms  == In.mappings
           c   == Compared(ms)
           s   == SuggestForVendor(ms, key)
           exact == {m \in ToSet(ms) : m.key = key}
           best  == ChosenFrom(key, c)
<1>1. key \in Words /\ ms \in Seq(Mapping)
  BY DEF Words, Letter
<1>2. c \in Seq(Mapping)
  BY <1>1, ComparedAreSome
<1>3. BestOf(best, key, c, Len(c))
  BY <1>1, <1>2, ChosenIsBest
<1>4. /\ key = << >> => s = NoSuggestion
      /\ key # << >> /\ exact # {} =>
            \E m \in exact : s = [match |-> "exact", mapping |-> m,
                                  confidence |-> CalculateConfidence(m.usage)]
      /\ key # << >> /\ exact = {} /\ best # << >> =>
            s = [match |-> "fuzzy", mapping |-> best.mapping,
                 confidence |-> CalculateConfidence(best.mapping.usage) \div 2]
      /\ key # << >> /\ exact = {} /\ best = << >> => s = NoSuggestion
  BY SuggestionIs
<1> HIDE DEF key, ms, c, s, exact, best
<1>5. NoSuggestion.match = "none"
  BY DEF NoSuggestion
<1>6. \A u \in Nat : /\ CalculateConfidence(u) \in Nat /\ CalculateConfidence(u) <= 10
                     /\ CalculateConfidence(u) >= 8 => u >= 4
                     /\ CalculateConfidence(u) \div 2 \in Nat /\ CalculateConfidence(u) \div 2 <= 5
  BY DEF CalculateConfidence
<1> DEFINE account == ResolveForExport(ms, key, 0)
<1>7. account = IF s.match # "none" /\ AutoApply(s) THEN s.mapping.account ELSE 0
  BY DEF ResolveForExport, s
<1> HIDE DEF account
<1>8. CASE key # << >> /\ exact # {}
  <2>1. PICK m \in exact : s = [match |-> "exact", mapping |-> m,
                                confidence |-> CalculateConfidence(m.usage)]
    BY <1>4, <1>8
  <2>2. s.mapping = m /\ s.confidence = CalculateConfidence(m.usage)
    BY <2>1
  <2>3. m \in ToSet(ms) /\ m.key = key
    BY DEF exact
  <2>4. m.usage \in Nat
    <3>1. m \in Mapping
      BY <1>1, <2>3 DEF ToSet
    <3>2. QED
      BY <1>1, <3>1, MappingFields
  <2>5. AutoApply(s) => m.usage >= 4
    BY <1>6, <2>2, <2>4 DEF AutoApply
  <2>6. account # 0 => m.usage >= 4 /\ m.account = account
    BY <1>7, <2>2, <2>5
  <2>7. QED
    BY <2>3, <2>6 DEF OnlyExactIsBooked, key, ms, account
<1>9. CASE key # << >> /\ exact = {} /\ best # << >>
  <2>1. PICK j \in 1..Len(c) : best = Candidate(key, c[j])
    BY <1>3, <1>9 DEF BestOf
  <2>2. c[j] \in Mapping
    BY <1>2
  <2>3. best.mapping = c[j]
    BY <1>1, <2>1, <2>2, MappingFields
  <2> DEFINE z == c[j]
  <2>4. z.usage \in Nat
    BY <1>1, <2>2, MappingFields
  <2>5. s.confidence = CalculateConfidence(z.usage) \div 2
    BY <1>4, <1>9, <2>3
  <2> HIDE DEF z
  <2>6. ~AutoApply(s)
    <3> DEFINE half == CalculateConfidence(z.usage) \div 2
    <3>1. half <= 5 /\ half \in Nat
      BY <1>6, <2>4
    <3>2. s.confidence = half
      BY <2>5
    <3> HIDE DEF half
    <3>3. QED
      BY <3>1, <3>2 DEF AutoApply
  <2>7. account = 0
    BY <1>7, <2>6
  <2>8. QED
    BY <2>7 DEF OnlyExactIsBooked, key, ms, account
<1>10. CASE s = NoSuggestion
  <2>1. account = 0
    BY <1>5, <1>7, <1>10
  <2>2. QED
    BY <2>1 DEF OnlyExactIsBooked, key, ms, account
<1>11. QED
  BY <1>4, <1>8, <1>9, <1>10

-----------------------------------------------------------------------------
(* Spellings.                                                              *)

\* What normalising keeps, and the place of the k-th that is kept.
Kept(s) == {n \in DOMAIN s :
               \/ s[n] # Space
               \/ /\ n > 1 /\ s[n - 1] # Space
                  /\ \E m \in (n + 1)..Len(s) : s[m] # Space}
KthOf(K, k) == CHOOSE n \in K : Cardinality({m \in K : m <= n}) = k

\* Collapsing lists what is kept.
LEMMA CollapsedIs ==
    ASSUME NEW s
    PROVE  Collapsed(s) = [k \in 1..Cardinality(Kept(s)) |-> s[KthOf(Kept(s), k)]]
BY DEF Collapsed, Kept, KthOf, Cardinality

\* There is one k-th of a finite set of numbers.
Upto(K, n) == {m \in K : m <= n}

\* There is one number of a finite set with k up to it.
LEMMA KthIs ==
    ASSUME NEW K \in SUBSET Nat, IsFiniteSet(K), NEW k \in 1..Cardinality(K)
    PROVE  /\ KthOf(K, k) \in K /\ Cardinality(Upto(K, KthOf(K, k))) = k
           /\ \A n \in K : Cardinality(Upto(K, n)) = k => n = KthOf(K, k)
<1>1. PICK key : /\ Keyed(K, key) /\ \A m, n \in K : key[m] = key[n] => m = n
                 /\ \A m, n \in K : key[m] >= key[n] <=> m <= n
  <2> DEFINE z == [n \in K |-> -n]
  <2>1. z \in [K -> Int]
    OBVIOUS
  <2>2. \A m, n \in K : (z[m] >= z[n] <=> m <= n) /\ (z[m] = z[n] => m = n)
    OBVIOUS
  <2> HIDE DEF z
  <2>3. Keyed(K, z)
    BY <2>1, <2>2 DEF Keyed
  <2>4. QED
    BY <2>2, <2>3
<1>2. PICK s : Ordered(K, key, s)
  BY <1>1, OrderedExists
<1>3. \A n \in 1..Cardinality(K) : s[n] \in K /\ Cardinality(Upto(K, s[n])) = n
  <2>1. ASSUME NEW n \in 1..Cardinality(K) PROVE s[n] \in K /\ Cardinality(Upto(K, s[n])) = n
    <3>1. s[n] \in K
      BY <1>2 DEF Ordered
    <3>2. Cardinality(AtLeast(K, key, s[n])) = n
      <4>1. Keyed(K, key) /\ \A q, r \in K : key[q] = key[r] => q = r
        BY <1>1
      <4>2. ASSUME NEW R, Keyed(R, key), \A q, r \in R : key[q] = key[r] => q = r,
                   Ordered(R, key, s), NEW m \in 1..Cardinality(R)
            PROVE  Cardinality(AtLeast(R, key, s[m])) = m
        BY <4>2, PlaceIsCount
      <4>3. QED
        BY <1>2, <4>1, <4>2
    <3>3. AtLeast(K, key, s[n]) = Upto(K, s[n])
      BY <1>1, <3>1 DEF AtLeast, Upto
    <3>4. QED
      BY <3>1, <3>2, <3>3
  <2>2. QED
    BY <2>1
<1>4. PICK r \in K : r = s[k] /\ Cardinality(Upto(K, r)) = k
  BY <1>3
<1>5. \A q \in K : Cardinality(Upto(K, q)) = k => q = r
  <2>1. \A q \in K : \E n \in 1..Cardinality(K) : s[n] = q
    BY <1>1, <1>2, ListHasAll
  <2>2. QED
    BY <1>3, <1>4, <2>1
<1>6. KthOf(K, k) = CHOOSE n \in K : Cardinality(Upto(K, n)) = k
  BY DEF KthOf, Upto
<1>7. KthOf(K, k) \in K /\ Cardinality(Upto(K, KthOf(K, k))) = k
  BY <1>4, <1>6
<1>8. QED
  BY <1>5, <1>7

\* Numbers that are all moved by as much.
Shifted(K, a) == {a + n : n \in K}

\* They are as many.
LEMMA ShiftedCount ==
    ASSUME NEW K \in SUBSET Nat, IsFiniteSet(K), NEW a \in Nat
    PROVE  /\ Shifted(K, a) \in SUBSET Nat /\ IsFiniteSet(Shifted(K, a))
           /\ Cardinality(Shifted(K, a)) = Cardinality(K)
<1> DEFINE f == [n \in K |-> a + n]
           J == Shifted(K, a)
<1>a. \A n \in K : n \in Nat /\ a + n \in Nat /\ a + n \in J
  BY DEF Shifted
<1>b. \A j \in J : \E n \in K : j = a + n
  BY DEF Shifted
<1> HIDE DEF J
<1>1. f \in [K -> J]
  BY <1>a
<1>2. J \in SUBSET Nat
  BY <1>a, <1>b
<1>3. \A m, n \in K : f[m] = f[n] => m = n
  BY <1>a
<1>4. \A j \in J : \E n \in K : f[n] = j
  BY <1>b
<1> HIDE DEF f
<1>5. f \in Bijection(K, J)
  BY <1>1, <1>3, <1>4 DEF Bijection, Injection, Surjection, IsInjective
<1>6. ExistsBijection(K, J)
  BY <1>5 DEF ExistsBijection
<1>7. IsFiniteSet(J) /\ Cardinality(J) = Cardinality(K)
  BY <1>6, FS_Bijection
<1>8. QED
  BY <1>2, <1>7 DEF J

\* The k-th is moved as well.
LEMMA ShiftedKth ==
    ASSUME NEW K \in SUBSET Nat, IsFiniteSet(K), NEW a \in Nat, NEW k \in 1..Cardinality(K)
    PROVE  KthOf(K, k) \in K /\ KthOf(Shifted(K, a), k) = a + KthOf(K, k)
<1> DEFINE J == Shifted(K, a)
           n == KthOf(K, k)
           p == a + n
<1>1. n \in K /\ Cardinality(Upto(K, n)) = k
  BY KthIs
<1>2. J \in SUBSET Nat /\ IsFiniteSet(J) /\ Cardinality(J) = Cardinality(K)
  BY ShiftedCount
<1> HIDE DEF n
<1>3. Upto(K, n) \in SUBSET Nat /\ IsFiniteSet(Upto(K, n))
  <2>1. Upto(K, n) \in SUBSET K
    BY DEF Upto
  <2>2. QED
    BY <2>1, FS_Subset
<1>4. Upto(J, p) = Shifted(Upto(K, n), a)
  <2>1. \A x : x \in J <=> \E m \in K : x = a + m
    BY DEF Shifted
  <2>2. \A m \in K : a + m <= p <=> m <= n
    BY <1>1
  <2>3. \A x : x \in Upto(J, p) <=> \E m \in K : x = a + m /\ a + m <= p
    BY <2>1 DEF Upto
  <2>4. \A x : x \in Shifted(Upto(K, n), a) <=> \E m \in K : x = a + m /\ m <= n
    BY DEF Shifted, Upto
  <2> HIDE DEF J, p
  <2>5. QED
    BY <2>2, <2>3, <2>4
<1>5. Cardinality(Upto(J, p)) = k
  <2> HIDE DEF J, p
  <2> QED BY <1>1, <1>3, <1>4, ShiftedCount
<1>6. p \in J
  BY <1>1 DEF Shifted
<1>7. KthOf(J, k) = p
  <2> HIDE DEF J, p
  <2> QED BY <1>2, <1>5, <1>6, KthIs
<1>8. QED
  BY <1>1, <1>7 DEF n

\* A text with blanks before and after it.
Padded(c, d, a, b) ==
    /\ Len(d) = a + Len(c) + b
    /\ \A i \in 1..a : d[i] = Space
    /\ \A i \in 1..Len(c) : d[a + i] = c[i]
    /\ \A i \in 1..b : d[a + Len(c) + i] = Space
IsText(s) == Len(s) \in Nat /\ DOMAIN s = 1..Len(s)

\* What is not blank is in the text.
LEMMA SolidIsInside ==
    ASSUME NEW c, NEW d, NEW a \in Nat, NEW b \in Nat, IsText(c), IsText(d), Padded(c, d, a, b),
           NEW i \in 1..Len(d), d[i] # Space
    PROVE  i - a \in 1..Len(c) /\ d[i] = c[i - a] /\ i = a + (i - a)
<1> DEFINE L == Len(c)
           j == i - a
           z == j - L
<1>1. L \in Nat /\ i \in 1..(a + L + b)
  BY DEF IsText, Padded
<1>2. i \notin 1..a
  BY DEF Padded
<1>3. j > 0 /\ i = a + j /\ j \in Int
  BY <1>1, <1>2
<1>4. CASE j <= L
  <2>1. j \in 1..L
    BY <1>1, <1>3, <1>4
  <2>2. d[a + j] = c[j]
    BY <2>1 DEF Padded
  <2>3. QED
    BY <1>3, <2>1, <2>2
<1>5. CASE j > L
  <2>1. z \in 1..b /\ i = a + L + z
    BY <1>1, <1>3, <1>5
  <2>2. d[a + L + z] = Space
    BY <2>1 DEF Padded
  <2>3. QED
    BY <2>1, <2>2
<1>6. QED
  BY <1>1, <1>3, <1>4, <1>5

\* The same is kept of a text with blanks around it.
LEMMA KeptIsShifted ==
    ASSUME NEW c, NEW d, NEW a \in Nat, NEW b \in Nat, IsText(c), IsText(d), Padded(c, d, a, b)
    PROVE  Kept(d) = Shifted(Kept(c), a)
<1> DEFINE L == Len(c)
           Solid(s, i) == s[i] # Space
<1>1. L \in Nat /\ Len(d) = a + L + b /\ DOMAIN c = 1..L /\ DOMAIN d = 1..Len(d)
  BY DEF IsText, Padded
<1>2. \A i \in 1..L : d[a + i] = c[i] /\ a + i \in 1..Len(d)
  BY <1>1 DEF Padded
<1>3. \A i \in 1..Len(d) : Solid(d, i) => i - a \in 1..L /\ Solid(c, i - a) /\ i = a + (i - a)
  BY SolidIsInside
<1> DEFINE Follows(s, n) == /\ n > 1 /\ Solid(s, n - 1)
                            /\ \E m \in (n + 1)..Len(s) : Solid(s, m)
<1>4. \A n : /\ n \in Kept(c) <=> n \in 1..L /\ (Solid(c, n) \/ Follows(c, n))
             /\ n \in Kept(d) <=> n \in 1..Len(d) /\ (Solid(d, n) \/ Follows(d, n))
  BY <1>1 DEF Kept
<1> HIDE DEF Solid
<1>5. ASSUME NEW n \in Kept(c) PROVE a + n \in Kept(d)
  <2>1. n \in 1..L /\ a + n \in 1..Len(d)
    BY <1>2, <1>4
  <2>2. CASE Solid(c, n)
    <3>1. Solid(d, a + n)
      BY <1>2, <2>1, <2>2 DEF Solid
    <3>2. QED
      BY <1>4, <2>1, <3>1
  <2>3. CASE Follows(c, n)
    <3>1. PICK m \in (n + 1)..L : Solid(c, m)
      BY <2>3
    <3>2. m \in 1..L /\ n - 1 \in 1..L /\ a + m \in (a + n + 1)..Len(d) /\ a + n > 1 /\ a + (n - 1) = (a + n) - 1
      BY <1>1, <2>1, <2>3, <3>1
    <3>3. Solid(d, a + m) /\ Solid(d, a + (n - 1))
      BY <1>2, <2>3, <3>1, <3>2 DEF Solid
    <3>4. Follows(d, a + n)
      BY <3>2, <3>3
    <3>5. QED
      BY <1>4, <2>1, <3>4
  <2>4. QED
    BY <1>4, <2>2, <2>3
<1>6. ASSUME NEW n \in Kept(d) PROVE n - a \in Kept(c) /\ n = a + (n - a)
  <2>1. n \in 1..Len(d)
    BY <1>4
  <2>2. CASE Solid(d, n)
    BY <1>3, <1>4, <2>1, <2>2
  <2>3. CASE Follows(d, n)
    <3>1. PICK m \in (n + 1)..Len(d) : Solid(d, m)
      BY <2>3
    <3>2. m \in 1..Len(d) /\ n - 1 \in 1..Len(d) /\ Solid(d, n - 1) /\ n < m
      BY <1>1, <2>1, <2>3, <3>1
    <3>3. /\ m - a \in 1..L /\ Solid(c, m - a)
          /\ (n - 1) - a \in 1..L /\ Solid(c, (n - 1) - a)
      BY <1>3, <3>1, <3>2
    <3>4. /\ n - a \in 1..L /\ n - a > 1 /\ (n - 1) - a = (n - a) - 1
          /\ m - a \in ((n - a) + 1)..L /\ n = a + (n - a)
      BY <1>1, <2>1, <3>2, <3>3
    <3>5. Follows(c, n - a)
      BY <3>3, <3>4
    <3>6. QED
      BY <1>4, <3>4, <3>5
  <2>4. QED
    BY <1>4, <2>2, <2>3
<1>7. QED
  BY <1>5, <1>6 DEF Shifted

\* Kept places are finitely many.
LEMMA KeptIsFinite ==
    ASSUME NEW c, IsText(c)
    PROVE  Kept(c) \in SUBSET (1..Len(c)) /\ Kept(c) \in SUBSET Nat /\ IsFiniteSet(Kept(c)) /\ Cardinality(Kept(c)) \in Nat
<1>1. Len(c) \in Nat /\ DOMAIN c = 1..Len(c)
  BY DEF IsText
<1>2. Kept(c) \in SUBSET (1..Len(c))
  BY <1>1 DEF Kept
<1>3. IsFiniteSet(1..Len(c))
  BY <1>1, FS_Interval
<1>4. IsFiniteSet(Kept(c)) /\ Cardinality(Kept(c)) \in Nat
  BY <1>2, <1>3, FS_Subset, FS_CardinalityType
<1>5. Kept(c) \in SUBSET Nat
  BY <1>1, <1>2
<1>6. QED
  BY <1>2, <1>4, <1>5

\* Blanks before and after are not in the key.
LEMMA BlanksCollapse ==
    ASSUME NEW c, NEW d, NEW a \in Nat, NEW b \in Nat, IsText(c), IsText(d), Padded(c, d, a, b)
    PROVE  Collapsed(d) = Collapsed(c)
<1> DEFINE K == Kept(c)
           size == Cardinality(K)
<1>1. K \in SUBSET (1..Len(c)) /\ K \in SUBSET Nat /\ IsFiniteSet(K)
  BY KeptIsFinite
<1>2. Kept(d) = Shifted(K, a) /\ Cardinality(Kept(d)) = size
  <2>1. Kept(d) = Shifted(K, a)
    BY KeptIsShifted
  <2>2. Cardinality(Shifted(K, a)) = size
    <3> HIDE DEF K
    <3> QED BY <1>1, ShiftedCount
  <2>3. QED
    BY <2>1, <2>2
<1> HIDE DEF K
<1>3. ASSUME NEW k \in 1..size PROVE d[KthOf(Kept(d), k)] = c[KthOf(K, k)]
  <2>1. KthOf(K, k) \in K /\ KthOf(Kept(d), k) = a + KthOf(K, k)
    BY <1>1, <1>2, ShiftedKth
  <2> DEFINE p == KthOf(K, k)
  <2>2. p \in 1..Len(c)
    BY <1>1, <2>1
  <2>3. d[a + p] = c[p]
    BY <2>2 DEF Padded
  <2>4. QED
    BY <2>1, <2>3
<1> HIDE DEF size
<1>4. /\ Collapsed(d) = [k \in 1..size |-> d[KthOf(Kept(d), k)]]
      /\ Collapsed(c) = [k \in 1..size |-> c[KthOf(K, k)]]
  BY <1>2, CollapsedIs DEF K, size
<1>5. QED
  BY <1>3, <1>4

\* The key of a name of which anything is left.
LEMMA KeyIsCut ==
    ASSUME NEW name, NEW c, c = Cleaned(name), IsText(c), MaxKey \in Nat \ {0},
           NEW i \in 1..Len(c), c[i] # Space
    PROVE  /\ Cut(Collapsed(c)) # << >>
           /\ Normalized(name) = Cut(Collapsed(c))
<1> DEFINE K == Kept(c)
           s == Collapsed(c)
           n == Cardinality(K)
           k == Min({MaxKey, Len(s)})
<1>1. IsFiniteSet(K) /\ n \in Nat
  BY KeptIsFinite
<1>2. i \in K
  BY DEF Kept, IsText
<1>3. n # 0
  <2> HIDE DEF K
  <2> QED BY <1>1, <1>2, FS_EmptySet
<1>4. s = [j \in 1..n |-> c[KthOf(K, j)]]
  BY CollapsedIs
<1> HIDE DEF s, n
<1>5. Len(s) = n /\ DOMAIN s = 1..n
  BY <1>1, <1>4
<1>6. k \in 1..n
  <2>1. MaxKey \in Nat /\ MaxKey > 0 /\ n > 0 /\ n \in Nat
    BY <1>1, <1>3
  <2>2. \E x \in {MaxKey, n} : \A y \in {MaxKey, n} : x <= y
    BY <2>1
  <2>3. k \in {MaxKey, n} /\ k <= n
    BY <1>5, <2>2 DEF Min
  <2>4. QED
    BY <2>1, <2>3
<1>7. Cut(s) = SubSeq(s, 1, k)
  BY DEF Cut
<1> HIDE DEF k
<1>8. SubSeq(s, 1, k) # << >>
  <2> DEFINE V == {s[j] : j \in 1..n}
  <2>1. s \in Seq(V)
    <3>1. s \in [1..n -> V]
      BY <1>4, <1>5
    <3> HIDE DEF V
    <3>2. QED
      BY <1>1, <3>1
  <2> HIDE DEF V
  <2>2. Len(SubSeq(s, 1, k)) = k
    BY <1>1, <1>5, <1>6, <2>1
  <2> DEFINE t == SubSeq(s, 1, k)
  <2>3. Len(t) # 0
    BY <1>1, <1>6, <2>2
  <2> HIDE DEF t
  <2>4. t # << >>
    BY <2>3
  <2>5. QED
    BY <2>4 DEF t
<1>9. Cut(s) # << >>
  BY <1>7, <1>8
<1>10. Normalized(name) = Cut(s)
  BY <1>9 DEF Normalized, s
<1>11. QED
  BY <1>9, <1>10 DEF s

\* A blank and a dot are no letters.
LEMMA BlankIsNone ==
    /\ Space \notin Letters /\ "." \notin Letters
    /\ Folded(Space) = Space
    /\ Space # "gmbh"
<1>1. Space \notin Letters /\ "." \notin Letters
  BY DEF Space, Letters
<1>2. Folded(Space) = Space
  BY DEF Folded, Space
<1>3. Space # "gmbh"
  BY DEF Space
<1>4. QED
  BY <1>1, <1>2, <1>3

\* What becomes of a character, or of a legal form that is one.
Clean(x, form) == IF form \/ x = "." THEN Space ELSE Folded(x)

\* Cleaning keeps the length.
LEMMA CleanedIs ==
    ASSUME NEW name, IsText(name)
    PROVE  /\ IsText(Cleaned(name)) /\ Len(Cleaned(name)) = Len(name)
           /\ \A n \in 1..Len(name) : Cleaned(name)[n] = Clean(name[n], IsForm(name, n))
<1>1. Cleaned(name) = [n \in 1..Len(name) |-> Clean(name[n], IsForm(name, n))]
  BY DEF Cleaned, Clean, IsText
<1>2. Len(name) \in Nat
  BY DEF IsText
<1>3. QED
  BY <1>1, <1>2 DEF IsText

\* A name that stands in another one, away from its letters.
Stands(name, other, a, b) ==
    /\ Len(other) = a + Len(name) + b
    /\ \A n \in 1..Len(name) : other[a + n] = name[n]
    /\ a > 0 => other[a] \notin Letters
    /\ b > 0 => other[a + Len(name) + 1] \notin Letters

\* What surrounds a name does not make or hide a legal form in it.
LEMMA CleanedStands ==
    ASSUME NEW name, NEW other, NEW a \in Nat, NEW b \in Nat, IsText(name), IsText(other),
           Stands(name, other, a, b), NEW n \in 1..Len(name)
    PROVE  Cleaned(other)[a + n] = Cleaned(name)[n]
<1> DEFINE L == Len(name)
           m == a + n
<1>1. /\ L \in Nat /\ Len(other) = a + L + b /\ m \in 1..Len(other)
      /\ n \in Int /\ m \in Int /\ 1 <= n /\ n <= L
  BY DEF IsText, Stands
<1>2. other[m] = name[n]
  BY DEF Stands
<1>3. (m > 1 => other[m - 1] \notin Letters) <=> (n > 1 => name[n - 1] \notin Letters)
  <2>1. CASE n > 1
    <3>1. n - 1 \in 1..L /\ a + (n - 1) = m - 1 /\ m > 1
      BY <1>1, <2>1
    <3>2. other[a + (n - 1)] = name[n - 1]
      BY <3>1 DEF Stands
    <3>3. QED
      BY <2>1, <3>1, <3>2
  <2>2. CASE n = 1 /\ a > 0
    <3>1. m - 1 = a
      BY <1>1, <2>2
    <3>2. other[a] \notin Letters
      BY <2>2 DEF Stands
    <3>3. QED
      BY <2>2, <3>1, <3>2
  <2>3. CASE n = 1 /\ a = 0
    <3>1. ~(m > 1) /\ ~(n > 1)
      BY <1>1, <2>3
    <3>2. QED
      BY <3>1
  <2>4. QED
    BY <1>1, <2>1, <2>2, <2>3
<1>4. (m < Len(other) => other[m + 1] \notin Letters) <=> (n < L => name[n + 1] \notin Letters)
  <2>1. CASE n < L
    <3>1. n + 1 \in 1..L /\ a + (n + 1) = m + 1 /\ m < Len(other)
      BY <1>1, <2>1
    <3>2. other[a + (n + 1)] = name[n + 1]
      BY <3>1 DEF Stands
    <3>3. QED
      BY <2>1, <3>1, <3>2
  <2>2. CASE n = L /\ b > 0
    <3>1. m + 1 = a + L + 1
      BY <1>1, <2>2
    <3>2. other[a + L + 1] \notin Letters
      BY <2>2 DEF Stands
    <3>3. QED
      BY <1>1, <2>2, <3>1, <3>2
  <2>3. CASE n = L /\ b = 0
    <3>1. ~(m < Len(other)) /\ ~(n < L)
      BY <1>1, <2>3
    <3>2. QED
      BY <3>1
  <2>4. QED
    BY <1>1, <2>1, <2>2, <2>3
<1> HIDE DEF m
<1>5. IsForm(other, m) <=> IsForm(name, n)
  BY <1>2, <1>3, <1>4 DEF IsForm
<1>6. /\ Cleaned(other)[m] = Clean(other[m], IsForm(other, m))
      /\ Cleaned(name)[n] = Clean(name[n], IsForm(name, n))
  BY <1>1, CleanedIs
<1>7. Cleaned(other)[m] = Cleaned(name)[n]
  BY <1>2, <1>5, <1>6 DEF Clean
<1>8. QED
  BY <1>7 DEF m

\* What is added to a name, and is blank when it is cleaned.
Marks == {Space, ".", "gmbh"}
Marked == Letter \cup Marks
Tame(s, n) == Cleaned(s)[n] = Space

\* Marks that are blank are not in the key.
LEMMA MarksCollapse ==
    ASSUME NEW name, NEW other, NEW a \in Nat, NEW b \in Nat, IsText(name), IsText(other),
           Stands(name, other, a, b), \A i \in 1..a : Tame(other, i),
           \A i \in 1..b : Tame(other, a + Len(name) + i)
    PROVE  Collapsed(Cleaned(other)) = Collapsed(Cleaned(name))
<1> DEFINE c == Cleaned(name)
           d == Cleaned(other)
<1>1. IsText(c) /\ IsText(d) /\ Len(c) = Len(name) /\ Len(d) = Len(other)
  BY CleanedIs
<1>2. \A n \in 1..Len(name) : d[a + n] = c[n]
  BY CleanedStands
<1>3. Len(other) = a + Len(name) + b
  BY DEF Stands
<1>4. Padded(c, d, a, b)
  <2>1. /\ \A i \in 1..a : d[i] = Space
        /\ \A i \in 1..b : d[a + Len(name) + i] = Space
    BY DEF Tame
  <2> HIDE DEF c, d
  <2>2. QED
    BY <1>1, <1>2, <1>3, <2>1 DEF Padded
<1>5. Collapsed(d) = Collapsed(c)
  <2> HIDE DEF c, d
  <2> QED BY <1>1, <1>4, BlanksCollapse
<1>6. QED
  BY <1>5

\* The characters of two texts one after the other.
Joint(s, p, q) ==
    /\ IsText(p) /\ IsText(q) /\ IsText(s) /\ Len(s) = Len(p) + Len(q)
    /\ \A i \in 1..Len(p) : s[i] = p[i]
    /\ \A i \in 1..Len(q) : s[Len(p) + i] = q[i]

\* A text put behind another one is joint to it.
LEMMA TextOfTwo ==
    ASSUME NEW p \in Seq(Marked), NEW q \in Seq(Marked)
    PROVE  Joint(p \o q, p, q)
BY DEF IsText, Joint

\* A name is a text, whatever marks are added.
LEMMA NameIsText ==
    ASSUME NEW name \in Seq(Letter)
    PROVE  name \in Seq(Marked) /\ IsText(name)
<1>1. Len(name) \in Nat /\ name \in [1..Len(name) -> Letter]
  OBVIOUS
<1>2. name \in [1..Len(name) -> Marked]
  BY <1>1 DEF Marked
<1>3. QED
  BY <1>1, <1>2 DEF IsText

\* Marks that are added are blank.
LEMMA MarksAreTame ==
    ASSUME NEW s, IsText(s), NEW n \in 1..Len(s),
           \/ s[n] \in {Space, "."}
           \/ /\ s[n] = "gmbh" /\ (n > 1 => s[n - 1] = Space) /\ (n < Len(s) => s[n + 1] = Space)
    PROVE  Tame(s, n)
<1>1. Cleaned(s)[n] = Clean(s[n], IsForm(s, n))
  BY CleanedIs
<1>2. Space \notin Letters
  BY BlankIsNone
<1>3. CASE s[n] = "gmbh"
  <2>1. "gmbh" \in Found /\ "gmbh" # "."
    BY DEF Found
  <2>2. IsForm(s, n)
    BY <1>2, <1>3, <2>1, BlankIsNone DEF IsForm
  <2>3. QED
    BY <1>1, <2>2 DEF Clean, Tame
<1>4. CASE s[n] = "."
  BY <1>1, <1>4 DEF Clean, Tame
<1>5. CASE s[n] = Space
  <2>1. Folded(Space) = Space
    BY BlankIsNone
  <2>2. QED
    BY <1>1, <1>5, <2>1 DEF Clean, Tame
<1>6. QED
  BY <1>3, <1>4, <1>5

\* The marks that are added.
LEMMA MarksAre == Space \in Marked /\ "." \in Marked /\ "gmbh" \in Marked
BY DEF Marked, Marks

\* One mark.
LEMMA OneMark ==
    ASSUME NEW x \in Marked
    PROVE  <<x>> \in Seq(Marked) /\ Len(<<x>>) = 1 /\ <<x>>[1] = x
OBVIOUS

\* Two marks.
LEMMA TwoMarks ==
    ASSUME NEW x \in Marked, NEW y \in Marked
    PROVE  <<x, y>> \in Seq(Marked) /\ Len(<<x, y>>) = 2 /\ <<x, y>>[1] = x /\ <<x, y>>[2] = y
OBVIOUS

\* A legal form after a name.
LEMMA FormAfter ==
    ASSUME NEW name, NEW q, Len(q) = 2, q[1] = Space, q[2] = "gmbh",
           NEW other, Joint(other, name, q)
    PROVE  Collapsed(Cleaned(other)) = Collapsed(Cleaned(name))
<1> DEFINE L == Len(name)
<1>a. IsText(name) /\ L \in Nat
  BY DEF IsText, Joint
<1>b. Space \notin Letters /\ "." \notin Letters
  BY BlankIsNone
<1>3. /\ IsText(other) /\ Len(other) = L + 2 /\ other[L + 1] = Space /\ other[L + 2] = "gmbh"
      /\ \A i \in 1..L : other[i] = name[i]
  BY <1>a DEF Joint
<1>4. Stands(name, other, 0, 2)
  BY <1>a, <1>b, <1>3 DEF Stands
<1>5. Tame(other, L + 1) /\ Tame(other, L + 2)
  <2>1. L + 1 \in 1..Len(other) /\ L + 2 \in 1..Len(other) /\ (L + 2) - 1 = L + 1 /\ ~(L + 2 < Len(other))
    BY <1>a, <1>3
  <2>2. QED
    BY <1>3, <2>1, MarksAreTame
<1>6. (\A i \in 1..0 : Tame(other, i)) /\ \A i \in 1..2 : Tame(other, 0 + L + i)
  BY <1>a, <1>5
<1>7. QED
  BY <1>a, <1>3, <1>4, <1>6, MarksCollapse

\* A legal form before a name.
LEMMA FormBefore ==
    ASSUME NEW name, NEW q, Len(q) = 2, q[1] = "gmbh", q[2] = Space,
           NEW other, Joint(other, q, name)
    PROVE  Collapsed(Cleaned(other)) = Collapsed(Cleaned(name))
<1> DEFINE L == Len(name)
<1>a. IsText(name) /\ L \in Nat
  BY DEF IsText, Joint
<1>b. Space \notin Letters /\ "." \notin Letters
  BY BlankIsNone
<1>3. /\ IsText(other) /\ Len(other) = 2 + L /\ other[1] = "gmbh" /\ other[2] = Space
      /\ \A i \in 1..L : other[2 + i] = name[i]
  BY <1>a DEF Joint
<1>4. Stands(name, other, 2, 0)
  BY <1>a, <1>b, <1>3 DEF Stands
<1>5. Tame(other, 1) /\ Tame(other, 2)
  <2>1. 1 \in 1..Len(other) /\ 2 \in 1..Len(other) /\ 1 + 1 = 2
    BY <1>a, <1>3
  <2>2. QED
    BY <1>3, <2>1, MarksAreTame
<1>6. (\A i \in 1..2 : Tame(other, i)) /\ \A i \in 1..0 : Tame(other, 2 + L + i)
  BY <1>5
<1>7. QED
  BY <1>a, <1>3, <1>4, <1>6, MarksCollapse

\* Punctuation after a name.
LEMMA DotAfter ==
    ASSUME NEW name, NEW q, Len(q) = 1, q[1] = ".",
           NEW other, Joint(other, name, q)
    PROVE  Collapsed(Cleaned(other)) = Collapsed(Cleaned(name))
<1> DEFINE L == Len(name)
<1>a. IsText(name) /\ L \in Nat
  BY DEF IsText, Joint
<1>b. Space \notin Letters /\ "." \notin Letters
  BY BlankIsNone
<1>3. /\ IsText(other) /\ Len(other) = L + 1 /\ other[L + 1] = "."
      /\ \A i \in 1..L : other[i] = name[i]
  BY <1>a DEF Joint
<1>4. Stands(name, other, 0, 1)
  BY <1>a, <1>b, <1>3 DEF Stands
<1>5. Tame(other, L + 1)
  <2>1. L + 1 \in 1..Len(other)
    BY <1>a, <1>3
  <2>2. QED
    BY <1>3, <2>1, MarksAreTame
<1>6. (\A i \in 1..0 : Tame(other, i)) /\ \A i \in 1..1 : Tame(other, 0 + L + i)
  BY <1>a, <1>5
<1>7. QED
  BY <1>a, <1>3, <1>4, <1>6, MarksCollapse

\* White space before a name.
LEMMA BlankBefore ==
    ASSUME NEW name, NEW q, Len(q) = 1, q[1] = Space,
           NEW other, Joint(other, q, name)
    PROVE  Collapsed(Cleaned(other)) = Collapsed(Cleaned(name))
<1> DEFINE L == Len(name)
<1>a. IsText(name) /\ L \in Nat
  BY DEF IsText, Joint
<1>b. Space \notin Letters /\ "." \notin Letters
  BY BlankIsNone
<1>3. /\ IsText(other) /\ Len(other) = 1 + L /\ other[1] = Space
      /\ \A i \in 1..L : other[1 + i] = name[i]
  BY <1>a DEF Joint
<1>4. Stands(name, other, 1, 0)
  BY <1>a, <1>b, <1>3 DEF Stands
<1>5. Tame(other, 1)
  <2>1. 1 \in 1..Len(other)
    BY <1>a, <1>3
  <2>2. QED
    BY <1>3, <2>1, MarksAreTame
<1>6. (\A i \in 1..1 : Tame(other, i)) /\ \A i \in 1..0 : Tame(other, 1 + L + i)
  BY <1>5
<1>7. QED
  BY <1>a, <1>3, <1>4, <1>6, MarksCollapse

\* Other case, or accents.
LEMMA LowerAlike ==
    ASSUME NEW name \in Seq(Marked), NEW other, other = [n \in DOMAIN name |-> Folded(name[n])]
    PROVE  Collapsed(Cleaned(other)) = Collapsed(Cleaned(name))
<1> DEFINE L == Len(name)
<1>a. IsText(name) /\ L \in Nat
  BY DEF IsText
<1>b. " " \notin Letters /\ "." \notin Letters
  BY DEF Letters
<1>1. DOMAIN name = 1..L
  BY <1>a DEF IsText
<1>2. IsText(other) /\ Len(other) = L /\ \A n \in 1..L : other[n] = Folded(name[n])
  BY <1>a, <1>1 DEF IsText
<1>3. \A x : /\ Folded(x) \in Letters <=> x \in Letters
             /\ Folded(x) \in Found <=> x \in Found
             /\ Folded(x) = "." <=> x = "."
             /\ Folded(Folded(x)) = Folded(x)
  BY DEF Folded, Letters, Found
<1>4. ASSUME NEW n \in 1..L PROVE Cleaned(other)[n] = Cleaned(name)[n]
  <2>1. (n > 1 => n - 1 \in 1..L) /\ (n < L => n + 1 \in 1..L)
    BY <1>a
  <2>2. IsForm(other, n) <=> IsForm(name, n)
    BY <1>2, <1>3, <2>1, BlankIsNone DEF IsForm
  <2>3. Clean(other[n], IsForm(other, n)) = Clean(name[n], IsForm(name, n))
    BY <1>2, <1>3, <2>2 DEF Clean
  <2>4. QED
    BY <1>a, <1>2, <2>3, CleanedIs
<1>5. Cleaned(other) = Cleaned(name)
  <2>1. Cleaned(other) = [n \in 1..L |-> Cleaned(other)[n]] /\ Cleaned(name) = [n \in 1..L |-> Cleaned(name)[n]]
    BY <1>a, <1>1, <1>2 DEF Cleaned, IsText
  <2>2. QED
    BY <1>4, <2>1
<1>6. QED
  BY <1>5

\* The other spellings of a name collapse to the same.
LEMMA SpellingsCollapse ==
    ASSUME NEW name \in Seq(Marked),
           NEW other \in {name \o <<Space, "gmbh">>, <<"gmbh", Space>> \o name, name \o <<".">>, <<Space>> \o name,
                          [n \in DOMAIN name |-> Folded(name[n])]}
    PROVE  Collapsed(Cleaned(other)) = Collapsed(Cleaned(name))
<1>1. CASE other = name \o <<Space, "gmbh">>
  BY <1>1, MarksAre, TwoMarks, TextOfTwo, FormAfter
<1>2. CASE other = <<"gmbh", Space>> \o name
  BY <1>2, MarksAre, TwoMarks, TextOfTwo, FormBefore
<1>3. CASE other = name \o <<".">>
  BY <1>3, MarksAre, OneMark, TextOfTwo, DotAfter
<1>4. CASE other = <<Space>> \o name
  BY <1>4, MarksAre, OneMark, TextOfTwo, BlankBefore
<1>5. CASE other = [n \in DOMAIN name |-> Folded(name[n])]
  BY <1>5, LowerAlike
<1>6. QED
  BY <1>1, <1>2, <1>3, <1>4, <1>5

\* Spellings have the same key (normalize_vendor_name).
LEMMA SpellingsAreAlike ==
    ASSUME MaxKey \in Nat \ {0}, On("names") => In \in Seq(STRING)
    PROVE  SpellingsShareAKey
<1> DEFINE name == In
           c == Cleaned(name)
           Others == {name \o <<Space, "gmbh">>, <<"gmbh", Space>> \o name, name \o <<".">>, <<Space>> \o name,
                      [n \in DOMAIN name |-> Folded(name[n])]}
<1> SUFFICES ASSUME On("names"), \E n \in DOMAIN c : c[n] # Space, NEW other \in Others
             PROVE  Normalized(other) = Normalized(name)
  BY DEF SpellingsShareAKey, Space
<1>1. name \in Seq(Marked) /\ IsText(name)
  <2>1. name \in Seq(Letter)
    BY DEF Letter
  <2> HIDE DEF name
  <2>2. QED
    BY <2>1, NameIsText
<1>2. Collapsed(Cleaned(other)) = Collapsed(c)
  <2> HIDE DEF name
  <2> QED BY <1>1, SpellingsCollapse
<1>3. IsText(c) /\ DOMAIN c = 1..Len(c)
  BY <1>1, CleanedIs DEF IsText
<1>4. PICK i \in 1..Len(c) : c[i] # Space
  BY <1>3
<1> HIDE DEF name, Others
<1>5. Cut(Collapsed(c)) # << >> /\ Normalized(name) = Cut(Collapsed(c))
  <2> HIDE DEF c
  <2>1. c = Cleaned(name)
    BY DEF c
  <2>2. QED
    BY <1>3, <1>4, <2>1, KeyIsCut
<1>6. Normalized(other) = Cut(Collapsed(c))
  BY <1>2, <1>5 DEF Normalized
<1>7. QED
  BY <1>5, <1>6

-----------------------------------------------------------------------------
(* The properties, for every input.                                        *)

\* A chosen input is one of its topic.
LEMMA ChosenIsInput == Spec => [](input # << >> => In \in Inputs(topic))
<1> DEFINE Chosen == input # << >> => In \in Inputs(topic)
<1>1. Init => Chosen
  BY DEF Init
<1>2. Chosen /\ [Choose]_<<topic, input>> => Chosen'
  BY DEF Choose, In
<1>3. QED
  BY <1>1, <1>2, PTL DEF Spec

\* The masking of any text is undone by its entities, and equal placeholders
\* stand for equal values (RegexMasker.mask, MaskedText.unmask).
THEOREM MaskingIsAlwaysUndone == Spec => []MaskingIsUndone
<1>1. (input # << >> => In \in Inputs(topic)) => MaskingIsUndone
  <2>1. SUFFICES ASSUME On("masking"), In \in Inputs("masking") PROVE MaskingIsUndone
    BY DEF MaskingIsUndone, OnePlaceholderPerValue, RoundTrip, On
  <2>2. In \in Seq(Piece)
    BY <2>1, InputsAssumption
  <2>3. OnePlaceholderPerValue
    BY <2>2, PlaceholdersDiffer DEF OnePlaceholderPerValue
  <2>4. RoundTrip
    BY <2>2, UnmaskedIsText DEF RoundTrip
  <2>5. QED
    BY <2>3, <2>4 DEF MaskingIsUndone
<1>2. QED
  BY <1>1, ChosenIsInput, PTL

\* An e-invoice is taken over, with all its lines, exactly if it can be read and
\* has no NaN; a NaN escapes as an error exactly where every field is there and
\* a line has it or all fields can be read; the first known attachment of a PDF
\* decides; and what was taken over can be shown, for every document and file
\* (try_extract, _parse_ubl, _parse_cii, InvoiceFileResponse.from_model).
THEOREM EInvoicesAreAlwaysRead == Spec => []EInvoicesAreRead
<1>1. (input # << >> => In \in Inputs(topic)) => EInvoicesAreRead
  <2>1. SUFFICES ASSUME On("document") \/ On("file"), In \in Inputs(topic) PROVE EInvoicesAreRead
    BY DEF EInvoicesAreRead, ParsedIffComplete, AttachmentDecides, ParsedIsShown, On
  <2>2. Inputs("document") \cup Inputs("file") \subseteq File
    BY InputsAssumption, Zenon
  <2>3. In \in File
    BY <2>1, <2>2 DEF On
  <2>4. QED
    BY <2>3, TakenIffComplete, AttachmentIsDecisive, TakenIsShown DEF EInvoicesAreRead
<1>2. QED
  BY <1>1, ChosenIsInput, PTL

\* No content passes as two kinds of file, stored names are usable, and the
\* list of files shows what is served, newest first, each file whose time of
\* creation no page's end parts on exactly one page, for every content, name and
\* table (_check_magic_bytes, _sanitize_filename, list_invoice_files).
THEOREM UploadsAreAlwaysServed == Spec => []UploadsAreServed
<1>1. (input # << >> => In \in Inputs(topic)) => UploadsAreServed
  <2>1. SUFFICES ASSUME input # << >> => In \in Inputs(topic) PROVE UploadsAreServed
    OBVIOUS
  <2>2. OneKindOfFile
    <3>1. Inputs("content") \subseteq Content
      BY InputsAssumption, Zenon
    <3>2. On("content") => In \in Content
      BY <2>1, <3>1 DEF On
    <3>3. QED
      BY <3>2, OneKind DEF OneKindOfFile
  <2>3. StoredNameIsGiven
    <3>1. Inputs("file name") \subseteq Seq(STRING)
      BY InputsAssumption, Zenon
    <3>2. On("file name") => In \in Seq(STRING)
      BY <2>1, <3>1 DEF On
    <3>3. QED
      BY <3>2, NameIsGiven DEF StoredNameIsGiven
  <2>4. ListedAreServed
    <3>1. \A i \in Inputs("files") : Filing(i)
      BY InputsAssumption, Zenon DEF Filing
    <3>2. On("files") => Filing(In)
      BY <2>1, <3>1 DEF On
    <3>3. QED
      BY <3>2, ListedIsServed DEF ListedAreServed
  <2>5. QED
    BY <2>2, <2>3, <2>4 DEF UploadsAreServed
<1>2. QED
  BY <1>1, ChosenIsInput, PTL

\* Under every filter and in every order a client that pages through the invoices
\* gets them in order and misses none that was there, unless a page's end parts
\* it from one that is equal in the column of the order; what the filter offers
\* is found, and rounding raises no warning, for every table and page size
\* (list_filtered, list_distinct_vendors, _compute_warnings).
THEOREM ListsAreAlwaysRight == Spec => []ListsAreRight
<1>1. (input # << >> => In \in Inputs(topic)) => ListsAreRight
  <2>1. SUFFICES ASSUME input # << >> => In \in Inputs(topic) PROVE ListsAreRight
    OBVIOUS
  <2>2. PagesCover /\ OfferedIsFound
    <3>1. \A i \in Inputs("paging") : Listing(i)
      BY InputsAssumption, Zenon DEF Listing
    <3>2. On("paging") => Listing(In)
      BY <2>1, <3>1 DEF On
    <3>3. QED
      BY <3>2, NoneIsMissed, OfferedHasInvoices DEF PagesCover, OfferedIsFound
  <2>3. RoundingIsForgiven
    <3>1. Inputs("rounding") \subseteq Nat \X Nat
      BY InputsAssumption, Zenon
    <3>2. On("rounding") => In \in Nat \X Nat
      BY <2>1, <3>1 DEF On
    <3>3. QED
      BY <3>2, RoundingForgiven DEF RoundingIsForgiven
  <2>4. QED
    BY <2>2, <2>3 DEF ListsAreRight
<1>2. QED
  BY <1>1, ChosenIsInput, PTL

\* The figures of the dashboard and its alerts are right, and the top vendors and
\* the recent activity for every limit, for every table of invoices and every
\* day (get_kpis, get_cashflow, get_top_vendors, get_recent_activity,
\* _build_alerts).
THEOREM DashboardIsAlwaysRight == Spec => []DashboardIsRight
<1>1. (input # << >> => In \in Inputs(topic)) => DashboardIsRight
  <2>1. SUFFICES ASSUME input # << >> => In \in Inputs(topic) PROVE DashboardIsRight
    OBVIOUS
  <2>2. QuartersTile
    <3>1. Inputs("quarter") \subseteq Date
      BY InputsAssumption, Zenon
    <3>2. On("quarter") => In \in Date
      BY <2>1, <3>1 DEF On
    <3>3. QED
      BY <3>2, QuarterTiles DEF QuartersTile
  <2>3. CashflowIsComplete /\ VatIsOfTheMonths /\ OpenIsTheRest
    <3>1. \A i \in Inputs("cash flow") : Flow(i)
      BY InputsAssumption, Zenon DEF Flow
    <3>2. On("cash flow") => Flow(In)
      BY <2>1, <3>1 DEF On
    <3>3. QED
      BY <3>2, FlowIsComplete, VatIsComplete, OpenIsComplete
  <2>4. AlertsAreRight /\ UnusualNeedsHistory /\ TopIsMost
    <3>1. \A i \in Inputs("alerts") : Book(i)
      BY InputsAssumption, Zenon DEF Book
    <3>2. On("alerts") => Book(In)
      BY <2>1, <3>1 DEF On
    <3>3. QED
      BY <3>2, BookIsRight
  <2>5. QED
    BY <2>2, <2>3, <2>4 DEF DashboardIsRight
<1>2. QED
  BY <1>1, ChosenIsInput, PTL

\* The spellings of a vendor's name share a key, the distance of two keys counts
\* the edits between them, the closest mapping is suggested, the last used one
\* of several, and none but the key's own is booked on, for every name and
\* every list of mappings (normalize_vendor_name, _levenshtein_distance,
\* suggest_for_vendor, resolve_for_export).
THEOREM NamesAreAlwaysMatched == Spec => []NamesAreMatched
<1>1. (input # << >> => In \in Inputs(topic)) => NamesAreMatched
  <2>1. SUFFICES ASSUME input # << >> => In \in Inputs(topic) PROVE NamesAreMatched
    OBVIOUS
  <2>2. SpellingsShareAKey
    <3>1. Inputs("names") \subseteq Seq(STRING) /\ MaxKey \in Nat \ {0}
      <4>1. Inputs("names") \subseteq Seq(STRING) /\ {MaxName, MaxKey} \subseteq Nat \ {0}
        BY InputsAssumption, Zenon
      <4>2. QED
        BY <4>1
    <3>2. On("names") => In \in Seq(STRING)
      BY <2>1, <3>1 DEF On
    <3>3. QED
      BY <3>1, <3>2, SpellingsAreAlike
  <2>3. DistanceIsEdits
    <3>1. Inputs("distance") \subseteq Seq(STRING) \X Seq(STRING)
      BY InputsAssumption, Zenon
    <3>2. On("distance") => In \in Seq(STRING) \X Seq(STRING)
      BY <2>1, <3>1 DEF On
    <3>3. QED
      BY <3>2, DistancesAreEdits
  <2>4. ClosestIsSuggested /\ OnlyExactIsBooked
    <3>1. /\ Cutoff \in Nat
          /\ \A i \in Inputs("suggestion") : i.key \in Seq(STRING) /\ i.mappings \in Seq(Mapping)
      BY InputsAssumption, Zenon
    <3>2. On("suggestion") => In.key \in Seq(STRING) /\ In.mappings \in Seq(Mapping)
      BY <2>1, <3>1 DEF On
    <3>3. QED
      BY <3>1, <3>2, SuggestionsAreClosest, ExactAreBooked
  <2>5. QED
    BY <2>2, <2>3, <2>4 DEF NamesAreMatched
<1>2. QED
  BY <1>1, ChosenIsInput, PTL
=============================================================================
