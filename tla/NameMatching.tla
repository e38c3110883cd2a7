---------------------------- MODULE NameMatching ----------------------------
(***************************************************************************)
(* How a vendor's name finds its account: the normalised key of a name and *)
(* the suggestion for a key, by equality or within two edits of another.   *)
(* A raw name is a sequence of characters and legal forms, a key one of    *)
(* characters.                                                             *)
(***************************************************************************)
EXTENDS Integers, Sequences, SequencesExt, FiniteSets, FiniteSetsExt

CONSTANTS
    MaxKey,   \* characters of a key (200)
    Cutoff    \* _FUZZY_LIST_LIMIT: mappings that are compared (5000)

-----------------------------------------------------------------------------
(* normalize_vendor_name                                                   *)

\* Characters: letters, a capital and an accented one, a blank, punctuation.
\* Legal forms are words; the two spelled with an umlaut are looked for after
\* accents were removed and are never found.
Space == " "
Folded(c) == CASE c = "A" -> "a" [] c = "ae" -> "a" [] OTHER -> c
Lower(c) == IF c = "A" THEN "a" ELSE c
Found   == {"gmbh", "ag", "kg"}
Letters == {"a", "b", "A", "ae"}

IsForm(name, n) ==
    /\ name[n] \in Found
    /\ n > 1 => name[n - 1] \notin Letters
    /\ n < Len(name) => name[n + 1] \notin Letters

\* Legal forms and punctuation become blanks.
Cleaned(name) ==
    [n \in DOMAIN name |->
        IF IsForm(name, n) \/ name[n] = "." THEN Space ELSE Folded(name[n])]

Collapsed(s) ==
    LET kept == {n \in DOMAIN s :
                   \/ s[n] # Space
                   \/ /\ n > 1 /\ s[n - 1] # Space
                      /\ \E m \in (n + 1)..Len(s) : s[m] # Space}
    IN  [k \in 1..Cardinality(kept) |->
            s[CHOOSE n \in kept : Cardinality({m \in kept : m <= n}) = k]]
Trimmed(s) ==
    LET solid == {n \in DOMAIN s : s[n] # Space}
    IN  IF solid = {} THEN << >> ELSE SubSeq(s, Min(solid), Max(solid))
Cut(s) == SubSeq(s, 1, Min({MaxKey, Len(s)}))

Normalized(name) ==
    LET key == Cut(Collapsed(Cleaned(name)))
    IN  IF key # << >> THEN key ELSE Cut(Trimmed([n \in DOMAIN name |-> Lower(name[n])]))

-----------------------------------------------------------------------------
(* _levenshtein_distance: row by row, a row by its cells.                  *)

NextRow(previous, l, right) ==
    FoldLeft(LAMBDA row, j :
               Append(row, Min({previous[j + 1] + 1, Last(row) + 1,
                                previous[j] + (IF l = right[j] THEN 0 ELSE 1)})),
             <<previous[1] + 1>>, [j \in DOMAIN right |-> j])

Distance(left, right) ==
    IF left = right THEN 0
    ELSE IF left = << >> THEN Len(right)
    ELSE IF right = << >> THEN Len(left)
    ELSE Last(FoldLeft(LAMBDA previous, l : NextRow(previous, l, right),
                       [j \in 1..(Len(right) + 1) |-> j - 1], left))

\* _length_difference_ratio > 0.3
Abs(n) == IF n < 0 THEN -n ELSE n
LengthsDiffer(left, right) ==
    10 * Abs(Len(left) - Len(right)) > 3 * Max({Len(left), Len(right), 1})

-----------------------------------------------------------------------------
(* suggest_for_vendor.  Mappings are a sequence, the last used first, each *)
(* [key, account, usage, used]; confidence is in tenths.                   *)

NoSuggestion == [match |-> "none", mapping |-> << >>, confidence |-> 0]
CalculateConfidence(usage) == IF usage <= 0 THEN 0 ELSE IF usage >= 5 THEN 10 ELSE 2 * usage
AutoApply(s) == s.confidence >= 8

\* What if the last used of those close enough were taken?
BetterByUse(m, d, best) == best = << >> \/ m.used > best.mapping.used

Better(m, d, best) == \/ best = << >>
                      \/ d < best.distance
                      \/ d = best.distance /\ m.used > best.mapping.used

Consider(key, best, m) ==
    LET d == Distance(key, m.key)
    IN  IF LengthsDiffer(key, m.key) \/ d > 2 \/ ~Better(m, d, best)
        THEN best ELSE [mapping |-> m, distance |-> d]

Compared(mappings) == SubSeq(mappings, 1, Min({Cutoff, Len(mappings)}))

SuggestForVendor(mappings, key) ==
    LET exact == {m \in ToSet(mappings) : m.key = key}
        best  == FoldLeft(LAMBDA b, m : Consider(key, b, m), << >>, Compared(mappings))
    IN  CASE key = << >> -> NoSuggestion
          [] key # << >> /\ exact # {} ->
               LET m == CHOOSE x \in exact : TRUE
               IN  [match |-> "exact", mapping |-> m, confidence |-> CalculateConfidence(m.usage)]
          [] key # << >> /\ exact = {} /\ best # << >> ->
               [match |-> "fuzzy", mapping |-> best.mapping,
                confidence |-> CalculateConfidence(best.mapping.usage) \div 2]
          [] OTHER -> NoSuggestion

\* resolve_for_export
ResolveForExport(mappings, key, default) ==
    LET s == SuggestForVendor(mappings, key)
    IN  IF s.match # "none" /\ AutoApply(s) THEN s.mapping.account ELSE default
=============================================================================
