------------------------------- MODULE Masking -------------------------------
(***************************************************************************)
(* RegexMasker and MaskedText: texts that leave for the provider have      *)
(* their personal data replaced by numbered placeholders.  A text is a     *)
(* sequence of pieces [kind, value]: kind is the first pattern of          *)
(* MASKING_ORDER that takes the piece, or "word".                          *)
(***************************************************************************)
EXTENDS Naturals, Sequences, SequencesExt, FiniteSets

MaskingOrder == <<"IBAN", "VAT_ID", "EMAIL", "CREDIT_CARD", "PHONE">>

Placeholder(kind, n) == [kind |-> "placeholder", value |-> <<kind, n>>]
Matches(text, kind) == {n \in DOMAIN text : text[n].kind = kind}

\* Matches are replaced from the last to the first, and a value gets its
\* number at its first replacement: at its last occurrence in the text.
\* What if the kind were the key of the cache, and not the value?
LaterKinds(text, kind, n) == {text[m].kind : m \in {m \in Matches(text, kind) : m >= n}}

Later(text, kind, n) ==
    {text[m].value : m \in {m \in Matches(text, kind) : m >= n}}
NumberOf(text, kind, value) ==
    CHOOSE k \in 1..Len(text) :
        \E n \in Matches(text, kind) :
            /\ text[n].value = value
            /\ \A m \in Matches(text, kind) : text[m].value = value => m <= n
            /\ k = Cardinality(Later(text, kind, n))

Masked(text) ==
    [n \in DOMAIN text |->
        IF text[n].kind = "word" THEN text[n]
        ELSE Placeholder(text[n].kind, NumberOf(text, text[n].kind, text[n].value))]

\* In the order of appending, reversed: kinds backwards, numbers downwards.
EntitiesOf(text, kind) ==
    LET values == {text[n].value : n \in Matches(text, kind)}
    IN  [k \in 1..Cardinality(values) |->
            [placeholder |-> Placeholder(kind, k),
             original    |-> [kind |-> kind,
                              value |-> CHOOSE v \in values : NumberOf(text, kind, v) = k]]]
Entities(text) ==
    Reverse(FoldLeft(LAMBDA list, kind : list \o EntitiesOf(text, kind), << >>, MaskingOrder))

\* unmask: one entity after the other.
Unmask(entities, response) ==
    FoldLeft(LAMBDA answer, e :
               [n \in DOMAIN answer |-> IF answer[n] = e.placeholder THEN e.original ELSE answer[n]],
             response, entities)
=============================================================================
