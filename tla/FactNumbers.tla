---------------------------- MODULE FactNumbers -----------------------------
(***************************************************************************)
(* The number rule of llm fact verification: every number of a fact's      *)
(* Point must appear, by value, in its Quote (factNumbersCovered).  Pure   *)
(* operators.                                                              *)
(*                                                                         *)
(* A number in normalised text, as factNumberRe matches it, is its digit   *)
(* groups, the separators between them and what stands before it: "1,234"  *)
(* in "to -1,234" is [dash |-> TRUE, digitBefore |-> FALSE, groups |->     *)
(* <<<<1>>, <<2,3,4>>>>, seps |-> <<"comma">>].  A form, the string the    *)
(* code compares, is a record of the same content.                         *)
(***************************************************************************)
EXTENDS Integers, Sequences, FiniteSetsExt

thousandsGroupLen == 3

\* factNumberRe: a space separates exactly three digits, and only a last group
\* may follow the space-separated ones after . or , again.
factNumberRe(m) ==
    /\ Len(m.groups) = Len(m.seps) + 1
    /\ \A k \in DOMAIN m.seps : m.seps[k] = "space" => Len(m.groups[k + 1]) = thousandsGroupLen
    /\ \A j, k \in DOMAIN m.seps : j < k /\ m.seps[j] = "space" /\ m.seps[k] # "space" => k = Len(m.seps)

\* A "-" directly before a match is its sign unless a digit precedes it, as in
\* a range.
factNumberTokens(matches) ==
    {[neg |-> m.dash /\ ~m.digitBefore, groups |-> m.groups, seps |-> m.seps] : m \in matches}

allThreeDigit(groups) == \A k \in DOMAIN groups : Len(groups[k]) = thousandsGroupLen

NonZero(ds) == {k \in DOMAIN ds : ds[k] # 0}

TrimLeftZeros(ds) == IF NonZero(ds) = {} THEN <<>> ELSE SubSeq(ds, Min(NonZero(ds)), Len(ds))

TrimRightZeros(ds) == IF NonZero(ds) = {} THEN <<>> ELSE SubSeq(ds, 1, Max(NonZero(ds)))

\* canonicalNumber: no leading zeros but one, no trailing zeros in the
\* fraction, no negative zero.
canonicalNumber(neg, int, frac) ==
    LET i == IF TrimLeftZeros(int) = <<>> THEN <<0>> ELSE TrimLeftZeros(int)
        f == TrimRightZeros(frac)
    IN  [neg |-> neg /\ ~(i = <<0>> /\ f = <<>>), int |-> i, frac |-> f, literal |-> <<>>]

\* A version or identifier: its literal form, with its cuts.
Literal(t) == [neg |-> t.neg, int |-> <<>>, frac |-> <<>>, literal |-> <<t.groups, t.seps>>]

\* strings.Join(groups, "").
Join(groups) ==
    LET joined[k \in 0 .. Len(groups)] == IF k = 0 THEN <<>> ELSE joined[k - 1] \o groups[k]
    IN  joined[Len(groups)]

\* Mutant: a decimal mark is dropped like a thousands separator.
numberFormsConcat(t) == {canonicalNumber(t.neg, Join(t.groups), <<>>)}

\* The values a token may stand for: all separators thousands separators; the
\* last one a decimal mark; neither, the literal form only.
numberForms(t) ==
    LET n == Len(t.groups)
        thousands == n > 1 /\ allThreeDigit(SubSeq(t.groups, 2, n))
        decimal == n > 1 /\ t.seps[n - 1] # "space" /\ allThreeDigit(SubSeq(t.groups, 2, n - 1))
        asThousands == canonicalNumber(t.neg, Join(t.groups), <<>>)
        asDecimal == canonicalNumber(t.neg, Join(SubSeq(t.groups, 1, n - 1)), t.groups[n])
    IN  (IF thousands THEN {asThousands} ELSE {})
          \cup (IF decimal THEN {asDecimal} ELSE {})
          \cup (IF thousands \/ decimal THEN {}
                ELSE IF n = 1 THEN {canonicalNumber(t.neg, t.groups[1], <<>>)} ELSE {Literal(t)})

factNumbersCovered(point, quote) ==
    LET have == UNION {numberForms(t) : t \in factNumberTokens(quote)}
    IN  \A t \in factNumberTokens(point) : numberForms(t) \cap have # {}

-----------------------------------------------------------------------------
\* Reference: the number a row of digits spells.
Digits(ds) ==
    LET v[k \in 0 .. Len(ds)] == IF k = 0 THEN 0 ELSE 10 * v[k - 1] + ds[k]
    IN  v[Len(ds)]

\* The value of a reading, in units of the last of places decimals.
Value(neg, int, frac, places) ==
    LET decimals == [k \in 1 .. places |-> IF k <= Len(frac) THEN frac[k] ELSE 0]
    IN  (IF neg THEN -1 ELSE 1) * Digits(int \o decimals)

\* The values of a token: its digits with every separator a grouping of three,
\* and with the last . or , as decimal mark behind such groups.
Values(t, places) ==
    LET n == Len(t.groups)
        grouped(k) == \A j \in 2 .. k : Len(t.groups[j]) = 3
    IN  {v \in {Value(t.neg, Join(t.groups), <<>>, places)} : grouped(n)}
          \cup {v \in {Value(t.neg, Join(SubSeq(t.groups, 1, n - 1)), t.groups[n], places)} :
                  n > 1 /\ grouped(n - 1) /\ t.seps[n - 1] \in {"dot", "comma"}}

SameValue(t, u, places) ==
    \/ Values(t, places) \cap Values(u, places) # {}
    \/ t = u /\ Values(t, places) = {}

\* The number rule behind a "verified" fact neither invents nor loses a match:
\* it passes exactly when every number of the point has a reading of the same
\* value as a reading of some number of the quote, whatever their zeros and
\* separators ("1,234" is "1234", "1.5" is never "15", "-15" never "15"), or is
\* a version-like token ("1.2.3") the quote repeats literally.  places is at
\* least the length of every group.
NumbersDecide(point, quote, places) ==
    factNumbersCovered(point, quote) <=>
        \A t \in factNumberTokens(point) : \E u \in factNumberTokens(quote) : SameValue(t, u, places)
=============================================================================
