-------------------------------- MODULE Text --------------------------------
(***************************************************************************)
(* Package text: the character chunker that cuts fetched pages, and the    *)
(* token budgets of the prompt (with llm.BuildSourcesText).  Pure          *)
(* operators.                                                              *)
(*                                                                         *)
(* A text to chunk is a sequence of runes of three kinds, "space", other   *)
(* white space, "white", and the rest, "word"; a chunk is the set of rune  *)
(* positions it holds.  A text to truncate is the sequence of its runes'   *)
(* byte lengths.  charsPerToken is cpt / 2.                                *)
(***************************************************************************)
EXTENDS Integers, Sequences, FiniteSetsExt, Functions

\* NewCharacterChunker: an overlap that would not advance is replaced.
Clamped(chunkSize, overlap) == IF overlap >= chunkSize THEN chunkSize \div 4 ELSE overlap

\* The positions from pos up to end - 1 that are no white space.  They count
\* from 0, as in the code: runes[i] is the rune at text[i + 1].
Words(text, pos, end) == {i \in pos .. (end - 1) : text[i + 1] = "word"}

\* strings.TrimSpace of runes[pos:end].
Trimmed(text, pos, end) ==
    LET words == Words(text, pos, end)
    IN  IF words = {} THEN {} ELSE Min(words) .. Max(words)

\* The last space of the second half of the window, -1 when it has none.
findWordBoundary(text, chunkSize, pos, end) ==
    Max({-1} \cup {i \in (pos + chunkSize \div 2) .. (end - 1) : text[i + 1] = "space"})

\* Mutant: the step back is not limited, and may not advance.
AdvanceFree(pos, next) == next

Advance(pos, next) == IF next <= pos THEN pos + 1 ELSE next

nextChunk(text, chunkSize, overlap, pos) ==
    LET end == pos + chunkSize
        splitAt == findWordBoundary(text, chunkSize, pos, end)
    IN  IF end >= Len(text) THEN [chunk |-> Trimmed(text, pos, Len(text)), next |-> Len(text)]
        ELSE IF splitAt >= 0 THEN [chunk |-> Trimmed(text, pos, splitAt), next |-> Advance(pos, splitAt + 1 - overlap)]
        ELSE [chunk |-> Trimmed(text, pos, end), next |-> Advance(pos, end - overlap)]

\* The start positions of the loop of Chunk, followed for Len(text) rounds:
\* one that advances every round needs no more.
Starts(text, chunkSize, overlap) ==
    LET from[k \in 0 .. Len(text)] ==
            IF k = 0 THEN 0
            ELSE IF from[k - 1] >= Len(text) THEN from[k - 1]
            ELSE nextChunk(text, chunkSize, overlap, from[k - 1]).next
    IN  from

\* The text is trimmed already.
Chunk(text, chunkSize, overlap) ==
    LET from == Starts(text, chunkSize, overlap)
    IN  IF text = <<>> THEN {}
        ELSE IF Len(text) <= chunkSize THEN {0 .. (Len(text) - 1)}
        ELSE {nextChunk(text, chunkSize, overlap, from[k]).chunk :
                k \in {j \in DOMAIN from : from[j] < Len(text)}} \ {{}}

-----------------------------------------------------------------------------
\* Bytes before rune k + 1.
Offset(text, k) == SumFunctionOnSet(text, 1 .. k)

\* Mutant: the rune that straddles the limit is kept.
TruncateToTokenBudgetOver(text, maxTokens, cpt) ==
    LET maxBytes == (maxTokens * cpt) \div 2
    IN  IF maxTokens <= 0 THEN 0
        ELSE IF Offset(text, Len(text)) <= maxBytes THEN Len(text)
        ELSE Min({k \in 0 .. Len(text) : Offset(text, k) >= maxBytes})

\* The number of runes kept: back from byte maxBytes to the start of a rune.
TruncateToTokenBudget(text, maxTokens, cpt) ==
    LET maxBytes == (maxTokens * cpt) \div 2
    IN  IF maxTokens <= 0 THEN 0
        ELSE IF Offset(text, Len(text)) <= maxBytes THEN Len(text)
        ELSE Max({k \in 0 .. Len(text) : Offset(text, k) <= maxBytes})

EstimateTokens(bytes, cpt) == (2 * bytes + cpt - 1) \div cpt

\* rankedWeights, in hundredths.
rankedWeights == <<30, 25, 20, 15, 10>>

CeilDiv(a, b) == (a + b - 1) \div b

\* BuildSourcesText: the tokens that the fetched content of source i may use of
\* the total budget, i <= Len(weights).
TokensOf(i, totalBudget, weights) == CeilDiv(totalBudget * weights[i], 100)

\* BuildSourcesText: the runes source i shows, of its content, which is empty
\* when nothing was fetched, or of its snippet, which is never cut.
Shown(i, content, snippet, totalBudget, cpt) ==
    IF content # <<>> /\ i <= Len(rankedWeights)
    THEN [text |-> content, runes |-> TruncateToTokenBudget(content, TokensOf(i, totalBudget, rankedWeights), cpt)]
    ELSE [text |-> snippet, runes |-> Len(snippet)]

-----------------------------------------------------------------------------
\* Chunk ends, whatever the overlap: each round starts behind the one before.
\* No word is lost between chunks and no chunk is longer than chunkSize.
ChunksCoverText(text, chunkSize, overlap) ==
    LET o == Clamped(chunkSize, overlap)
        from == Starts(text, chunkSize, o)
        chunks == Chunk(text, chunkSize, o)
    IN  /\ from[Len(text)] >= Len(text)
        /\ \A k \in DOMAIN from : k > 0 /\ from[k - 1] < Len(text) => from[k] > from[k - 1]
        /\ Words(text, 0, Len(text)) \subseteq UNION chunks
        /\ \A c \in chunks : Cardinality(c) <= chunkSize

\* The content a source shows fits the source's share of the budget, ends
\* between two runes and could not hold one rune more; the shares of the fetched
\* contents exceed the total by less than one token each, the ceilings'
\* rounding.  Snippets are not cut and not counted: of the prompt as a whole
\* nothing is said.
BudgetKept(text, totalBudget, cpt) ==
    /\ text # <<>> => \A i \in DOMAIN rankedWeights :
         LET t == TokensOf(i, totalBudget, rankedWeights)
             k == Shown(i, text, <<>>, totalBudget, cpt).runes
         IN  /\ EstimateTokens(Offset(text, k), cpt) <= t
             /\ k < Len(text) => 2 * Offset(text, k + 1) > t * cpt
    /\ SumFunction([i \in DOMAIN rankedWeights |-> TokensOf(i, totalBudget, rankedWeights)])
         < totalBudget + Len(rankedWeights)
=============================================================================
