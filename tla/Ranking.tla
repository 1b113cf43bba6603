------------------------------ MODULE Ranking -------------------------------
(***************************************************************************)
(* What happens to search results once they are found: reciprocal-rank     *)
(* fusion (websearch.FuseWRR, imagesearch.fuseWRR behind                   *)
(* MultiSearch.Search), the score and domain filters and the removal of    *)
(* near-duplicate snippets.  Pure operators.                               *)
(*                                                                         *)
(* A result is a record with its URL (an empty one is "none") and, where   *)
(* an operator reads them, its Score, its domain ("none" when url.Parse    *)
(* fails) and its Content, a bag of words.  Scores are integers: a fused   *)
(* score is w / (60 + rank), here scaled by ScoreUnit, a common multiple   *)
(* of the denominators in use, so that comparisons are exact where the     *)
(* code rounds.                                                            *)
(***************************************************************************)
EXTENDS Integers, Sequences, FiniteSets, Functions

rrfK == 60
ScoreUnit == 60 * 61 * 31   \* divisible by 60, 61 and 62: ranks 0 to 2

rrf(w, rank) == (w * ScoreUnit) \div (rrfK + rank)

Weight(weights, i) == IF i <= Len(weights) THEN weights[i] ELSE 1

\* The members of U, a finite set that the relation before orders, one by one.
Arrange(U, before) ==
    [p \in 1 .. Cardinality(U) |-> CHOOSE u \in U : Cardinality({v \in U : <<v, u>> \in before}) = p - 1]

\* A loop over results that appends those at the indices K.
InOrder(results, K) ==
    LET at == Arrange(K, {e \in K \X K : e[1] < e[2]})
    IN  [p \in 1 .. Cardinality(K) |-> results[at[p]]]

\* <<i, r>> is entry r of result set i.
Entries(sets) == UNION {{i} \X DOMAIN sets[i] : i \in DOMAIN sets}

\* Entries without URL ("none") are skipped, and keep their rank.
URLs(sets) == {sets[p[1]][p[2]] : p \in Entries(sets)} \ {"none"}

Hits(sets, u) == {p \in Entries(sets) : sets[p[1]][p[2]] = u}

\* Mutant: the score of the first occurrence, later ones add nothing.
FusedScoreFirst(sets, weights, u) ==
    LET first == CHOOSE p \in Hits(sets, u) : \A q \in Hits(sets, u) : p[1] <= q[1]
    IN  rrf(Weight(weights, first[1]), first[2] - 1)

FusedScore(sets, weights, u) ==
    SumFunctionOnSet([p \in Hits(sets, u) |-> rrf(Weight(weights, p[1]), p[2] - 1)], Hits(sets, u))

Earlier(p, q) == p[1] < q[1] \/ (p[1] = q[1] /\ p[2] < q[2])

\* u comes before v in order, the list of URLs as they are first seen.
SeenBefore(sets, u, v) == \E p \in Hits(sets, u) : \A q \in Hits(sets, v) : Earlier(p, q)

\* sort.SliceStable by descending score of what was seen in that order.
FuseWRR(sets, weights) ==
    LET score == [u \in URLs(sets) |-> FusedScore(sets, weights, u)]
        ahead(v, u) == score[v] > score[u] \/ (score[v] = score[u] /\ SeenBefore(sets, v, u))
        merged == Arrange(URLs(sets), {e \in URLs(sets) \X URLs(sets) : ahead(e[1], e[2])})
    IN  [p \in 1 .. Cardinality(URLs(sets)) |-> [URL |-> merged[p], Score |-> score[merged[p]]]]

\* imagesearch.fuseWRR is FuseWRR without weights.
fuseWRR(sets) == FuseWRR(sets, <<>>)

-----------------------------------------------------------------------------
\* imagesearch.MultiSearch.  A script is what the three possible calls of an
\* engine's Search would answer, [err, res] each: the primary doer's, then the
\* fallback doer's.

\* Mutant: the fallback is asked again whatever was found.
EngineSearchAlways(script, fallback) ==
    LET retried == script[1].err /\ fallback
        r == IF retried THEN script[2] ELSE script[1]
        again == IF retried THEN script[3] ELSE script[2]
    IN  IF r.err THEN <<>> ELSE IF fallback THEN again.res ELSE r.res

\* An error goes to the fallback; an empty answer, the fallback's own
\* included, goes to the fallback (once more), and a failure there is ignored.
EngineSearch(script, fallback) ==
    LET retried == script[1].err /\ fallback
        r == IF retried THEN script[2] ELSE script[1]
        again == IF retried THEN script[3] ELSE script[2]
    IN  IF r.err THEN <<>> ELSE IF r.res = <<>> /\ fallback THEN again.res ELSE r.res

Heard(scripts, fallback) == {e \in DOMAIN scripts : EngineSearch(scripts[e], fallback) # <<>>}

\* order lists the engines that found something as they finish and append.
MultiSearch(scripts, fallback, order, max) ==
    LET fused == fuseWRR([k \in DOMAIN order |-> EngineSearch(scripts[order[k]], fallback)])
    IN  IF Len(fused) > max THEN SubSeq(fused, 1, max) ELSE fused

-----------------------------------------------------------------------------
\* Mutant: too few results pass, so only those are returned.
FilterByScorePassing(results, minScore, minKeep) ==
    InOrder(results, {k \in DOMAIN results : results[k].Score >= minScore})

FilterByScore(results, minScore, minKeep) ==
    LET passing == {k \in DOMAIN results : results[k].Score >= minScore}
    IN  IF Cardinality(passing) >= minKeep THEN InOrder(results, passing)
        ELSE IF Len(results) >= minKeep THEN SubSeq(results, 1, minKeep) ELSE results

High(r, threshold) == threshold > 0 /\ r.Score >= threshold

\* Mutant: results over the threshold are not counted for their domain.
KeptByDomainUncounted(results, maxPerDomain, threshold) ==
    LET used(K, d) == Cardinality({j \in K : results[j].domain = d /\ ~High(results[j], threshold)})
        kept[k \in 0 .. Len(results)] ==
            IF k = 0 THEN {}
            ELSE IF results[k].domain # "none"
                      /\ (High(results[k], threshold) \/ used(kept[k - 1], results[k].domain) < maxPerDomain)
            THEN kept[k - 1] \cup {k} ELSE kept[k - 1]
    IN  kept[Len(results)]

\* The indices DedupByDomain keeps.  Results over the threshold bypass the
\* limit, and count for it.
KeptByDomain(results, maxPerDomain, threshold) ==
    LET used(K, d) == Cardinality({j \in K : results[j].domain = d})
        kept[k \in 0 .. Len(results)] ==
            IF k = 0 THEN {}
            ELSE IF results[k].domain # "none"
                      /\ (High(results[k], threshold) \/ used(kept[k - 1], results[k].domain) < maxPerDomain)
            THEN kept[k - 1] \cup {k} ELSE kept[k - 1]
    IN  kept[Len(results)]

DedupByDomain(results, maxPerDomain, threshold) ==
    InOrder(results, KeptByDomain(results, maxPerDomain, threshold))

\* cosineSimilarity(a, b) > p/q over bags of words, squared: no square roots.
Similar(a, b, p, q) ==
    LET dot == SumFunction([w \in (DOMAIN a) \cap (DOMAIN b) |-> a[w] * b[w]])
        norm(v) == SumFunction([w \in DOMAIN v |-> v[w] * v[w]])
    IN  q * q * dot * dot > p * p * norm(a) * norm(b)

\* Mutant: of two near-duplicates the second is removed, whatever the scores.
CompareSecond(results, p, q, removed, i, j) ==
    IF i < j /\ i \notin removed /\ j \notin removed /\ Similar(results[i].Content, results[j].Content, p, q)
    THEN removed \cup {j} ELSE removed

\* The body of the inner loop.  A removed i ends the loop: its later pairs
\* change nothing.
Compare(results, p, q, removed, i, j) ==
    IF i < j /\ i \notin removed /\ j \notin removed /\ Similar(results[i].Content, results[j].Content, p, q)
    THEN removed \cup {IF results[i].Score >= results[j].Score THEN j ELSE i}
    ELSE removed

\* The inner loop, over j.
CompareAll(results, p, q, removed, i) ==
    LET after[j \in 0 .. Len(results)] ==
            IF j = 0 THEN removed ELSE Compare(results, p, q, after[j - 1], i, j)
    IN  after[Len(results)]

\* The indices removed: the outer loop, over i.
markDuplicates(results, p, q) ==
    LET after[i \in 0 .. Len(results)] ==
            IF i = 0 THEN {} ELSE CompareAll(results, p, q, after[i - 1], i)
    IN  after[Len(results)]

DedupSnippets(results, p, q) == InOrder(results, (DOMAIN results) \ markDuplicates(results, p, q))

-----------------------------------------------------------------------------
\* What the operators promise, over any input.

ScoresOf(results) == [k \in DOMAIN results |-> results[k].Score]
Sorted(results) == \A j, k \in DOMAIN results : j < k => results[j].Score >= results[k].Score

\* What InOrder returns is results without the others: a subsequence.
Subsequence(out, results) ==
    \E at \in [DOMAIN out -> DOMAIN results] :
        /\ \A j, k \in DOMAIN out : j < k => at[j] < at[k]
        /\ \A k \in DOMAIN out : out[k] = results[at[k]]

\* Result sets arrive in the order their goroutines finish.  The fused list is
\* sorted, lists each URL once and has the same scores in any order: only URLs
\* of equal score change places.
FusionIgnoresArrival(sets, weights) ==
    LET fused == FuseWRR(sets, weights)
        moved(pi) == FuseWRR([k \in DOMAIN sets |-> sets[pi[k]]],
                             [k \in DOMAIN sets |-> Weight(weights, pi[k])])
    IN  /\ Sorted(fused)
        /\ {fused[k].URL : k \in DOMAIN fused} = URLs(sets)
        /\ \A j, k \in DOMAIN fused : fused[j].URL = fused[k].URL => j = k
        /\ \A pi \in Bijection(DOMAIN sets, DOMAIN sets) : Range(moved(pi)) = Range(fused)

\* MultiSearch returns images of the same scores whichever engine finishes
\* first, the cut to max included, and an engine that found anything in the
\* answers it asked for is heard: the second fallback call, made when the first
\* answered with nothing, never replaces results by nothing.
ImagesHeard(scripts, fallback, max) ==
    LET asked(s) == IF ~fallback \/ (~s[1].err /\ s[1].res # <<>>) THEN 1 .. 1
                    ELSE IF s[1].err /\ ~s[2].err /\ s[2].res = <<>> THEN 1 .. 3
                    ELSE 1 .. 2
        heard == Heard(scripts, fallback)
        orders == Bijection(1 .. Cardinality(heard), heard)
    IN  /\ heard = {e \in DOMAIN scripts : \E k \in asked(scripts[e]) : scripts[e][k].res # <<>>}
        /\ \A o1, o2 \in orders : ScoresOf(MultiSearch(scripts, fallback, o1, max))
                                  = ScoresOf(MultiSearch(scripts, fallback, o2, max))

\* FilterByScore keeps minKeep results when there are that many, and on a list
\* sorted by score, as FuseWRR returns it, drops none that reaches minScore.
FilterKeepsEnough(results, minScore, minKeep) ==
    LET out == FilterByScore(results, minScore, minKeep)
    IN  /\ Len(out) >= minKeep \/ out = results
        /\ Subsequence(out, results)
        /\ Sorted(results) => /\ Len(out) <= Len(results) /\ out = SubSeq(results, 1, Len(out))
                              /\ \A k \in DOMAIN results : results[k].Score >= minScore => k <= Len(out)

\* DedupByDomain drops a result exactly when it has no domain or is below the
\* threshold behind maxPerDomain kept ones of its domain; so it loses no
\* domain.  What it keeps stays in order.
DomainsLimited(results, maxPerDomain, threshold) ==
    LET kept == KeptByDomain(results, maxPerDomain, threshold)
        out == DedupByDomain(results, maxPerDomain, threshold)
        before(k) == {j \in kept : j < k /\ results[j].domain = results[k].domain}
    IN  /\ \A k \in DOMAIN results :
             k \in kept <=> results[k].domain # "none"
                              /\ (High(results[k], threshold) \/ Cardinality(before(k)) < maxPerDomain)
        /\ Subsequence(out, results)
        /\ {r.domain : r \in Range(results)} \ {"none"} = {r.domain : r \in Range(out)}

\* DedupSnippets leaves no two near-duplicates, and what it removes is linked,
\* by near-duplicates of no smaller score, to a result it keeps: whatever set
\* of results contains it and all it is linked to contains a kept one.  A
\* direct link is not promised: the result that superseded one may be superseded.
DedupSound(results, p, q) ==
    LET kept == (DOMAIN results) \ markDuplicates(results, p, q)
        out == DedupSnippets(results, p, q)
        near(i, j) == Similar(results[i].Content, results[j].Content, p, q)
        closed(C) == \A i \in C, j \in DOMAIN results :
                        i # j /\ near(i, j) /\ results[j].Score >= results[i].Score => j \in C
    IN  /\ \A i, j \in DOMAIN out : i # j => ~Similar(out[i].Content, out[j].Content, p, q)
        /\ \A C \in SUBSET (DOMAIN results) : C # {} /\ closed(C) => C \cap kept # {}
        /\ Subsequence(out, results)
=============================================================================
