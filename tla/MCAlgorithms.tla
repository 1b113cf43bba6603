---------------------------- MODULE MCAlgorithms ----------------------------
(***************************************************************************)
(* An instance of WebDirect, and the pure operators of Ranking,            *)
(* FactNumbers and Text over bounded inputs: input is one call of one of   *)
(* them, in a state in which no engine is searching.                       *)
(***************************************************************************)
EXTENDS WebDirect, Ranking, FactNumbers, Text

VARIABLE input

Conf(b, d, es, ls) == [Browser |-> b, dual |-> d, engines |-> es, limited |-> ls]

\* No browser, no engine, each pair of scrapers that differ, the APIs beside a
\* scraper; with and without the dualBrowser and a limiter.
MCConfigs ==
    {Conf(FALSE, FALSE, {"ddg"}, {}), Conf(TRUE, FALSE, {}, {}),
     Conf(TRUE, TRUE, {"ddg", "brave"}, {}), Conf(TRUE, FALSE, {"ddg", "bing"}, {"bing"}),
     Conf(TRUE, TRUE, {"startpage", "yep"}, {"startpage"}), Conf(TRUE, TRUE, {"bing", "reddit", "yandex"}, {})}

Link(t, h, a, l, c, ad) == [title |-> t, href |-> h, alt |-> a, label |-> l, cite |-> c, ad |-> ad]

MCItems ==
    {NoItem, Link(TRUE, "direct", "none", FALSE, FALSE, FALSE), Link(TRUE, "wrapped", "none", FALSE, FALSE, FALSE),
     Link(TRUE, "own", "none", FALSE, FALSE, FALSE), Link(TRUE, "relative", "direct", FALSE, FALSE, FALSE),
     Link(TRUE, "", "direct", FALSE, FALSE, FALSE), Link(FALSE, "none", "wrapped", TRUE, FALSE, FALSE),
     Link(FALSE, "direct", "none", FALSE, TRUE, TRUE), Link(TRUE, "direct", "none", FALSE, FALSE, TRUE)}

\* Two or three result sets of at most three entries, equal and unequal weights.
Lists == UNION {[1 .. n -> {"none", "a", "b", "c"}] : n \in 0 .. 2}
FuseInputs ==
    [op : {"fuse"}, sets : [1 .. 2 -> Lists], weights : {<<>>, <<2>>}]
      \cup [op : {"fuse"}, sets : [1 .. 3 -> {<<"a">>, <<"b", "a">>, <<"c", "none", "b">>, <<"a", "c">>, <<>>}], weights : {<<1, 3>>}]

Answered == {[err |-> TRUE, res |-> <<>>], [err |-> FALSE, res |-> <<>>], [err |-> FALSE, res |-> <<"a", "b">>],
             [err |-> FALSE, res |-> <<"c">>]}
Steady == {<<a, a, a>> : a \in Answered}
OneScripted == [1 .. 3 -> Answered] \X Steady
ImageInputs ==
    [op : {"images"}, scripts : OneScripted, fallback : {TRUE}, max : {2}]
      \cup [op : {"images"}, scripts : [1 .. 2 -> Steady], fallback : {FALSE}, max : {1, 3}]

Scored == [Score : {1, 2}, domain : {"none", "d", "e"}]
FilterInputs == [op : {"filter"}, results : UNION {[1 .. n -> Scored] : n \in 0 .. 3}, level : {0, 2}, keep : {1, 2}]

Snippet == [Score : {1, 2}, Content : UNION {[W -> {1}] : W \in SUBSET {"x", "y"}}]
DedupInputs == [op : {"dedup"}, results : UNION {[1 .. n -> Snippet] : n \in 0 .. 3}, p : {2}, q : {3}]

\* One, two and three groups; the sums stay below 2^31.
OneGroup ==
    [dash : BOOLEAN, digitBefore : BOOLEAN, seps : {<<>>},
     groups : [1 .. 1 -> {<<0>>, <<1>>, <<1, 0>>, <<0, 1, 0>>, <<1, 0, 0>>}]]
TwoGroups ==
    [dash : BOOLEAN, digitBefore : {FALSE}, seps : [1 .. 1 -> {"dot", "comma", "space"}],
     groups : {<<0>>, <<1>>, <<1, 0>>} \X {<<0>>, <<1>>, <<0, 0, 0>>, <<1, 0, 0>>}]
ThreeGroups ==
    [dash : {FALSE}, digitBefore : {FALSE}, seps : [1 .. 2 -> {"dot", "space"}],
     groups : {<<1>>} \X {<<1>>, <<0, 1>>, <<1, 0>>, <<1, 0, 0>>} \X {<<1>>, <<0, 1>>, <<1, 0>>, <<1, 0, 0>>}]
Matches == {m \in OneGroup \cup TwoGroups \cup ThreeGroups : factNumberRe(m)}
NumberInputs == [op : {"number"}, match : Matches]

\* Trimmed texts of up to seven runes.
ChunkInputs ==
    [op : {"chunk"}, size : {1, 3, 4}, overlap : {0, 1, 2, 3},
     text : {t \in UNION {[1 .. n -> {"word", "space", "white"}] : n \in 0 .. 7} :
               t # <<>> => t[1] = "word" /\ t[Len(t)] = "word"}]

TruncateInputs ==
    [op : {"truncate"}, text : UNION {[1 .. n -> {1, 2, 4}] : n \in 0 .. 4}, budget : {0, 1, 3, 10}, cpt : {5, 7}]

Inputs == FuseInputs \cup ImageInputs \cup FilterInputs \cup DedupInputs
            \cup NumberInputs \cup ChunkInputs \cup TruncateInputs

\* A call of SearchDirect without a browser that has returned.
Idle ==
    /\ cfg = Conf(FALSE, FALSE, {"ddg"}, {})
    /\ ctx = "live"
    /\ at = [e \in Engines |-> "off"]
    /\ flight = [e \in Engines |-> "none"]
    /\ out = [e \in Engines |-> Nothing]
    /\ all = <<>>
    /\ returned = TRUE
    /\ refused = [e \in Engines |-> FALSE]
    /\ late = [e \in Engines |-> 0]
    /\ polls = 0

MCInit == (Init /\ input = [op |-> "none"]) \/ (Idle /\ input \in Inputs)

MCSpec == MCInit /\ [][Next /\ UNCHANGED input]_<<vars, input>> /\ Fairness

-----------------------------------------------------------------------------
\* Fusion does not depend on the order in which the engines' goroutines finish:
\* see FusionIgnoresArrival.
Fusion == input.op = "fuse" => FusionIgnoresArrival(input.sets, input.weights)

\* imagesearch.MultiSearch hears every engine that found something, in any
\* order of completion: see ImagesHeard.
Images == input.op = "images" => ImagesHeard(input.scripts, input.fallback, input.max)

\* The score filter keeps enough and drops nothing good from a sorted list: see
\* FilterKeepsEnough.
ScoreFilter == input.op = "filter" => FilterKeepsEnough(input.results, input.level, input.keep)

\* The domain filter: see DomainsLimited.
DomainFilter == input.op = "filter" => DomainsLimited(input.results, input.keep, input.level)

\* The removal of near-duplicate snippets: see DedupSound.
Dedup == input.op = "dedup" => DedupSound(input.results, input.p, input.q)

\* From the engines' lists to the one a caller sees: see the parts.
Ranked == Fusion /\ Images /\ ScoreFilter /\ DomainFilter /\ Dedup

\* The number rule of fact verification, against every other number, alone and
\* beside a number the quote has: see NumbersDecide.
Numbers ==
    input.op = "number" =>
        \A m \in Matches : NumbersDecide({input.match}, {m}, 3) /\ NumbersDecide({input.match, m}, {m}, 3)

\* The chunker ends and loses no text: see ChunksCoverText.
Chunks == input.op = "chunk" => ChunksCoverText(input.text, input.size, input.overlap)

\* The token budgets of fetched contents: see BudgetKept.
Budgets == input.op = "truncate" => BudgetKept(input.text, input.budget, input.cpt)

\* What the text helpers hand on is all of the text, or what the budget allows.
TextKept == Chunks /\ Budgets
=============================================================================
