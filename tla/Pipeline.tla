------------------------------ MODULE Pipeline ------------------------------
(***************************************************************************)
(* pipeline.Pipeline.Run: fan out to the sources under a per-source        *)
(* timeout and an early return, fetch the unique URLs of what they found   *)
(* (ParallelFetch), summarise with the LLM and build the output.           *)
(*                                                                         *)
(* A source is two goroutines: inner runs src.Search and sends its answer  *)
(* on the buffered channel done; outer selects between done and the end    *)
(* of srcCtx and sends one pipelineSourceResult on ch.  A search result is *)
(* abstracted to its URL ("" when the source gave none); its snippet and   *)
(* the content fetched for it are named by that URL.                       *)
(***************************************************************************)
EXTENDS ParallelFetch, SequencesExt

CONSTANTS
    Configs,        \* the configurations checked, see has
    Sources,        \* the configured sources
    Hung,           \* the sources whose Search never returns and ignores its context
    Answers,        \* Answers[s]: the [res, err] Search of s can return
    EarlyReturnAt,  \* result count that cancels the remaining sources
    RankedWeights,  \* len(rankedWeights): ranks whose fetched content the LLM is shown
    MaxSources      \* OutputOpts.MaxSources of a caller that formats (0 = all)

ASSUME SourcesAssumption ==
    /\ Configs \subseteq [fetch : BOOLEAN, chunker : BOOLEAN, llm : BOOLEAN]
    /\ Hung \subseteq Sources
    /\ \A s \in Sources : \A a \in Answers[s] : a.res \in Seq(URL \cup {""}) /\ a.err \in BOOLEAN
\* The bound of ParallelFetch cuts off nothing that uniqueURLs can pass to it.
ASSUME BoundAssumption == IsFiniteSet(URL) /\ Cardinality(URL) <= MaxURLs
ASSUME EarlyAssumption == EarlyReturnAt \in Nat \ {0} /\ RankedWeights \in Nat /\ MaxSources \in Nat

VARIABLES
    has,        \* which optional parts are configured: fetcher + extractor, chunker, LLM
    phase,      \* where Run is
    callerCtx,  \* whether the caller's context is live
    inner,      \* inner[s]: none, searching, exited
    outer,      \* outer[s]: none, select, sent, exited (after wg.Done)
    srcCtx,     \* srcCtx[s]: live, or the error of the ended context
    done,       \* done[s]: the channel between the two goroutines, capacity 1
    ch,         \* the results channel
    closed,     \* whether ch was closed
    all,        \* the results collected
    counted,    \* history: the outcome source_result_total counted for s
    contents,   \* URLs contents has an entry for
    prompt,     \* what the LLM is shown, one entry per source
    output,     \* what Run returned
    formatted   \* what FormatOutput made of it

searchVars == <<inner, outer, srcCtx, done, ch, closed, all, counted>>
vars == <<has, phase, callerCtx, searchVars, contents, prompt, output, formatted, fetchVars>>

runVars == <<has, contents, prompt, output, formatted, fetchVars>>

-----------------------------------------------------------------------------
NoOutput == [kind |-> "none", Sources |-> <<>>, facts |-> {}]

Init ==
    /\ has \in Configs
    /\ phase = "start"
    /\ callerCtx = "live"
    /\ inner = [s \in Sources |-> "none"]
    /\ outer = [s \in Sources |-> "none"]
    /\ srcCtx = [s \in Sources |-> "live"]
    /\ done = [s \in Sources |-> <<>>]
    /\ ch = <<>>
    /\ closed = FALSE
    /\ all = <<>>
    /\ counted = [s \in Sources |-> "none"]
    /\ contents = {}
    /\ prompt = <<>>
    /\ output = NoOutput
    /\ formatted = NoOutput
    /\ FetchInit

\* Every context derived from a cancelled one ends with its error; one that
\* has ended keeps the error it has.
EndSources(err) ==
    srcCtx' = [s \in Sources |-> IF srcCtx[s] = "live" THEN err ELSE srcCtx[s]]

\* searchSources: one goroutine per source; none configured returns nil.
SearchSources ==
    /\ phase = "start"
    /\ IF Sources = {}
       THEN phase' = "searched" /\ UNCHANGED <<inner, outer>>
       ELSE /\ phase' = "collect"
            /\ inner' = [s \in Sources |-> "searching"]
            /\ outer' = [s \in Sources |-> "select"]
    /\ UNCHANGED <<runVars, callerCtx, srcCtx, done, ch, closed, all, counted>>

\* Mutant: done is unbuffered, so the send needs the outer goroutine in its select.
SearchReturnsUnbuffered(s) ==
    /\ inner[s] = "searching" /\ outer[s] = "select" /\ s \notin Hung
    /\ \E a \in Answers[s] : done' = [done EXCEPT ![s] = Append(@, a)]
    /\ inner' = [inner EXCEPT ![s] = "exited"]
    /\ UNCHANGED <<runVars, phase, callerCtx, outer, srcCtx, ch, closed, all, counted>>

\* src.Search returns, whatever became of its context meanwhile, and the send
\* on the buffered channel never blocks.
SearchReturns(s) ==
    /\ inner[s] = "searching" /\ s \notin Hung
    /\ \E a \in Answers[s] : done' = [done EXCEPT ![s] = Append(@, a)]
    /\ inner' = [inner EXCEPT ![s] = "exited"]
    /\ UNCHANGED <<runVars, phase, callerCtx, outer, srcCtx, ch, closed, all, counted>>

Send(s, a) ==
    /\ ch' = Append(ch, [name |-> s, res |-> a.res, err |-> a.err])
    /\ outer' = [outer EXCEPT ![s] = "sent"]
    /\ UNCHANGED <<runVars, phase, callerCtx, inner, srcCtx, closed, all, counted>>

\* The two ready cases of the select; Go picks either when both are.
SelectDone(s) ==
    /\ outer[s] = "select" /\ done[s] # <<>>
    /\ done' = [done EXCEPT ![s] = Tail(@)]
    /\ Send(s, Head(done[s]))

SelectCtx(s) ==
    /\ outer[s] = "select" /\ srcCtx[s] # "live"
    /\ Send(s, [res |-> <<>>, err |-> TRUE])
    /\ UNCHANGED done

\* The deferred srcCancel and wg.Done.
OuterExits(s) ==
    /\ outer[s] = "sent"
    /\ outer' = [outer EXCEPT ![s] = "exited"]
    /\ srcCtx' = [srcCtx EXCEPT ![s] = IF @ = "live" THEN "Canceled" ELSE @]
    /\ UNCHANGED <<runVars, phase, callerCtx, inner, done, ch, closed, all, counted>>

\* Mutant: the deadline is only noticed once Search has returned.
PerSourceTimeoutLate(s) ==
    /\ outer[s] = "select" /\ srcCtx[s] = "live" /\ inner[s] = "exited"
    /\ srcCtx' = [srcCtx EXCEPT ![s] = "DeadlineExceeded"]
    /\ UNCHANGED <<runVars, phase, callerCtx, inner, outer, done, ch, closed, all, counted>>

\* context.WithTimeout(allDoneCtx, perSrc).
PerSourceTimeout(s) ==
    /\ outer[s] = "select" /\ srcCtx[s] = "live"
    /\ srcCtx' = [srcCtx EXCEPT ![s] = "DeadlineExceeded"]
    /\ UNCHANGED <<runVars, phase, callerCtx, inner, outer, done, ch, closed, all, counted>>

CallerCancels ==
    /\ callerCtx = "live" /\ phase # "returned"
    /\ callerCtx' = "Canceled"
    /\ EndSources("Canceled")
    /\ UNCHANGED <<runVars, phase, inner, outer, done, ch, closed, all, counted>>

\* Mutant: closes once every result has been received, without waiting for
\* the goroutines that still have to send.
CloseEarly ==
    /\ phase = "collect" /\ ~closed
    /\ \E s \in Sources : outer[s] = "exited"
    /\ closed' = TRUE
    /\ UNCHANGED <<runVars, phase, callerCtx, inner, outer, srcCtx, done, ch, all, counted>>

\* The closer goroutine: wg.Wait(); close(ch).
Close ==
    /\ phase = "collect" /\ ~closed
    /\ \A s \in Sources : outer[s] = "exited"
    /\ closed' = TRUE
    /\ UNCHANGED <<runVars, phase, callerCtx, inner, outer, srcCtx, done, ch, all, counted>>

\* Mutant: results that come with an error are kept.
CollectPartial ==
    /\ phase = "collect" /\ ch # <<>>
    /\ ch' = Tail(ch)
    /\ LET r == Head(ch) IN
       /\ counted' = [counted EXCEPT ![r.name] = IF r.err THEN "fail" ELSE "ok"]
       /\ all' = all \o r.res
       /\ IF Len(all') >= EarlyReturnAt THEN EndSources("Canceled") ELSE UNCHANGED srcCtx
    /\ UNCHANGED <<runVars, phase, callerCtx, inner, outer, done, closed>>

\* Mutant: results that come after the early return are dropped.
CollectCut ==
    /\ phase = "collect" /\ ch # <<>>
    /\ ch' = Tail(ch)
    /\ LET r == Head(ch) IN
       /\ counted' = [counted EXCEPT ![r.name] = IF r.err THEN "fail" ELSE "ok"]
       /\ all' = IF r.err \/ Len(all) >= EarlyReturnAt THEN all ELSE all \o r.res
       /\ IF ~r.err /\ Len(all') >= EarlyReturnAt THEN EndSources("Canceled") ELSE UNCHANGED srcCtx
    /\ UNCHANGED <<runVars, phase, callerCtx, inner, outer, done, closed>>

\* Mutant: the early return is forgotten.
CollectAll ==
    /\ phase = "collect" /\ ch # <<>>
    /\ ch' = Tail(ch)
    /\ LET r == Head(ch) IN
       /\ counted' = [counted EXCEPT ![r.name] = IF r.err THEN "fail" ELSE "ok"]
       /\ all' = IF r.err THEN all ELSE all \o r.res
    /\ UNCHANGED <<runVars, phase, callerCtx, inner, outer, srcCtx, done, closed>>

\* collectPipelineResults, one message: a failed source is counted and
\* skipped; once enough results are there allDoneCtx is cancelled (the code's
\* cancelled flag only saves cancelling twice).
Collect ==
    /\ phase = "collect" /\ ch # <<>>
    /\ ch' = Tail(ch)
    /\ LET r == Head(ch) IN
       /\ counted' = [counted EXCEPT ![r.name] = IF r.err THEN "fail" ELSE "ok"]
       /\ all' = IF r.err THEN all ELSE all \o r.res
       /\ IF ~r.err /\ Len(all') >= EarlyReturnAt THEN EndSources("Canceled") ELSE UNCHANGED srcCtx
    /\ UNCHANGED <<runVars, phase, callerCtx, inner, outer, done, closed>>

CollectEnd ==
    /\ phase = "collect" /\ ch = <<>> /\ closed
    /\ phase' = "searched"
    /\ UNCHANGED <<runVars, callerCtx, searchVars>>

-----------------------------------------------------------------------------
\* Mutant: the seen map is never written.
firstSeenAgain(res) == {i \in DOMAIN res : res[i] # ""}

\* The entries uniqueURLs keeps: not blank, and not seen before.
firstSeen(res) == {i \in DOMAIN res : res[i] # "" /\ \A j \in 1..(i - 1) : res[j] # res[i]}

\* The number of the kept entry i.
rank(res, i) == Cardinality({j \in firstSeen(res) : j <= i})

\* uniqueURLs: first occurrences, in order, without blanks.
uniqueURLs(res) ==
    [k \in 1..Cardinality(firstSeen(res)) |-> res[CHOOSE i \in firstSeen(res) : rank(res, i) = k]]

\* buildFetchFn: fetch, extract, and, when a chunker is configured, chunk,
\* filter and join.  stage names how far each got; text that survives is the URL's.
buildFetchFn(u, stage) ==
    IF stage.fetch = "err" \/ stage.extract = "err" THEN [Content |-> "", Err |-> "err"]
    ELSE IF stage.extract = "empty" \/ (has.chunker /\ ~stage.chunks) THEN [Content |-> "", Err |-> "nil"]
    ELSE [Content |-> u, Err |-> "nil"]

Stages == [fetch : {"ok", "err"}, extract : {"ok", "empty", "err"}, chunks : BOOLEAN]

Rest == <<has, callerCtx, searchVars, prompt, output, formatted>>

\* Run between the search and the fetch: nothing found returns at once.
RunEmpty ==
    /\ phase = "searched" /\ all = <<>>
    /\ phase' = "returned"
    /\ output' = [NoOutput EXCEPT !.kind = "ok"]
    /\ UNCHANGED <<has, callerCtx, searchVars, prompt, formatted, contents, fetchVars>>

RunFetch ==
    /\ phase = "searched" /\ all # <<>>
    /\ IF has.fetch /\ uniqueURLs(all) # <<>>
       THEN phase' = "fetching" /\ ParallelFetch(uniqueURLs(all))
       ELSE phase' = "summarize" /\ UNCHANGED fetchVars
    /\ UNCHANGED <<Rest, contents>>

\* The goroutines of ParallelFetch, with the pipeline's fetch function.
RunFetchStep(i) ==
    /\ phase = "fetching"
    /\ \/ Acquire(i)
       \/ \E stage \in Stages : LET r == buildFetchFn(urls[i], stage) IN Fetched(i, r.Content, r.Err)
       \/ Panics(i)
       \/ Release(i)
       \/ WgDone(i)
    /\ UNCHANGED <<Rest, phase, contents>>

RunFetchReturn ==
    /\ phase = "fetching" /\ returned = "no"
    /\ FetchReturn
    /\ UNCHANGED <<Rest, phase, contents>>

\* Mutant: the error of a result is not looked at.
GatherAny ==
    /\ phase = "fetching" /\ returned = "yes"
    /\ contents' = {results[i].URL : i \in DOMAIN results}
    /\ phase' = "summarize"
    /\ UNCHANGED <<Rest, fetchVars>>

\* contents: only what was fetched without error and is not empty.
Gather ==
    /\ phase = "fetching" /\ returned = "yes"
    /\ contents' = {results[i].URL : i \in {k \in DOMAIN results :
                        results[k].Err = "nil" /\ results[k].Content # ""}}
    /\ phase' = "summarize"
    /\ UNCHANGED <<Rest, fetchVars>>

-----------------------------------------------------------------------------
\* BuildSourcesText: entry i is numbered i; fetched content is shown for the
\* first RankedWeights entries only, the snippet otherwise.
BuildSourcesText(res, fetched) ==
    [i \in DOMAIN res |->
        [of |-> res[i], kind |-> IF res[i] \in fetched /\ i <= RankedWeights THEN "content" ELSE "snippet"]]

\* verifyFacts: haystacks are numbered the same way, but content comes first at every rank.
haystack(res, fetched, i) ==
    [of |-> res[i], kind |-> IF res[i] \in fetched THEN "content" ELSE "snippet"]

\* Mutant: sources are numbered from 0.
verifyFactFromZero(res, fetched, cited, quote) ==
    IF \E k \in cited : k + 1 \in DOMAIN res /\ haystack(res, fetched, k + 1) = quote
    THEN "verified" ELSE "held"

\* verifyFact of a fact that cites the numbers cited and quotes a text, long enough
\* and with every number of its point (FactNumbers): one listed source that has the
\* quote is enough, whatever else is cited.
verifyFact(res, fetched, cited, quote) ==
    IF \E k \in cited \cap DOMAIN res : haystack(res, fetched, k) = quote THEN "verified" ELSE "held"

\* Mutant: sources without a URL of their own are left out of the output.
BuildSearchOutputUnique(res, facts) ==
    LET us == uniqueURLs(res)
    IN  [kind |-> "ok", facts |-> facts,
         Sources |-> [i \in DOMAIN us |-> [Index |-> i, URL |-> us[i], Snippet |-> TRUE]]]

\* BuildSearchOutput: one SourceItem per result, numbered from 1.
BuildSearchOutput(res, facts) ==
    [kind |-> "ok", facts |-> facts,
     Sources |-> [i \in DOMAIN res |-> [Index |-> i, URL |-> res[i], Snippet |-> TRUE]]]

\* Summarize and buildOutput.  The LLM proposes a fact that cites any numbers,
\* listed or not, and quotes any text it was shown, or fails, which fails Run.
Summarize ==
    /\ phase = "summarize" /\ has.llm
    /\ prompt' = BuildSourcesText(all, contents)
    /\ \/ output' = [NoOutput EXCEPT !.kind = "err"]
       \/ \E cited \in SUBSET (0..(Len(all) + 1)), j \in DOMAIN all :
            LET fact == [Sources |-> cited, quote |-> prompt'[j],
                         status |-> verifyFact(all, contents, cited, prompt'[j])]
            IN  output' = BuildSearchOutput(all, {fact})
    /\ phase' = "returned"
    /\ UNCHANGED <<has, callerCtx, searchVars, contents, formatted, fetchVars>>

\* No LLM: the sources without an answer.
NoLLM ==
    /\ phase = "summarize" /\ ~has.llm
    /\ output' = BuildSearchOutput(all, {})
    /\ phase' = "returned"
    /\ UNCHANGED <<has, callerCtx, searchVars, contents, prompt, formatted, fetchVars>>

\* FormatOutput takes the output by value, but the Sources slice shares its
\* array with the caller's: stripping the snippets strips them from both.
FormatOutput(includeSnippets) ==
    /\ phase = "returned" /\ output.kind = "ok"
    /\ LET strip(item) == IF includeSnippets THEN item ELSE [item EXCEPT !.Snippet = FALSE]
           shown == [i \in DOMAIN output.Sources |-> strip(output.Sources[i])]
           cut == IF MaxSources > 0 /\ Len(shown) > MaxSources THEN SubSeq(shown, 1, MaxSources) ELSE shown
       IN  /\ output' = [output EXCEPT !.Sources = shown]
           /\ formatted' = [output EXCEPT !.Sources = cut]
    /\ UNCHANGED <<has, phase, callerCtx, searchVars, contents, prompt, fetchVars>>

-----------------------------------------------------------------------------
SourceStep(s) ==
    SearchReturns(s) \/ SelectDone(s) \/ SelectCtx(s) \/ OuterExits(s) \/ PerSourceTimeout(s)

RunStep ==
    \/ SearchSources \/ Close \/ Collect \/ CollectEnd
    \/ RunEmpty \/ RunFetch \/ RunFetchReturn \/ Gather \/ Summarize \/ NoLLM

Next ==
    \/ RunStep
    \/ \E s \in Sources : SourceStep(s)
    \/ \E i \in DOMAIN worker : RunFetchStep(i)
    \/ CallerCancels
    \/ \E b \in BOOLEAN : FormatOutput(b)

\* The runtime schedules every goroutine, timers fire, Search of a source that
\* is not hung and the fetch function return.  Neither a hung source nor the
\* caller's context is relied upon.
Fairness ==
    /\ WF_vars(RunStep)
    /\ \A s \in Sources : WF_vars(SourceStep(s))
    /\ \A i \in 1..MaxURLs : WF_vars(i \in DOMAIN worker /\ RunFetchStep(i))

Spec == Init /\ [][Next]_vars /\ Fairness

-----------------------------------------------------------------------------
TypeOK ==
    /\ has \in Configs
    /\ phase \in {"start", "collect", "searched", "fetching", "summarize", "returned"}
    /\ callerCtx \in {"live", "Canceled"}
    /\ inner \in [Sources -> {"none", "searching", "exited"}]
    /\ outer \in [Sources -> {"none", "select", "sent", "exited"}]
    /\ srcCtx \in [Sources -> {"live", "DeadlineExceeded", "Canceled"}]
    /\ \A s \in Sources : Len(done[s]) <= 1
    /\ Len(ch) <= Cardinality(Sources)
    /\ all \in Seq(URL \cup {""})
    /\ counted \in [Sources -> {"none", "ok", "fail"}]
    /\ contents \subseteq URL
    /\ output.kind \in {"none", "ok", "err"}
    /\ FetchTypeOK

\* Closing ch never races a send (runPipelineSourceWithTimeout sends on ch
\* whatever happened, and a send on a closed channel panics): once closed,
\* every source has sent.
NoSendAfterClose == closed => \A s \in Sources : outer[s] = "exited"

\* Every source is answered for exactly once before the search ends, and what a
\* failed source returned beside its error is in no later stage: every URL
\* collected comes from a source counted ok (collectPipelineResults).
OnlyCountedResults ==
    /\ phase \notin {"start", "collect"} => \A s \in Sources : counted[s] # "none"
    /\ \A i \in DOMAIN all : \E s \in Sources :
        counted[s] = "ok" /\ \E a \in Answers[s] : ~a.err /\ all[i] \in Range(a.res)

\* Once enough results are collected no source's context is live: the early
\* return reaches sources that have not answered yet (allDoneCancel).
EarlyReturnReachesAll ==
    Len(all) >= EarlyReturnAt => \A s \in Sources : srcCtx[s] # "live"

\* Where the results all[i + 1], all[i + 2], ... begin with res.
Holds(i, res) == \A k \in DOMAIN res : i + k \in DOMAIN all /\ all[i + k] = res[k]

\* What a source delivered is kept whole, also by the early return it triggers and
\* when it comes after it: the answer of every source counted ok is there, in order.
DeliveredKept ==
    \A s \in Sources : counted[s] = "ok" =>
        \E a \in Answers[s], i \in 0..Len(all) : ~a.err /\ Holds(i, a.res)

\* The source fan-out of searchSources, hung sources included.
SourcesSound == NoSendAfterClose /\ OnlyCountedResults /\ DeliveredKept /\ EarlyReturnReachesAll

\* What the LLM is shown as the content of source i was fetched for that very
\* URL, without error or panic (Run's loop over fetchResults).
ShownContentWasFetched ==
    \A i \in DOMAIN prompt : prompt[i].kind = "content" =>
        [URL |-> prompt[i].of, Content |-> prompt[i].of, Err |-> "nil"] \in Range(results)

\* Among the numbers a verified fact cites, which may include unlisted ones, one is
\* a source of the output under that number, with the URL the quoted text belongs
\* to: the prompt, the haystacks of verifyFacts and the output number the results
\* alike, blank and repeated URLs included; formatting renumbers nothing.
VerifiedFactIsListed ==
    /\ \A f \in output.facts : f.status = "verified" =>
        \E k \in f.Sources \cap DOMAIN output.Sources :
            output.Sources[k].Index = k /\ output.Sources[k].URL = f.quote.of
    /\ \A i \in DOMAIN formatted.Sources : formatted.Sources[i].Index = i /\ formatted.Sources[i].URL = all[i]

\* Every URL found is fetched, and fetched once, whatever sources repeat it
\* (uniqueURLs).
EachPageOnce ==
    urls # <<>> =>
        /\ \A i, j \in DOMAIN urls : urls[i] = urls[j] => i = j
        /\ Range(urls) = Range(all) \ {""}

\* From the URL found over the fetched page to the citation: no stage of Run
\* mixes up the results.
CitationsSound == EachPageOnce /\ ShownContentWasFetched /\ VerifiedFactIsListed

\* Run returns although a source hangs for ever and ignores its context, and
\* although fetches panic (the per-source timeout, the deferred release).
RunReturns == <>(phase = "returned")

\* The goroutine of a source that does return ends, also when its leg timed
\* out or was cancelled before it answered: done is buffered.
InnerExits == <>[](\A s \in Sources \ Hung : inner[s] = "exited")

\* Run returns and its goroutines end: see the two parts.
GoroutinesEnd == RunReturns /\ InnerExits
=============================================================================
