----------------------------- MODULE WebDirect ------------------------------
(***************************************************************************)
(* websearch.SearchDirect: one goroutine per enabled engine, each waiting  *)
(* on its optional rate limiter, querying its engine through a BrowserDoer *)
(* and appending what it found to a shared slice.  The scrapers of the     *)
(* package (DDG, Startpage, Brave, Bing, Yep) and the asynchronous Yandex  *)
(* API are modelled request by request; Reddit, which has a module of its  *)
(* own, is one step here.  The BrowserDoer may be the dualBrowser of       *)
(* package search, which repeats a request without the proxy.              *)
(*                                                                         *)
(* A page is abstracted to what the engines look at: its status, the       *)
(* challenge words in it, whether it is well formed (the token of the DDG  *)
(* homepage, the JSON of d.js and Yep) and at most one result entry.       *)
(***************************************************************************)
EXTENDS Naturals, Sequences

CONSTANTS
    Configs,   \* the configurations checked, see cfg
    Items,     \* the result entries a page can hold, see Item
    MaxPolls   \* ticks of yandexPollInterval within yandexMaxPollWait

Scrapers == {"ddg", "startpage", "brave", "bing", "yep"}
APIs == {"reddit", "yandex"}
Engines == Scrapers \cup APIs

\* A link: no attribute, empty, a plain http URL, the engine's redirect with a
\* readable target, the engine's own page, not starting with http.
Href == {"none", "", "direct", "wrapped", "own", "relative"}
Http == {"direct", "wrapped", "own"}

\* link and title of the entry, its second link (Bing's a.tilk, the c field of
\* d.js), the aria-label of that link, the cite text, Yep's type # "Organic".
Item == [title : BOOLEAN, href : Href, alt : Href, label : BOOLEAN, cite : BOOLEAN, ad : BOOLEAN]
NoItem == [title |-> FALSE, href |-> "none", alt |-> "none", label |-> FALSE, cite |-> FALSE, ad |-> FALSE]

\* "i18n": the word captcha, in translation strings only.
Marks == {"none", "captcha", "i18n", "traffic", "robot"}

Page(status, mark, ok, item) == [status |-> status, mark |-> mark, ok |-> ok, item |-> item]

\* The engines whose links go through a redirect of their own.
Redirecting == {"ddg", "startpage", "bing"}

\* What browser.Do can return; "err" is a transport error.
Pages ==
    {Page(s, "none", TRUE, NoItem) : s \in {"err", "402", "403", "404", "429", "503"}}
      \cup {Page(s, "none", ok, i) : s \in {"200", "202"}, ok \in BOOLEAN, i \in Items}
      \cup {Page("200", m, TRUE, i) : m \in Marks, i \in Items}

PagesOf(e) == {p \in Pages : e \in Redirecting \/ {p.item.href, p.item.alt} \cap {"wrapped", "own"} = {}}

ASSUME ConfigsAssumption ==
    Configs \subseteq [Browser : BOOLEAN, dual : BOOLEAN, engines : SUBSET Engines, limited : SUBSET (Engines \ {"yep", "yandex"})]
ASSUME PollsAssumption == MaxPolls \in Nat
ASSUME ItemsAssumption == Items \subseteq Item /\ NoItem \in Items

VARIABLES
    cfg,      \* DirectConfig: Browser set, dualBrowser, enabled and rate-limited engines
    ctx,      \* the caller's context: live or done
    at,       \* at[e]: what the goroutine of e does next
    flight,   \* flight[e]: the doer that holds its request, or "none"
    out,      \* out[e]: the error and the URLs its Search returned
    all,      \* the merged results
    returned, \* whether SearchDirect has returned
    refused,  \* history: the engine refused e (status or challenge page)
    late,     \* history: requests e began after ctx was done
    polls     \* the Yandex operation: how often it was asked for

vars == <<cfg, ctx, at, flight, out, all, returned, refused, late, polls>>

Nothing == [err |-> "nil", urls |-> <<>>]

Init ==
    /\ cfg \in Configs
    /\ ctx = "live"
    /\ at = [e \in Engines |-> "off"]
    /\ flight = [e \in Engines |-> "none"]
    /\ out = [e \in Engines |-> Nothing]
    /\ all = <<>>
    /\ returned = FALSE
    /\ refused = [e \in Engines |-> FALSE]
    /\ late = [e \in Engines |-> 0]
    /\ polls = 0

-----------------------------------------------------------------------------
\* The parsers: the URL an entry yields, "" when it is dropped.

DDGUnwrapURL(href) ==
    CASE href = "wrapped"            -> "direct"
      [] href \in {"direct", "own"}  -> href
      [] OTHER                       -> ""

ParseDDGHTML(i) == IF i.title /\ i.href # "none" THEN DDGUnwrapURL(i.href) ELSE ""

\* d.js: u, else c; links to duckduckgo.com itself are dropped.
ParseDDGResponse(i) ==
    LET given(h) == IF h = "none" THEN "" ELSE h
        url == IF given(i.href) # "" THEN i.href ELSE given(i.alt)
    IN  IF i.title /\ url \notin {"wrapped", "own"} THEN url ELSE ""

ParseStartpageHTML(i) ==
    IF i.title /\ i.href \in {"direct", "relative"} THEN i.href ELSE ""

\* a[href^='http']: the first link of the entry that starts with http.
ParseBraveHTML(i) ==
    IF ~i.title \/ {i.href, i.alt} \cap Http = {} THEN "" ELSE IF i.href \in Http THEN i.href ELSE i.alt

\* Mutant: a redirect is returned as it stands.
bingUnwrapURLAsIs(href) == href

bingUnwrapURL(href) == IF href = "wrapped" THEN "direct" ELSE href

\* a.tilk, else the cite text as a URL; the title from either when h2 had none.
parseBingTilkFallback(i) ==
    LET tilk == i.alt \notin {"none", ""}
    IN  IF (tilk \/ i.cite) /\ (i.title \/ (i.alt # "none" /\ i.label) \/ i.cite)
        THEN IF tilk THEN i.alt ELSE "direct"
        ELSE ""

parseBingResult(i) ==
    bingUnwrapURL(IF i.title /\ i.href \notin {"none", ""} THEN i.href ELSE parseBingTilkFallback(i))

ParseYepJSON(i) == IF i.title /\ ~i.ad /\ i.href # "none" THEN i.href ELSE ""

\* The challenge words each engine looks for in a 200 page.
IsDDGRateLimited(mark) == mark \in {"traffic", "robot"}
isStartpageRateLimited(mark) == mark \in {"captcha", "i18n"}

\* A captcha in translation strings only is no challenge.
IsBraveRateLimited(mark) == mark \in {"traffic", "robot", "captcha"}
IsBingRateLimited(mark) == mark \in {"captcha", "i18n", "traffic"}

RateLimited(e, mark) ==
    CASE e = "ddg"       -> IsDDGRateLimited(mark)
      [] e = "startpage" -> isStartpageRateLimited(mark)
      [] e = "brave"     -> IsBraveRateLimited(mark)
      [] e = "bing"      -> IsBingRateLimited(mark)
      [] OTHER           -> FALSE

isRateLimitStatus(status) == status \in {"403", "429"}

\* The error class of err and status.
StatusError(page) ==
    CASE isRateLimitStatus(page.status) -> "rateLimited"
      [] page.status = "200"            -> "nil"
      [] OTHER                          -> "plain"

\* A page that passed err and status may still be a challenge.
Challenge(page, limited) ==
    IF StatusError(page) = "nil" /\ limited THEN "rateLimited" ELSE StatusError(page)

Result(err, url) == [err |-> err, urls |-> IF err = "nil" /\ url # "" THEN <<url>> ELSE <<>>]

\* What each request makes of its page.
searchHTML(page) == Result(Challenge(page, IsDDGRateLimited(page.mark)), ParseDDGHTML(page.item))

\* The token only; 403 and 429 are plain errors here.
getVQD(page) == Result(IF page.status = "200" /\ page.ok THEN "nil" ELSE "plain", "")

searchDJS(page) ==
    Result(IF page.status \notin {"200", "202"} THEN StatusError(page) ELSE IF page.ok THEN "nil" ELSE "plain",
           ParseDDGResponse(page.item))

StartpageSearch(page) ==
    Result(Challenge(page, isStartpageRateLimited(page.mark)), ParseStartpageHTML(page.item))

BraveSearch(page) == Result(Challenge(page, IsBraveRateLimited(page.mark)), ParseBraveHTML(page.item))

BingSearch(page) == Result(Challenge(page, IsBingRateLimited(page.mark)), parseBingResult(page.item))

\* Yep has no rate-limit class.
YepSearch(page) == Result(IF page.status = "200" /\ page.ok THEN "nil" ELSE "plain", ParseYepJSON(page.item))

Response(e, page) ==
    CASE at[e] = "html"     -> searchHTML(page)
      [] at[e] = "vqd"      -> getVQD(page)
      [] at[e] = "djs"      -> searchDJS(page)
      [] e = "startpage"    -> StartpageSearch(page)
      [] e = "brave"        -> BraveSearch(page)
      [] e = "bing"         -> BingSearch(page)
      [] e = "yep"          -> YepSearch(page)

-----------------------------------------------------------------------------
\* SearchDirect up to wg.Wait; without a browser it returns nil.
Start ==
    /\ ~returned /\ \A e \in Engines : at[e] = "off"
    /\ IF cfg.Browser /\ cfg.engines # {}
       THEN at' = [e \in Engines |-> IF e \in cfg.engines THEN "wait" ELSE "off"] /\ UNCHANGED returned
       ELSE returned' = TRUE /\ UNCHANGED at
    /\ UNCHANGED <<cfg, ctx, flight, out, all, refused, late, polls>>

\* The first request of an engine's Search.
Entry(e) == CASE e = "ddg" -> "html" [] e = "reddit" -> "api" [] e = "yandex" -> "limit" [] OTHER -> "serp"

Finish(e, err, urls) ==
    /\ at' = [at EXCEPT ![e] = "collect"]
    /\ out' = [out EXCEPT ![e] = [err |-> err, urls |-> urls]]

\* run*Direct: past the limiter, if there is one.
Admitted(e) ==
    /\ at[e] = "wait" /\ (e \in cfg.limited => ctx = "live")
    /\ at' = [at EXCEPT ![e] = Entry(e)]
    /\ UNCHANGED <<cfg, ctx, flight, out, all, returned, refused, late, polls>>

\* Wait fails when ctx ends or its deadline is too near: the engine is
\* skipped with (nil, nil).
LimiterFails(e) ==
    /\ at[e] = "wait" /\ e \in cfg.limited
    /\ Finish(e, "nil", <<>>)
    /\ UNCHANGED <<cfg, ctx, flight, all, returned, refused, late, polls>>

Ready(e) == at[e] \in {"html", "vqd", "djs", "serp"} /\ flight[e] = "none"

\* A request enters browser.Do.
Request(e, doer) ==
    /\ flight' = [flight EXCEPT ![e] = doer]
    /\ late' = [late EXCEPT ![e] = @ + (IF ctx = "done" THEN 1 ELSE 0)]

\* Mutant: getVQD and searchDJS without their look at the context.
SendUnchecked(e) ==
    /\ Ready(e) /\ (at[e] \in {"html", "serp"} => ctx = "live")
    /\ Request(e, "primary")
    /\ UNCHANGED <<cfg, ctx, at, out, all, returned, refused, polls>>

\* Each request is preceded by a look at the context.
Send(e) ==
    /\ Ready(e) /\ ctx = "live"
    /\ Request(e, "primary")
    /\ UNCHANGED <<cfg, ctx, at, out, all, returned, refused, polls>>

\* The context is done: searchHTML fails, and getVQD after it.
Abort(e) ==
    /\ Ready(e) /\ ctx = "done"
    /\ Finish(e, "ctx", <<>>)
    /\ UNCHANGED <<cfg, ctx, flight, all, returned, refused, late, polls>>

\* Mutant: the fallback is tried on a refusal too.
shouldFallbackOnRefusal(page) == page.status \in {"err", "402", "403", "429", "503"}

\* dualBrowser: a transport error, a quota or a gateway status.
shouldFallback(page) == page.status \in {"err", "402", "503"}

\* dualBrowser.Do: the request is repeated through the fallback doer; Do
\* takes no context.
FallBack(e, page) ==
    /\ flight[e] = "primary" /\ cfg.dual /\ shouldFallback(page)
    /\ Request(e, "fallback")
    /\ refused' = [refused EXCEPT ![e] = @ \/ isRateLimitStatus(page.status)]
    /\ UNCHANGED <<cfg, ctx, at, out, all, returned, polls>>

\* DDG.Search after searchHTML: results are final, an error or an empty page
\* goes on to the token of the d.js API.
AfterHTML(e, r) ==
    IF r.err = "nil" /\ r.urls # <<>>
    THEN Finish(e, "nil", r.urls)
    ELSE at' = [at EXCEPT ![e] = "vqd"] /\ UNCHANGED out

\* The engine handles what Do returned.
Answer(e, page) ==
    /\ ~(flight[e] = "primary" /\ cfg.dual /\ shouldFallback(page))
    /\ flight' = [flight EXCEPT ![e] = "none"]
    /\ refused' = [refused EXCEPT ![e] =
                     @ \/ isRateLimitStatus(page.status)
                       \/ (page.status = "200" /\ at[e] \in {"html", "serp"} /\ RateLimited(e, page.mark))]
    /\ LET r == Response(e, page)
       IN  CASE at[e] = "html"                  -> AfterHTML(e, r)
             [] at[e] = "vqd" /\ r.err = "nil"  -> at' = [at EXCEPT ![e] = "djs"] /\ UNCHANGED out
             [] OTHER                           -> Finish(e, r.err, r.urls)
    /\ UNCHANGED <<cfg, ctx, all, returned, late, polls>>

\* Reddit.Search, modelled in Reddit.
APIReturns(e) ==
    /\ at[e] = "api"
    /\ \E o \in {Nothing, [err |-> "nil", urls |-> <<"direct">>], [err |-> "plain", urls |-> <<>>]} :
         Finish(e, o.err, o.urls)
    /\ UNCHANGED <<cfg, ctx, flight, all, returned, refused, late, polls>>

-----------------------------------------------------------------------------
\* SearchYandexAPI up to its first request: no folder id, over the monthly
\* limit (YandexLimit), or on.
YandexStart(e) ==
    /\ at[e] = "limit"
    /\ \/ Finish(e, "plain", <<>>)
       \/ Finish(e, "nil", <<>>)
       \/ at' = [at EXCEPT ![e] = "post"] /\ UNCHANGED out
    /\ UNCHANGED <<cfg, ctx, flight, all, returned, refused, late, polls>>

\* yandexStartSearch.  The request goes through http.DefaultClient, which has
\* no timeout, and looks at ctx before it is sent.
YandexPost(e) ==
    /\ at[e] = "post" /\ flight[e] = "none" /\ ctx = "live"
    /\ Request(e, "client")
    /\ UNCHANGED <<cfg, ctx, at, out, all, returned, refused, polls>>

\* The ticker fires before the deadline: yandexFetchOperation.
YandexPoll(e) ==
    /\ at[e] = "poll" /\ flight[e] = "none" /\ ctx = "live"
    /\ polls < MaxPolls
    /\ polls' = polls + 1
    /\ Request(e, "client")
    /\ UNCHANGED <<cfg, ctx, at, out, all, returned, refused>>

\* It fires after the deadline, which slow answers bring nearer.
YandexTimeout(e) ==
    /\ at[e] = "poll" /\ flight[e] = "none"
    /\ Finish(e, "plain", <<>>)
    /\ UNCHANGED <<cfg, ctx, flight, all, returned, refused, late, polls>>

\* Mutant: the requests do not carry the context.
YandexCtxEndsBetween(e) ==
    /\ at[e] \in {"post", "poll"} /\ ctx = "done" /\ flight[e] = "none"
    /\ Finish(e, "ctx", <<>>)
    /\ UNCHANGED <<cfg, ctx, flight, all, returned, refused, late, polls>>

\* ctx is done: before a request, in the poll loop or during a request.
YandexCtxEnds(e) ==
    /\ at[e] \in {"post", "poll"} /\ ctx = "done"
    /\ flight' = [flight EXCEPT ![e] = "none"]
    /\ Finish(e, "ctx", <<>>)
    /\ UNCHANGED <<cfg, ctx, all, returned, refused, late, polls>>

\* An error of any kind ends the search; the first answer names the operation,
\* a later one leaves it running or completes it.
YandexAnswer(e) ==
    /\ at[e] \in {"post", "poll"} /\ flight[e] = "client"
    /\ flight' = [flight EXCEPT ![e] = "none"]
    /\ \/ Finish(e, "plain", <<>>)
       \/ at' = [at EXCEPT ![e] = "poll"] /\ UNCHANGED out
       \/ at[e] = "poll" /\ \E urls \in {<<>>, <<"direct">>} : Finish(e, "nil", urls)
    /\ UNCHANGED <<cfg, ctx, all, returned, refused, late, polls>>

\* Mutant: the append works on the slice read when the engine was launched.
CollectLost(e) ==
    /\ at[e] = "collect"
    /\ all' = IF out[e].err = "nil" THEN [k \in DOMAIN out[e].urls |-> <<e, out[e].urls[k]>>] ELSE all
    /\ at' = [at EXCEPT ![e] = "done"]
    /\ UNCHANGED <<cfg, ctx, flight, out, returned, refused, late, polls>>

\* collect, under the mutex, and wg.Done.
Collect(e) ==
    /\ at[e] = "collect"
    /\ all' = IF out[e].err = "nil"
              THEN all \o [k \in DOMAIN out[e].urls |-> <<e, out[e].urls[k]>>]
              ELSE all
    /\ at' = [at EXCEPT ![e] = "done"]
    /\ UNCHANGED <<cfg, ctx, flight, out, returned, refused, late, polls>>

Return ==
    /\ ~returned /\ \E e \in Engines : at[e] = "done"
    /\ \A e \in cfg.engines : at[e] = "done"
    /\ returned' = TRUE
    /\ UNCHANGED <<cfg, ctx, at, flight, out, all, refused, late, polls>>

\* The caller's context ends.
Cancel ==
    /\ ctx = "live" /\ ~returned
    /\ ctx' = "done"
    /\ UNCHANGED <<cfg, at, flight, out, all, returned, refused, late, polls>>

\* What an engine does by itself, and the answers of servers.
EngineStep(e) ==
    \/ Admitted(e) \/ LimiterFails(e) \/ Send(e) \/ Abort(e) \/ APIReturns(e) \/ Collect(e)
    \/ YandexStart(e) \/ YandexPost(e) \/ YandexPoll(e) \/ YandexTimeout(e) \/ YandexCtxEnds(e)

PageArrives(e) ==
    flight[e] \in {"primary", "fallback"} /\ \E page \in PagesOf(e) : FallBack(e, page) \/ Answer(e, page)

Next ==
    \/ Start \/ Return \/ Cancel
    \/ \E e \in Engines : EngineStep(e) \/ PageArrives(e) \/ YandexAnswer(e)

\* Go runs every goroutine that can run, and both doers bound a request with a
\* client timeout, so each of their requests is answered.  Nothing makes the
\* caller cancel or the Yandex API answer.
Fairness ==
    /\ WF_vars(Start) /\ WF_vars(Return)
    /\ \A e \in Engines : WF_vars(EngineStep(e)) /\ WF_vars(PageArrives(e))

Spec == Init /\ [][Next]_vars /\ Fairness
-----------------------------------------------------------------------------
TypeOK ==
    /\ cfg \in Configs
    /\ ctx \in {"live", "done"}
    /\ at \in [Engines -> {"off", "wait", "html", "vqd", "djs", "serp", "api", "limit", "post", "poll", "collect", "done"}]
    /\ flight \in [Engines -> {"none", "primary", "fallback", "client"}]
    /\ \A e \in Engines : out[e].err \in {"nil", "ctx", "plain", "rateLimited"} /\ out[e].urls \in Seq(Href)
    /\ all \in Seq(Engines \X Href)
    /\ returned \in BOOLEAN
    /\ refused \in [Engines -> BOOLEAN]
    /\ late \in [Engines -> Nat]
    /\ polls \in 0 .. MaxPolls

\* The results of e among all are us, next to each other and in this order.
OneRun(e, us) ==
    \E p \in 0 .. Len(all) :
        /\ p + Len(us) <= Len(all)
        /\ \A k \in 1 .. Len(all) :
             IF k \in (p + 1) .. (p + Len(us)) THEN all[k] = <<e, us[k - p]>> ELSE all[k][1] # e

\* What SearchDirect returns is, engine by engine, exactly what each engine's
\* Search returned without an error: the concurrent appends lose, repeat and
\* split nothing, and a failed engine takes nobody's results with it.
NothingLost ==
    returned => \A e \in Engines : OneRun(e, IF out[e].err = "nil" THEN out[e].urls ELSE <<>>)

\* Results come without error only, and none of them is empty or still wrapped
\* in an engine's redirect whose target could be read.  A relative link, or one
\* to the engine itself (DDG's HTML page, Bing), may be among them.
LinksAreUsable ==
    \A e \in Engines :
        /\ out[e].urls # <<>> => out[e].err = "nil"
        /\ \A k \in DOMAIN out[e].urls : out[e].urls[k] \notin {"none", "", "wrapped"}

\* What SearchDirect hands to its caller is all of it, and usable.
ResultsSound == TypeOK /\ NothingLost /\ LinksAreUsable

\* Once the context is done an engine begins at most one more request, the
\* dualBrowser's repetition of the one in flight, DDG's three-request Search
\* included.
CancelStopsRequests ==
    \A e \in Engines : late[e] <= 1 /\ (late[e] = 1 => cfg.dual)

\* What the target refused (429, 403) through the proxy is not sent again
\* without it: the fallback answers for proxy failures only.  DDG, whose earlier
\* request may have been refused, is left aside.
RefusalNotRepeated ==
    \A e \in Scrapers \ {"ddg"} : flight[e] = "fallback" => ~refused[e]

\* The dualBrowser repeats a request for a good reason only.
RepetitionJustified == CancelStopsRequests /\ RefusalNotRepeated

\* Every call of SearchDirect returns, whatever the engines answer, unless the
\* Yandex API leaves a request unanswered for ever and the caller's context
\* never ends: http.DefaultClient has no timeout, and the deadline of the poll
\* loop is looked at between requests only.
Returns == <>returned \/ <>[](flight["yandex"] = "client" /\ ctx = "live")
=============================================================================
