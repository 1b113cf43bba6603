-------------------------- MODULE WebDirect_proofs --------------------------
(***************************************************************************)
(* Proofs about WebDirect for every configuration, every set of result     *)
(* entries and every number of polls: what SearchDirect hands to its       *)
(* caller, and which requests are repeated after a refusal or the end of   *)
(* the context; and about YandexLimit, which a Yandex search passes first, *)
(* for every set of callers, every limit and every number of calls.        *)
(***************************************************************************)
EXTENDS WebDirect, YandexLimit, FiniteSetTheorems, TLAPS

Errors == {"nil", "ctx", "plain", "rateLimited"}
Outcome == [err : Errors, urls : Seq(Href)]

\* Each place of the code belongs to its engines.
InPlace(e) ==
    /\ at[e] \in {"html", "vqd", "djs"} => e = "ddg"
    /\ at[e] = "serp" => e \in {"startpage", "brave", "bing", "yep"}
    /\ at[e] = "api" => e = "reddit"
    /\ at[e] \in {"limit", "post", "poll"} => e = "yandex"

Place == {"off", "wait", "html", "vqd", "djs", "serp", "api", "limit", "post", "poll", "collect", "done"}

Sending == {"html", "vqd", "djs", "serp"}

TypeInv ==
    /\ cfg \in Configs
    /\ ctx \in {"live", "done"}
    /\ at \in [Engines -> Place]
    /\ flight \in [Engines -> {"none", "primary", "fallback", "client"}]
    /\ out \in [Engines -> Outcome]
    /\ all \in Seq(Engines \X Href)
    /\ returned \in BOOLEAN
    /\ refused \in [Engines -> BOOLEAN]
    /\ late \in [Engines -> Nat]
    /\ polls \in 0 .. MaxPolls

\* The engine's control: a request is in flight only where one is sent.
Placed(e) ==
    /\ InPlace(e)
    /\ flight[e] \in {"primary", "fallback"} => at[e] \in Sending
    /\ flight[e] = "client" => at[e] \in {"post", "poll"}
    /\ at[e] # "off" => e \in cfg.engines
    /\ returned => at[e] \in {"off", "done"}

\* The engine's outcome: nothing before it ends, usable links after.
Usable(e) ==
    /\ at[e] \notin {"collect", "done"} => out[e] = Nothing
    /\ out[e].urls # <<>> => out[e].err = "nil"
    /\ \A k \in 1 .. Len(out[e].urls) : out[e].urls[k] \notin {"none", "", "wrapped"}

\* The engine's part of all: nothing before it has collected, its run after.
Merged(e) ==
    IF at[e] = "done" THEN OneRun(e, IF out[e].err = "nil" THEN out[e].urls ELSE <<>>)
    ELSE \A k \in 1 .. Len(all) : all[k][1] # e

\* A scraper other than DDG has not been refused until its one page has come.
Unrefused(e) == e \in Scrapers \ {"ddg"} /\ at[e] \notin {"collect", "done"} => ~refused[e]

\* A request after the end of the context is the dualBrowser's second one, and
\* no first one follows it.
Late(e) ==
    /\ late[e] \in {0, 1}
    /\ late[e] = 1 => cfg.dual /\ ctx = "done" /\ flight[e] # "primary"

EngineInv(e) == Placed(e) /\ Usable(e) /\ Merged(e) /\ Unrefused(e) /\ Late(e)

IInv == TypeInv /\ \A e \in Engines : EngineInv(e)

-----------------------------------------------------------------------------
\* The parsers yield a usable link or nothing.
Link == Href \ {"none", "wrapped"}

LEMMA LinkSeq ==
  /\ <<>> \in Seq(Href) /\ Len(<<>>) = 0
  /\ \A u \in Href : <<u>> \in Seq(Href) /\ Len(<<u>>) = 1 /\ <<u>>[1] = u /\ <<u>> # <<>>
OBVIOUS

\* A list of links as an engine returns it.
Good(o) ==
    /\ o \in Outcome
    /\ o.urls # <<>> => o.err = "nil"
    /\ \A k \in 1 .. Len(o.urls) : o.urls[k] \notin {"none", "", "wrapped"}

LEMMA EmptyGood == ASSUME NEW err \in Errors PROVE Good([err |-> err, urls |-> <<>>])
BY LinkSeq DEF Good, Outcome

LEMMA NothingGood == Good(Nothing) /\ Nothing.err = "nil" /\ Nothing.urls = <<>>
BY EmptyGood DEF Nothing, Errors

LEMMA OnlyIndex == \A k \in 1 .. 1 : k = 1
OBVIOUS

LEMMA OneGood ==
  ASSUME NEW u \in Href, u \notin {"none", "", "wrapped"}
  PROVE  Good([err |-> "nil", urls |-> <<u>>])
<1> DEFINE us == <<u>>
<1>1. us \in Seq(Href) /\ Len(us) = 1 /\ us[1] = u
  BY LinkSeq
<1> HIDE DEF us
<1>2. ASSUME NEW k \in 1 .. Len(us) PROVE us[k] \notin {"none", "", "wrapped"}
  <2>1. k \in 1 .. 1
    BY <1>1, Zenon
  <2>2. k = 1
    BY <2>1, OnlyIndex, Zenon
  <2>3. us[k] = u
    BY <1>1, <2>2
  <2> QED BY <2>3
<1>3. "nil" \in Errors /\ [err |-> "nil", urls |-> us].urls = us /\ [err |-> "nil", urls |-> us].err = "nil"
  BY DEF Errors
<1>4. [err |-> "nil", urls |-> us] \in Outcome
  BY <1>1, <1>3 DEF Outcome
<1>5. Good([err |-> "nil", urls |-> us])
  BY <1>2, <1>3, <1>4 DEF Good
<1> QED BY <1>5 DEF us

LEMMA DirectGood == Good([err |-> "nil", urls |-> <<"direct">>])
BY OneGood DEF Href

LEMMA ResultGood == ASSUME NEW err \in Errors, NEW url \in Link
                    PROVE  Good(Result(err, url)) /\ Result(err, url).err = err
<1>1. CASE err = "nil" /\ url # ""
  <2>1. Result(err, url) = [err |-> "nil", urls |-> <<url>>]
    BY <1>1 DEF Result
  <2>2. url \in Href /\ url \notin {"none", "", "wrapped"}
    BY <1>1 DEF Link
  <2>3. Good(Result(err, url))
    BY <2>1, <2>2, OneGood
  <2>4. Result(err, url).err = "nil"
    BY <2>1
  <2> QED BY <1>1, <2>3, <2>4
<1>2. CASE ~(err = "nil" /\ url # "")
  <2>1. Result(err, url) = [err |-> err, urls |-> <<>>]
    BY <1>2 DEF Result
  <2>2. Good(Result(err, url))
    BY <2>1, EmptyGood
  <2> QED BY <2>1, <2>2
<1> QED BY <1>1, <1>2

LEMMA ParsersUsable ==
  ASSUME NEW i \in Item
  PROVE  /\ ParseDDGHTML(i) \in Link
         /\ ParseDDGResponse(i) \in Link
         /\ ParseStartpageHTML(i) \in Link
         /\ parseBingResult(i) \in Link
         /\ {i.href, i.alt} \cap {"wrapped", "own"} = {} => ParseBraveHTML(i) \in Link /\ ParseYepJSON(i) \in Link
<1>1. i.href \in Href /\ i.alt \in Href /\ i.title \in BOOLEAN /\ i.label \in BOOLEAN /\ i.cite \in BOOLEAN /\ i.ad \in BOOLEAN
  BY DEF Item
<1>2. ParseDDGHTML(i) \in Link
  BY <1>1 DEF ParseDDGHTML, DDGUnwrapURL, Link, Href, Http
<1>3. ParseDDGResponse(i) \in Link
  BY <1>1 DEF ParseDDGResponse, Link, Href
<1>4. ParseStartpageHTML(i) \in Link
  BY <1>1 DEF ParseStartpageHTML, Link, Href
<1>5. parseBingResult(i) \in Link
  BY <1>1 DEF parseBingResult, parseBingTilkFallback, bingUnwrapURL, Link, Href
<1>6. {i.href, i.alt} \cap {"wrapped", "own"} = {} => ParseBraveHTML(i) \in Link /\ ParseYepJSON(i) \in Link
  BY <1>1 DEF ParseBraveHTML, ParseYepJSON, Link, Href, Http
<1> QED BY <1>2, <1>3, <1>4, <1>5, <1>6

\* The pages a doer can return hold a known entry.
LEMMA PageItem ==
  ASSUME NEW e \in Engines, NEW page \in PagesOf(e)
  PROVE  page.item \in Item /\ (e \notin Redirecting => {page.item.href, page.item.alt} \cap {"wrapped", "own"} = {})
<1>1. page \in Pages
  BY DEF PagesOf
<1>2. page.item \in Items
  BY <1>1, ItemsAssumption DEF Pages, Page
<1> QED BY <1>2, ItemsAssumption DEF PagesOf

LEMMA ErrorTypes ==
  ASSUME NEW page, NEW limited \in BOOLEAN
  PROVE  StatusError(page) \in Errors /\ Challenge(page, limited) \in Errors
BY DEF StatusError, Challenge, Errors

LEMMA LimitedType ==
  ASSUME NEW mark
  PROVE  /\ IsDDGRateLimited(mark) \in BOOLEAN /\ isStartpageRateLimited(mark) \in BOOLEAN
         /\ IsBraveRateLimited(mark) \in BOOLEAN /\ IsBingRateLimited(mark) \in BOOLEAN
BY DEF IsDDGRateLimited, isStartpageRateLimited, IsBraveRateLimited, IsBingRateLimited

\* Whether a page refuses an engine that is at the given place.
Refuses(e, page) ==
    isRateLimitStatus(page.status)
      \/ (page.status = "200" /\ at[e] \in {"html", "serp"} /\ RateLimited(e, page.mark))

\* What an engine makes of its page is usable.
LEMMA ResponseIs ==
  ASSUME NEW e \in Engines, NEW page \in PagesOf(e), InPlace(e), at[e] \in Sending
  PROVE  /\ Good(Response(e, page))
         /\ at[e] = "html" => Response(e, page).err # "ctx"
<1>1. page.item \in Item /\ (e \notin Redirecting => {page.item.href, page.item.alt} \cap {"wrapped", "own"} = {})
  BY PageItem
<1>2. CASE at[e] = "html"
  <2>1. e = "ddg"
    BY <1>2 DEF InPlace
  <2>2. Response(e, page) = searchHTML(page)
    BY <1>2, <2>1 DEF Response
  <2>3. /\ Good(searchHTML(page))
        /\ searchHTML(page).err = Challenge(page, IsDDGRateLimited(page.mark))
    BY <1>1, ParsersUsable, LimitedType, ErrorTypes, ResultGood DEF searchHTML
  <2>4. Challenge(page, IsDDGRateLimited(page.mark)) # "ctx"
    BY DEF Challenge, StatusError
  <2> QED BY <2>2, <2>3, <2>4
<1>3. CASE at[e] = "vqd"
  <2>1. e = "ddg"
    BY <1>3 DEF InPlace
  <2>2. Response(e, page) = getVQD(page)
    BY <1>3, <2>1 DEF Response
  <2>3. Good(getVQD(page))
    <3> DEFINE err == IF page.status = "200" /\ page.ok THEN "nil" ELSE "plain"
    <3>1. err \in Errors /\ "" \in Link
      BY DEF Errors, Link, Href
    <3>2. getVQD(page) = Result(err, "")
      BY DEF getVQD
    <3> HIDE DEF err
    <3> QED BY <3>1, <3>2, ResultGood
  <2> QED BY <1>3, <2>1, <2>2, <2>3
<1>4. CASE at[e] = "djs"
  <2>1. e = "ddg"
    BY <1>4 DEF InPlace
  <2>2. Response(e, page) = searchDJS(page)
    BY <1>4, <2>1 DEF Response
  <2>3. Good(searchDJS(page))
    <3> DEFINE err == IF page.status \notin {"200", "202"} THEN StatusError(page) ELSE IF page.ok THEN "nil" ELSE "plain"
    <3>1. err \in Errors
      BY DEF Errors, StatusError
    <3>2. searchDJS(page) = Result(err, ParseDDGResponse(page.item)) /\ ParseDDGResponse(page.item) \in Link
      BY <1>1, ParsersUsable DEF searchDJS
    <3> HIDE DEF err
    <3> QED BY <3>1, <3>2, ResultGood
  <2> QED BY <1>4, <2>1, <2>2, <2>3
<1>5. CASE at[e] = "serp"
  <2>1. e \in {"startpage", "brave", "bing", "yep"}
    BY <1>5 DEF InPlace
  <2>2. CASE e = "startpage"
    <3> DEFINE err == Challenge(page, isStartpageRateLimited(page.mark))
    <3>1. Response(e, page) = Result(err, ParseStartpageHTML(page.item)) /\ ParseStartpageHTML(page.item) \in Link
      BY <1>1, <1>5, <2>2, ParsersUsable DEF Response, StartpageSearch
    <3>2. err \in Errors
      BY LimitedType, ErrorTypes
    <3> HIDE DEF err
    <3> QED BY <1>5, <2>2, <3>1, <3>2, ResultGood
  <2>3. CASE e = "brave"
    <3> DEFINE err == Challenge(page, IsBraveRateLimited(page.mark))
    <3>1. Response(e, page) = Result(err, ParseBraveHTML(page.item)) /\ ParseBraveHTML(page.item) \in Link
      BY <1>1, <1>5, <2>3, ParsersUsable DEF Response, BraveSearch, Redirecting
    <3>2. err \in Errors
      BY LimitedType, ErrorTypes
    <3> HIDE DEF err
    <3> QED BY <1>5, <2>3, <3>1, <3>2, ResultGood
  <2>4. CASE e = "bing"
    <3> DEFINE err == Challenge(page, IsBingRateLimited(page.mark))
    <3>1. Response(e, page) = Result(err, parseBingResult(page.item)) /\ parseBingResult(page.item) \in Link
      BY <1>1, <1>5, <2>4, ParsersUsable DEF Response, BingSearch
    <3>2. err \in Errors
      BY LimitedType, ErrorTypes
    <3> HIDE DEF err
    <3> QED BY <1>5, <2>4, <3>1, <3>2, ResultGood
  <2>5. CASE e = "yep"
    <3> DEFINE err == IF page.status = "200" /\ page.ok THEN "nil" ELSE "plain"
    <3>1. Response(e, page) = Result(err, ParseYepJSON(page.item)) /\ ParseYepJSON(page.item) \in Link
      BY <1>1, <1>5, <2>5, ParsersUsable DEF Response, YepSearch, Redirecting
    <3>2. err \in Errors
      BY DEF Errors
    <3> HIDE DEF err
    <3> QED BY <1>5, <2>5, <3>1, <3>2, ResultGood
  <2> QED BY <2>1, <2>2, <2>3, <2>4, <2>5
<1> QED BY <1>2, <1>3, <1>4, <1>5 DEF Sending

-----------------------------------------------------------------------------
\* A step of the goroutine of e leaves the state of the others alone.
Frame(e) ==
    \A f \in Engines \ {e} :
        /\ at'[f] = at[f] /\ flight'[f] = flight[f] /\ out'[f] = out[f]
        /\ refused'[f] = refused[f] /\ late'[f] = late[f]

LEMMA OthersKept ==
  ASSUME IInv, NEW e \in Engines, UNCHANGED <<cfg, ctx, returned, all>>, Frame(e), NEW f \in Engines \ {e}
  PROVE  EngineInv(f)'
<1>1. EngineInv(f)
  BY DEF IInv
<1>2. UNCHANGED <<at[f], flight[f], out[f], refused[f], late[f]>>
  BY DEF Frame
<1>3. Placed(f)' /\ Usable(f)'
  BY <1>1, <1>2 DEF EngineInv, Placed, InPlace, Usable
<1>4. Merged(f)'
  BY <1>1, <1>2 DEF EngineInv, Merged, OneRun
<1>5. Unrefused(f)' /\ Late(f)'
  BY <1>1, <1>2 DEF EngineInv, Unrefused, Late
<1> QED BY <1>3, <1>4, <1>5 DEF EngineInv

\* No request of e is in flight after the step.
Quiet(e) ==
    /\ flight' \in [Engines -> {"none", "primary", "fallback", "client"}]
    /\ flight'[e] = "none"
    /\ \A f \in Engines \ {e} : flight'[f] = flight[f]

\* The step may note a refusal of e.
Noted(e) ==
    /\ refused' \in [Engines -> BOOLEAN]
    /\ \A f \in Engines \ {e} : refused'[f] = refused[f]

\* The goroutine's way through the code, up to its result.
Running == {"wait", "html", "vqd", "djs", "serp", "api", "limit", "post", "poll"}

\* Search returns, whichever way.
LEMMA FinishPreserves ==
  ASSUME IInv, NEW e \in Engines, NEW err, NEW urls, Good([err |-> err, urls |-> urls]),
         Finish(e, err, urls), at[e] \in Running, Quiet(e), Noted(e),
         UNCHANGED <<cfg, ctx, all, returned, late, polls>>
  PROVE  IInv'
<1> DEFINE o == [err |-> err, urls |-> urls]
<1>1. TypeInv /\ EngineInv(e)
  BY DEF IInv
<1>2. at' = [at EXCEPT ![e] = "collect"] /\ out' = [out EXCEPT ![e] = o] /\ o.err = err /\ o.urls = urls
  BY DEF Finish
<1> HIDE DEF o
<1>3. Good(o)
  BY DEF o
<1>4. o \in Outcome
  BY <1>3 DEF Good
<1>5. at'[e] = "collect" /\ out'[e] = o /\ at' \in [Engines -> Place] /\ out' \in [Engines -> Outcome]
  BY <1>1, <1>2, <1>4 DEF TypeInv, Place
<1>6. TypeInv'
  BY <1>1, <1>5 DEF TypeInv, Quiet, Noted
<1>7. Frame(e)
  BY <1>1, <1>2 DEF Frame, Quiet, Noted, TypeInv
<1>8. Placed(e)'
  BY <1>1, <1>5 DEF EngineInv, Placed, InPlace, Quiet, Running
<1>9. Usable(e)'
  BY <1>3, <1>5 DEF Usable, Good
<1>10. Merged(e)'
  BY <1>1, <1>5 DEF EngineInv, Merged, Running
<1>11. Unrefused(e)'
  BY <1>2, <1>5 DEF Unrefused
<1>12. Late(e)'
  BY <1>1 DEF EngineInv, Late, Quiet
<1>13. EngineInv(e)'
  BY <1>8, <1>9, <1>10, <1>11, <1>12 DEF EngineInv
<1> QED BY <1>6, <1>7, <1>13, OthersKept DEF IInv

\* Search goes on to another part of its code.
LEMMA MovePreserves ==
  ASSUME IInv, NEW e \in Engines, NEW place \in Running, at[e] \in Running,
         at' = [at EXCEPT ![e] = place],
         place \in {"html", "vqd", "djs"} => e = "ddg",
         place = "serp" => e \in {"startpage", "brave", "bing", "yep"},
         place = "api" => e = "reddit",
         place \in {"limit", "post", "poll"} => e = "yandex",
         Quiet(e), Noted(e), refused[e] => refused'[e], e \in Scrapers \ {"ddg"} => ~refused'[e],
         UNCHANGED <<cfg, ctx, out, all, returned, late, polls>>
  PROVE  IInv'
<1>1. TypeInv /\ EngineInv(e)
  BY DEF IInv
<1>2. at'[e] = place /\ at' \in [Engines -> Place]
  BY <1>1 DEF TypeInv, Running, Place
<1>3. TypeInv'
  BY <1>1, <1>2 DEF TypeInv, Quiet, Noted
<1>4. Frame(e)
  BY <1>1 DEF Frame, Quiet, Noted, TypeInv
<1>5. Placed(e)'
  BY <1>1, <1>2 DEF EngineInv, Placed, InPlace, Quiet, Running
<1>6. Usable(e)' /\ Merged(e)'
  BY <1>1, <1>2 DEF EngineInv, Usable, Merged, Running
<1>7. Unrefused(e)'
  BY <1>1, <1>2 DEF EngineInv, Unrefused, Running
<1>8. Late(e)'
  BY <1>1 DEF EngineInv, Late, Quiet
<1>9. EngineInv(e)'
  BY <1>5, <1>6, <1>7, <1>8 DEF EngineInv
<1> QED BY <1>3, <1>4, <1>9, OthersKept DEF IInv

\* A request goes out: the context is live, or the dualBrowser repeats one.
LEMMA RequestPreserves ==
  ASSUME IInv, NEW e \in Engines, NEW doer \in {"primary", "fallback", "client"}, Request(e, doer),
         doer \in {"primary", "fallback"} => at[e] \in Sending,
         doer = "client" => at[e] \in {"post", "poll"},
         ctx = "live" \/ (doer = "fallback" /\ flight[e] = "primary" /\ cfg.dual),
         Noted(e), refused[e] => refused'[e], e \in Scrapers \ {"ddg"} => ~refused'[e],
         polls' \in 0 .. MaxPolls,
         UNCHANGED <<cfg, ctx, at, out, all, returned>>
  PROVE  IInv'
<1>1. TypeInv /\ EngineInv(e)
  BY DEF IInv
<1>2. /\ flight'[e] = doer /\ flight' \in [Engines -> {"none", "primary", "fallback", "client"}]
      /\ \A f \in Engines \ {e} : flight'[f] = flight[f]
  BY <1>1 DEF Request, TypeInv
<1>3. /\ late'[e] = late[e] + (IF ctx = "done" THEN 1 ELSE 0) /\ late' \in [Engines -> Nat]
      /\ \A f \in Engines \ {e} : late'[f] = late[f]
  BY <1>1 DEF Request, TypeInv
<1>4. TypeInv'
  BY <1>1, <1>2, <1>3 DEF TypeInv, Noted
<1>5. Frame(e)
  BY <1>2, <1>3 DEF Frame, Noted
<1>6. Placed(e)'
  BY <1>1, <1>2 DEF EngineInv, Placed, InPlace, Sending
<1>7. Usable(e)'
  BY <1>1 DEF EngineInv, Usable
<1>8. Merged(e)'
  BY <1>1 DEF EngineInv, Merged, OneRun
<1>9. Unrefused(e)'
  <2>1. at[e] \notin {"collect", "done"}
    BY DEF Sending
  <2> QED BY <1>1, <2>1 DEF EngineInv, Unrefused
<1>10. Late(e)'
  <2>1. CASE ctx = "live"
    <3>1. late[e] = 0 /\ late'[e] = 0
      BY <1>1, <1>3, <2>1 DEF EngineInv, Late
    <3> QED BY <3>1 DEF Late
  <2>2. CASE doer = "fallback" /\ flight[e] = "primary" /\ cfg.dual
    <3>1. late[e] = 0 /\ ctx \in {"live", "done"}
      BY <1>1, <2>2 DEF EngineInv, Late, TypeInv
    <3> QED BY <3>1, <1>2, <1>3, <2>2 DEF Late
  <2> QED BY <2>1, <2>2
<1>11. EngineInv(e)'
  BY <1>6, <1>7, <1>8, <1>9, <1>10 DEF EngineInv
<1> QED BY <1>4, <1>5, <1>11, OthersKept DEF IInv

\* What the lemmas above ask about the requests and refusals of e.
LEMMA QuietKept == ASSUME IInv, NEW e \in Engines, UNCHANGED flight, flight[e] = "none" PROVE Quiet(e)
BY DEF Quiet, IInv, TypeInv

LEMMA QuietSet == ASSUME IInv, NEW e \in Engines, flight' = [flight EXCEPT ![e] = "none"] PROVE Quiet(e)
BY DEF Quiet, IInv, TypeInv

LEMMA NotedKept == ASSUME IInv, NEW e \in Engines, UNCHANGED refused PROVE Noted(e)
BY DEF Noted, IInv, TypeInv

LEMMA NotRefused ==
  ASSUME IInv, NEW e \in Scrapers \ {"ddg"}, at[e] \in Running
  PROVE  ~refused[e]
BY DEF IInv, EngineInv, Unrefused, Running, Engines

LEMMA NoFlight ==
  ASSUME IInv, NEW e \in Engines, at[e] \notin Sending, at[e] \notin {"post", "poll"}
  PROVE  flight[e] = "none"
BY DEF IInv, TypeInv, EngineInv, Placed

LEMMA PlacesDiffer == {"wait", "limit", "api", "post", "poll"} \cap Sending = {}
BY DEF Sending

\* Search ends without a page.
LEMMA GiveUpPreserves ==
  ASSUME IInv, NEW e \in Engines, NEW err \in {"nil", "ctx", "plain"}, NEW urls,
         Good([err |-> err, urls |-> urls]),
         Finish(e, err, urls), at[e] \in Running, Quiet(e), UNCHANGED <<cfg, ctx, all, returned, refused, late, polls>>
  PROVE  IInv'
<1>1. Noted(e)
  BY NotedKept
<1> QED BY <1>1, FinishPreserves

LEMMA AdmittedPreserves == ASSUME IInv, NEW e \in Engines, Admitted(e) PROVE IInv'
<1>1. at[e] = "wait" /\ at' = [at EXCEPT ![e] = Entry(e)]
  BY DEF Admitted
<1>2. /\ Entry(e) \in Running
      /\ Entry(e) \in {"html", "vqd", "djs"} => e = "ddg"
      /\ Entry(e) = "serp" => e \in {"startpage", "brave", "bing", "yep"}
      /\ Entry(e) = "api" => e = "reddit"
      /\ Entry(e) \in {"limit", "post", "poll"} => e = "yandex"
  BY DEF Entry, Running, Engines, Scrapers, APIs
<1>3. flight[e] = "none" /\ UNCHANGED <<flight, refused>>
  BY <1>1, NoFlight, PlacesDiffer DEF Admitted
<1>4. Quiet(e) /\ Noted(e)
  BY <1>3, QuietKept, NotedKept
<1>5. e \in Scrapers \ {"ddg"} => ~refused'[e]
  BY <1>1, <1>3, NotRefused DEF Running
<1>6. at[e] \in Running
  BY <1>1 DEF Running
<1>7. UNCHANGED <<cfg, ctx, out, all, returned, late, polls>>
  BY DEF Admitted
<1> QED BY <1>1, <1>2, <1>3, <1>4, <1>5, <1>6, <1>7, MovePreserves

LEMMA LimiterPreserves == ASSUME IInv, NEW e \in Engines, LimiterFails(e) PROVE IInv'
<1>1. at[e] = "wait" /\ at[e] \in Running
  BY DEF LimiterFails, Running
<1>2. Quiet(e)
  BY <1>1, NoFlight, PlacesDiffer, QuietKept DEF LimiterFails
<1>3. Good([err |-> "nil", urls |-> <<>>])
  BY EmptyGood DEF Errors
<1> QED BY <1>1, <1>2, <1>3, GiveUpPreserves DEF LimiterFails

LEMMA SendPreserves == ASSUME IInv, NEW e \in Engines, Send(e) PROVE IInv'
<1>1. at[e] \in Sending /\ at[e] \in Running /\ ctx = "live"
  BY DEF Send, Ready, Sending, Running
<1>2. Noted(e) /\ UNCHANGED refused
  BY NotedKept DEF Send
<1>3. e \in Scrapers \ {"ddg"} => ~refused'[e]
  BY <1>1, <1>2, NotRefused
<1>4. polls' \in 0 .. MaxPolls
  BY DEF Send, IInv, TypeInv
<1> QED BY <1>1, <1>2, <1>3, <1>4, RequestPreserves DEF Send

LEMMA AbortPreserves == ASSUME IInv, NEW e \in Engines, Abort(e) PROVE IInv'
<1>1. at[e] \in Running /\ flight[e] = "none"
  BY DEF Abort, Ready, Running
<1>2. Quiet(e)
  BY <1>1, QuietKept DEF Abort
<1>3. Good([err |-> "ctx", urls |-> <<>>])
  BY EmptyGood DEF Errors
<1> QED BY <1>1, <1>2, <1>3, GiveUpPreserves DEF Abort

LEMMA APIPreserves == ASSUME IInv, NEW e \in Engines, APIReturns(e) PROVE IInv'
<1>1. at[e] \in Running /\ flight[e] = "none"
  BY NoFlight, PlacesDiffer DEF APIReturns, Running
<1>2. Quiet(e)
  BY <1>1, QuietKept DEF APIReturns
<1>3. PICK o \in {Nothing, [err |-> "nil", urls |-> <<"direct">>], [err |-> "plain", urls |-> <<>>]} : Finish(e, o.err, o.urls)
  BY DEF APIReturns
<1>4. Good([err |-> "plain", urls |-> <<>>])
  BY EmptyGood DEF Errors
<1>5. o = [err |-> o.err, urls |-> o.urls] /\ o.err \in {"nil", "plain"}
  BY <1>3 DEF Nothing
<1>6. Good(o)
  BY <1>3, <1>4, DirectGood, NothingGood
<1> QED BY <1>1, <1>2, <1>3, <1>5, <1>6, GiveUpPreserves DEF APIReturns

LEMMA YandexStartPreserves == ASSUME IInv, NEW e \in Engines, YandexStart(e) PROVE IInv'
<1>1. at[e] = "limit" /\ at[e] \in Running
  BY DEF YandexStart, Running
<1>2. flight[e] = "none"
  BY <1>1, NoFlight, PlacesDiffer
<1>3. Quiet(e) /\ Noted(e) /\ UNCHANGED refused
  BY <1>2, QuietKept, NotedKept DEF YandexStart
<1>4. Good([err |-> "plain", urls |-> <<>>]) /\ Good([err |-> "nil", urls |-> <<>>])
  BY EmptyGood DEF Errors
<1>5. CASE Finish(e, "plain", <<>>) \/ Finish(e, "nil", <<>>)
  BY <1>1, <1>3, <1>4, <1>5, GiveUpPreserves DEF YandexStart
<1>6. CASE at' = [at EXCEPT ![e] = "post"] /\ UNCHANGED out
  <2>1. e = "yandex"
    BY <1>1 DEF IInv, EngineInv, Placed, InPlace
  <2>2. e \notin Scrapers /\ "post" \in Running
    BY <2>1 DEF Scrapers, Running
  <2> QED BY <1>1, <1>3, <1>6, <2>1, <2>2, MovePreserves DEF YandexStart
<1> QED BY <1>5, <1>6 DEF YandexStart

LEMMA YandexRequestPreserves == ASSUME IInv, NEW e \in Engines, YandexPost(e) \/ YandexPoll(e) PROVE IInv'
<1>1. /\ at[e] \in {"post", "poll"} /\ ctx = "live" /\ Request(e, "client")
      /\ UNCHANGED <<cfg, ctx, at, out, all, returned, refused>>
  BY DEF YandexPost, YandexPoll
<1>2. e = "yandex"
  BY <1>1 DEF IInv, EngineInv, Placed, InPlace
<1>3. e \notin Scrapers
  BY <1>2 DEF Scrapers
<1>4. polls \in 0 .. MaxPolls /\ MaxPolls \in Nat
  BY PollsAssumption DEF IInv, TypeInv
<1>5. polls' \in 0 .. MaxPolls
  BY <1>4 DEF YandexPost, YandexPoll
<1>6. Noted(e)
  BY <1>1, NotedKept
<1> QED BY <1>1, <1>3, <1>5, <1>6, RequestPreserves

LEMMA YandexEndsPreserves == ASSUME IInv, NEW e \in Engines, YandexTimeout(e) \/ YandexCtxEnds(e) PROVE IInv'
<1>1. at[e] \in Running /\ UNCHANGED <<cfg, ctx, all, returned, refused, late, polls>>
  BY DEF YandexTimeout, YandexCtxEnds, Running
<1>2. Quiet(e)
  BY QuietKept, QuietSet DEF YandexTimeout, YandexCtxEnds
<1>3. Good([err |-> "plain", urls |-> <<>>]) /\ Good([err |-> "ctx", urls |-> <<>>])
  BY EmptyGood DEF Errors
<1>4. Finish(e, "plain", <<>>) \/ Finish(e, "ctx", <<>>)
  BY DEF YandexTimeout, YandexCtxEnds
<1> QED BY <1>1, <1>2, <1>3, <1>4, GiveUpPreserves

LEMMA YandexAnswerPreserves == ASSUME IInv, NEW e \in Engines, YandexAnswer(e) PROVE IInv'
<1>1. /\ at[e] \in {"post", "poll"} /\ at[e] \in Running /\ UNCHANGED <<cfg, ctx, all, returned, refused, late, polls>>
      /\ flight' = [flight EXCEPT ![e] = "none"]
  BY DEF YandexAnswer, Running
<1>2. Quiet(e) /\ Noted(e)
  BY <1>1, QuietSet, NotedKept
<1>3. Good([err |-> "plain", urls |-> <<>>]) /\ Good([err |-> "nil", urls |-> <<>>])
  BY EmptyGood DEF Errors
<1>4. CASE Finish(e, "plain", <<>>) \/ Finish(e, "nil", <<>>) \/ Finish(e, "nil", <<"direct">>)
  BY <1>1, <1>2, <1>3, <1>4, DirectGood, GiveUpPreserves
<1>5. CASE at' = [at EXCEPT ![e] = "poll"] /\ UNCHANGED out
  <2>1. e = "yandex"
    BY <1>1 DEF IInv, EngineInv, Placed, InPlace
  <2>2. e \notin Scrapers /\ "poll" \in Running
    BY <2>1 DEF Scrapers, Running
  <2> QED BY <1>1, <1>2, <1>5, <2>1, <2>2, MovePreserves
<1> QED BY <1>4, <1>5 DEF YandexAnswer

\* dualBrowser.Do repeats the request; what it repeats was no refusal.
LEMMA FallBackPreserves ==
  ASSUME IInv, NEW e \in Engines, NEW page, FallBack(e, page)
  PROVE  IInv'
<1>1. flight[e] = "primary" /\ cfg.dual /\ Request(e, "fallback") /\ UNCHANGED <<cfg, ctx, at, out, all, returned, polls>>
  BY DEF FallBack
<1>2. at[e] \in Sending
  BY <1>1 DEF IInv, EngineInv, Placed
<1>3. at[e] \in Running
  BY <1>2 DEF Sending, Running
<1>4. ~isRateLimitStatus(page.status)
  BY DEF FallBack, shouldFallback, isRateLimitStatus
<1>5. refused \in [Engines -> BOOLEAN]
  BY DEF IInv, TypeInv
<1>6. Noted(e) /\ refused'[e] = refused[e]
  BY <1>4, <1>5 DEF FallBack, Noted
<1>7. e \in Scrapers \ {"ddg"} => ~refused'[e]
  BY <1>3, <1>6, NotRefused
<1>8. polls' \in 0 .. MaxPolls
  BY <1>1 DEF IInv, TypeInv
<1> QED BY <1>1, <1>2, <1>6, <1>7, <1>8, RequestPreserves

\* The engine handles its page.
LEMMA AnswerPreserves ==
  ASSUME IInv, NEW e \in Engines, NEW page \in PagesOf(e), flight[e] \in {"primary", "fallback"}, Answer(e, page)
  PROVE  IInv'
<1> DEFINE r == Response(e, page)
<1>1. InPlace(e) /\ at[e] \in Sending
  BY DEF IInv, EngineInv, Placed
<1>2. at[e] \in Running /\ (at[e] # "serp" => e = "ddg")
  BY <1>1 DEF InPlace, Sending, Running
<1>3. Good(r)
  BY <1>1, ResponseIs
<1>4. Quiet(e) /\ UNCHANGED <<cfg, ctx, all, returned, late, polls>>
  BY QuietSet DEF Answer
<1>5. refused \in [Engines -> BOOLEAN]
  BY DEF IInv, TypeInv
<1>6. refused' = [refused EXCEPT ![e] = refused[e] \/ Refuses(e, page)]
  BY DEF Answer, Refuses
<1>7. Noted(e) /\ (refused'[e] <=> refused[e] \/ Refuses(e, page))
  <2> DEFINE b == refused[e] \/ Refuses(e, page)
  <2>1. b \in BOOLEAN /\ refused' = [refused EXCEPT ![e] = b]
    BY <1>6
  <2> HIDE DEF b
  <2>2. Noted(e) /\ refused'[e] = b
    BY <1>5, <2>1 DEF Noted
  <2> QED BY <2>2 DEF b
<1>8. e \in Scrapers \ {"ddg"} => ~refused[e]
  BY <1>2, NotRefused
<1>9. \/ at[e] = "html" /\ AfterHTML(e, r)
      \/ at[e] = "vqd" /\ r.err = "nil" /\ at' = [at EXCEPT ![e] = "djs"] /\ UNCHANGED out
      \/ Finish(e, r.err, r.urls)
  BY DEF Answer
<1> HIDE DEF r
<1>10. r = [err |-> r.err, urls |-> r.urls]
  BY <1>3 DEF Good, Outcome
<1>11. Good([err |-> r.err, urls |-> r.urls])
  BY <1>3, <1>10
<1>12. ASSUME Finish(e, r.err, r.urls) PROVE IInv'
  <2> QED BY <1>2, <1>4, <1>7, <1>11, <1>12, FinishPreserves
<1>13. ASSUME NEW place \in {"vqd", "djs"}, e = "ddg", at' = [at EXCEPT ![e] = place], UNCHANGED out PROVE IInv'
  <2>1. place \in Running
    BY DEF Running
  <2> QED BY <1>2, <1>4, <1>7, <1>13, <2>1, MovePreserves
<1>14. CASE at[e] = "html" /\ AfterHTML(e, r)
  <2>1. Finish(e, r.err, r.urls) \/ (at' = [at EXCEPT ![e] = "vqd"] /\ UNCHANGED out)
    BY <1>14 DEF AfterHTML
  <2> QED BY <1>2, <1>12, <1>13, <1>14, <2>1
<1> QED BY <1>2, <1>9, <1>12, <1>13, <1>14

\* The append of a run of e.
LEMMA AppendRun ==
  ASSUME NEW S, NEW s \in Seq(S), NEW t \in Seq(S)
  PROVE  /\ s \o t \in Seq(S) /\ Len(s \o t) = Len(s) + Len(t) /\ Len(s) \in Nat /\ Len(t) \in Nat
         /\ \A k \in 1 .. Len(s) : (s \o t)[k] = s[k]
         /\ \A k \in (Len(s) + 1) .. (Len(s) + Len(t)) : (s \o t)[k] = t[k - Len(s)]
OBVIOUS

\* collect adds exactly the results of e.
LEMMA CollectAdds ==
  ASSUME IInv, NEW e \in Engines, Collect(e)
  PROVE  LET us == IF out[e].err = "nil" THEN out[e].urls ELSE <<>>
         IN  /\ us \in Seq(Href) /\ Len(us) \in Nat /\ Len(all) \in Nat
             /\ all' \in Seq(Engines \X Href) /\ Len(all') = Len(all) + Len(us)
             /\ \A k \in 1 .. Len(all) : all'[k] = all[k]
             /\ \A k \in (Len(all) + 1) .. Len(all') : all'[k] = <<e, us[k - Len(all)]>>
<1> DEFINE us == IF out[e].err = "nil" THEN out[e].urls ELSE <<>>
           t == [k \in DOMAIN out[e].urls |-> <<e, out[e].urls[k]>>]
<1>1. out[e] \in Outcome /\ all \in Seq(Engines \X Href)
  BY DEF IInv, TypeInv
<1>2. out[e].urls \in Seq(Href)
  BY <1>1 DEF Outcome
<1>3. CASE out[e].err = "nil"
  <2>1. t \in Seq(Engines \X Href) /\ Len(t) = Len(out[e].urls) /\ \A k \in 1 .. Len(t) : t[k] = <<e, out[e].urls[k]>>
    BY <1>2
  <2>2. us = out[e].urls /\ all' = all \o t
    BY <1>3 DEF Collect
  <2> DEFINE R == Engines \X Href
             joined == all \o t
  <2>3. all \in Seq(R) /\ t \in Seq(R)
    BY <1>1, <2>1
  <2> HIDE DEF t, us, R
  <2>4. /\ joined \in Seq(R) /\ Len(joined) = Len(all) + Len(t) /\ Len(all) \in Nat /\ Len(t) \in Nat
        /\ \A k \in 1 .. Len(all) : joined[k] = all[k]
        /\ \A k \in (Len(all) + 1) .. (Len(all) + Len(t)) : joined[k] = t[k - Len(all)]
    BY <2>3, AppendRun
  <2> HIDE DEF joined
  <2>5. all' = joined /\ Len(t) = Len(us)
    BY <2>1, <2>2 DEF joined
  <2>6. /\ all' \in Seq(Engines \X Href) /\ Len(all') = Len(all) + Len(us) /\ Len(all) \in Nat /\ Len(us) \in Nat
        /\ \A k \in 1 .. Len(all) : all'[k] = all[k]
        /\ \A k \in (Len(all) + 1) .. (Len(all) + Len(t)) : all'[k] = t[k - Len(all)]
    BY <2>4, <2>5 DEF R
  <2>7. ASSUME NEW k \in (Len(all) + 1) .. Len(all') PROVE all'[k] = <<e, us[k - Len(all)]>>
    <3>1. k \in (Len(all) + 1) .. (Len(all) + Len(t)) /\ k - Len(all) \in 1 .. Len(t)
      BY <2>1, <2>2, <2>6
    <3> QED BY <2>1, <2>2, <2>6, <3>1
  <2>8. us \in Seq(Href)
    BY <1>2, <2>2
  <2> QED BY <2>6, <2>7, <2>8 DEF us
<1>4. CASE out[e].err # "nil"
  <2>1. us = <<>> /\ all' = all
    BY <1>4 DEF Collect
  <2>2. Len(us) = 0 /\ us \in Seq(Href)
    BY <2>1, LinkSeq
  <2> HIDE DEF us
  <2> QED BY <1>1, <2>1, <2>2 DEF us
<1> QED BY <1>3, <1>4

LEMMA CollectPreserves == ASSUME IInv, NEW e \in Engines, Collect(e) PROVE IInv'
<1> DEFINE us == IF out[e].err = "nil" THEN out[e].urls ELSE <<>>
<1>1. /\ us \in Seq(Href) /\ Len(us) \in Nat /\ Len(all) \in Nat
      /\ all' \in Seq(Engines \X Href) /\ Len(all') = Len(all) + Len(us)
      /\ \A k \in 1 .. Len(all) : all'[k] = all[k]
      /\ \A k \in (Len(all) + 1) .. Len(all') : all'[k] = <<e, us[k - Len(all)]>>
  BY CollectAdds
<1>2. /\ at[e] = "collect" /\ at' = [at EXCEPT ![e] = "done"]
      /\ UNCHANGED <<cfg, ctx, flight, out, returned, refused, late, polls>>
  BY DEF Collect
<1>3. TypeInv /\ \A f \in Engines : EngineInv(f)
  BY DEF IInv
<1>4. at'[e] = "done" /\ at' \in [Engines -> Place] /\ \A f \in Engines \ {e} : at'[f] = at[f]
  BY <1>2, <1>3 DEF TypeInv, Place
<1> HIDE DEF us
<1>5. TypeInv'
  BY <1>1, <1>2, <1>3, <1>4 DEF TypeInv
<1>6. ASSUME NEW f \in Engines PROVE Placed(f)' /\ Usable(f)' /\ Unrefused(f)' /\ Late(f)'
  <2>1. EngineInv(f)
    BY <1>3
  <2>2. CASE f = e
    BY <1>2, <1>4, <2>1, <2>2 DEF EngineInv, Placed, InPlace, Usable, Unrefused, Late, Sending
  <2>3. CASE f # e
    BY <1>2, <1>4, <2>1, <2>3, ZenonT(60) DEF EngineInv, Placed, InPlace, Usable, Unrefused, Late
  <2> QED BY <2>2, <2>3
<1>7. Merged(e)'
  <2>1. \A k \in 1 .. Len(all) : all[k][1] # e
    BY <1>2, <1>3 DEF EngineInv, Merged
  <2>2. OneRun(e, us)'
    <3> DEFINE q == Len(all)
    <3>1. q \in 0 .. Len(all') /\ q + Len(us) <= Len(all')
      BY <1>1
    <3>2. ASSUME NEW k \in 1 .. Len(all')
          PROVE  IF k \in (q + 1) .. (q + Len(us)) THEN all'[k] = <<e, us[k - q]>> ELSE all'[k][1] # e
      <4>1. CASE k \in (q + 1) .. (q + Len(us))
        BY <1>1, <4>1
      <4>2. CASE k \notin (q + 1) .. (q + Len(us))
        <5>1. k \in 1 .. Len(all)
          BY <1>1, <4>2
        <5> QED BY <1>1, <2>1, <4>2, <5>1
      <4> QED BY <4>1, <4>2
    <3>3. us' = us
      BY <1>2 DEF us
    <3> HIDE DEF q
    <3> QED BY <3>1, <3>2, <3>3 DEF OneRun
  <2>3. us = us' /\ us' = (IF out'[e].err = "nil" THEN out'[e].urls ELSE <<>>)
    BY <1>2 DEF us
  <2> QED BY <1>4, <2>2, <2>3 DEF Merged
<1>8. ASSUME NEW f \in Engines \ {e} PROVE Merged(f)'
  <2>1. Merged(f)
    BY <1>3 DEF EngineInv
  <2>2. \A k \in (Len(all) + 1) .. Len(all') : all'[k][1] # f
    BY <1>1
  <2>3. CASE at[f] # "done"
    <3>1. \A k \in 1 .. Len(all) : all[k][1] # f
      BY <2>1, <2>3 DEF Merged
    <3>2. \A k \in 1 .. Len(all') : k \in 1 .. Len(all) \/ k \in (Len(all) + 1) .. Len(all')
      BY <1>1
    <3>3. \A k \in 1 .. Len(all') : all'[k][1] # f
      BY <1>1, <2>2, <3>1, <3>2
    <3> QED BY <1>4, <2>3, <3>3 DEF Merged
  <2>4. CASE at[f] = "done"
    <3> DEFINE vs == IF out[f].err = "nil" THEN out[f].urls ELSE <<>>
    <3>1. OneRun(f, vs)
      BY <2>1, <2>4 DEF Merged
    <3>2. vs \in Seq(Href)
      <4>1. out[f] \in Outcome
        BY <1>3 DEF TypeInv
      <4> QED BY <4>1, LinkSeq DEF Outcome
    <3>3. Len(vs) \in Nat
      <4> HIDE DEF vs
      <4> QED BY <3>2
    <3>4. vs' = vs
      BY <1>2
    <3> HIDE DEF vs
    <3>5. PICK q \in 0 .. Len(all) :
            /\ q + Len(vs) <= Len(all)
            /\ \A k \in 1 .. Len(all) :
                 IF k \in (q + 1) .. (q + Len(vs)) THEN all[k] = <<f, vs[k - q]>> ELSE all[k][1] # f
      BY <3>1 DEF OneRun
    <3>6. q \in 0 .. Len(all') /\ q + Len(vs) <= Len(all')
      BY <1>1, <3>3, <3>5
    <3>7. ASSUME NEW k \in 1 .. Len(all')
          PROVE  IF k \in (q + 1) .. (q + Len(vs)) THEN all'[k] = <<f, vs[k - q]>> ELSE all'[k][1] # f
      <4>1. CASE k \in 1 .. Len(all)
        BY <1>1, <3>5, <4>1
      <4>2. CASE k \notin 1 .. Len(all)
        <5>1. k \in (Len(all) + 1) .. Len(all') /\ k \notin (q + 1) .. (q + Len(vs))
          BY <1>1, <3>3, <3>5, <4>2
        <5> QED BY <2>2, <5>1
      <4> QED BY <4>1, <4>2
    <3>8. OneRun(f, vs)'
      BY <3>4, <3>6, <3>7 DEF OneRun
    <3>9. vs' = (IF out'[f].err = "nil" THEN out'[f].urls ELSE <<>>)
      BY DEF vs
    <3> QED BY <1>4, <2>4, <3>8, <3>9 DEF Merged
  <2> QED BY <2>3, <2>4
<1>9. \A f \in Engines : EngineInv(f)'
  BY <1>6, <1>7, <1>8 DEF EngineInv
<1> QED BY <1>5, <1>9 DEF IInv

\* Before any goroutine runs.
LEMMA InitInv == Init => IInv
<1> SUFFICES ASSUME Init PROVE IInv
  OBVIOUS
<1>1. Nothing \in Outcome /\ Nothing.urls = <<>> /\ Nothing.err = "nil"
  BY NothingGood DEF Good
<1>2. TypeInv
  <2>1. 0 \in 0 .. MaxPolls
    BY PollsAssumption
  <2>2. <<>> \in Seq(Engines \X Href)
    OBVIOUS
  <2> QED BY <1>1, <2>1, <2>2 DEF Init, TypeInv, Place
<1>3. ASSUME NEW e \in Engines PROVE EngineInv(e)
  <2>1. at[e] = "off" /\ flight[e] = "none" /\ out[e] = Nothing /\ refused[e] = FALSE /\ late[e] = 0 /\ returned = FALSE
    BY DEF Init
  <2>2. Placed(e) /\ Late(e) /\ Unrefused(e)
    BY <1>1, <2>1 DEF Placed, InPlace, Late, Unrefused
  <2>3. Usable(e)
    BY <2>1, NothingGood DEF Usable, Good
  <2>4. Merged(e)
    <3>1. 1 .. Len(all) = {}
      BY DEF Init
    <3> QED BY <2>1, <3>1 DEF Merged
  <2> QED BY <2>2, <2>3, <2>4 DEF EngineInv
<1> QED BY <1>2, <1>3 DEF IInv

LEMMA StartPreserves == ASSUME IInv, Start PROVE IInv'
<1>1. UNCHANGED <<cfg, ctx, flight, out, all, refused, late, polls>> /\ \A e \in Engines : at[e] = "off"
  BY DEF Start
<1>2. TypeInv /\ \A e \in Engines : EngineInv(e)
  BY DEF IInv
<1>3. /\ at' \in [Engines -> Place] /\ returned' \in BOOLEAN
      /\ \A e \in Engines : at'[e] \in {"off", "wait"} /\ (at'[e] = "wait" => e \in cfg.engines)
      /\ returned' => \A e \in Engines : at'[e] = "off"
  <2>1. CASE cfg.Browser /\ cfg.engines # {}
    BY <2>1, <1>2 DEF Start, TypeInv, Place
  <2>2. CASE ~(cfg.Browser /\ cfg.engines # {})
    BY <2>2, <1>1, <1>2 DEF Start, TypeInv
  <2> QED BY <2>1, <2>2
<1>4. TypeInv'
  BY <1>1, <1>2, <1>3 DEF TypeInv
<1>5. ASSUME NEW e \in Engines PROVE EngineInv(e)'
  <2>1. EngineInv(e) /\ at[e] = "off" /\ at'[e] \in {"off", "wait"}
    BY <1>1, <1>2, <1>3
  <2>2. Placed(e)'
    BY <1>1, <1>3, <2>1 DEF EngineInv, Placed, InPlace, Sending
  <2>3. Usable(e)' /\ Merged(e)'
    BY <1>1, <2>1 DEF EngineInv, Usable, Merged
  <2>4. Unrefused(e)' /\ Late(e)'
    BY <1>1, <2>1 DEF EngineInv, Unrefused, Late
  <2> QED BY <2>2, <2>3, <2>4 DEF EngineInv
<1> QED BY <1>4, <1>5 DEF IInv

\* SearchDirect returns, the context ends, or nothing happens.
LEMMA OuterPreserves == ASSUME IInv, Return \/ Cancel \/ UNCHANGED vars PROVE IInv'
<1>1. /\ UNCHANGED <<cfg, at, flight, out, all, refused, late, polls>>
      /\ ctx' = ctx \/ ctx' = "done"
      /\ returned' = returned \/ (returned' = TRUE /\ \A e \in cfg.engines : at[e] = "done")
  BY DEF Return, Cancel, vars
<1>2. TypeInv /\ \A e \in Engines : EngineInv(e)
  BY DEF IInv
<1>3. TypeInv'
  BY <1>1, <1>2 DEF TypeInv
<1>4. ASSUME NEW e \in Engines PROVE EngineInv(e)'
  <2>1. EngineInv(e)
    BY <1>2
  <2>2. Placed(e)'
    BY <1>1, <2>1 DEF EngineInv, Placed, InPlace
  <2>3. Usable(e)' /\ Unrefused(e)' /\ Late(e)'
    BY <1>1, <2>1 DEF EngineInv, Usable, Unrefused, Late
  <2>4. Merged(e)'
    BY <1>1, <2>1 DEF EngineInv, Merged, OneRun
  <2> QED BY <2>2, <2>3, <2>4 DEF EngineInv
<1> QED BY <1>3, <1>4 DEF IInv

LEMMA NextInv == IInv /\ [Next]_vars => IInv'
<1> SUFFICES ASSUME IInv, [Next]_vars PROVE IInv'
  OBVIOUS
<1>1. CASE Start
  BY <1>1, StartPreserves
<1>2. CASE Return \/ Cancel \/ UNCHANGED vars
  BY <1>2, OuterPreserves
<1>3. ASSUME NEW e \in Engines, EngineStep(e) PROVE IInv'
  BY <1>3, AdmittedPreserves, LimiterPreserves, SendPreserves, AbortPreserves, APIPreserves, CollectPreserves,
     YandexStartPreserves, YandexRequestPreserves, YandexEndsPreserves DEF EngineStep
<1>4. ASSUME NEW e \in Engines, PageArrives(e) PROVE IInv'
  BY <1>4, FallBackPreserves, AnswerPreserves DEF PageArrives
<1>5. ASSUME NEW e \in Engines, YandexAnswer(e) PROVE IInv'
  BY <1>5, YandexAnswerPreserves
<1> QED BY <1>1, <1>2, <1>3, <1>4, <1>5 DEF Next

LEMMA SpecInv == Spec => []IInv
BY InitInv, NextInv, PTL DEF Spec

-----------------------------------------------------------------------------
LEMMA InvResults == IInv => ResultsSound
<1> SUFFICES ASSUME IInv PROVE ResultsSound
  OBVIOUS
<1>1. TypeInv /\ \A e \in Engines : EngineInv(e)
  BY DEF IInv
<1>2. \A e \in Engines : out[e] \in Outcome
  BY <1>1 DEF TypeInv
<1>3. TypeOK
  BY <1>1, <1>2 DEF TypeInv, TypeOK, Outcome, Errors, Place
<1>4. NothingLost
  <2> SUFFICES ASSUME returned, NEW e \in Engines
               PROVE  OneRun(e, IF out[e].err = "nil" THEN out[e].urls ELSE <<>>)
    BY DEF NothingLost
  <2>1. at[e] \in {"off", "done"} /\ Merged(e)
    BY <1>1 DEF EngineInv, Placed
  <2>2. CASE at[e] = "done"
    BY <2>1, <2>2 DEF Merged
  <2>3. CASE at[e] = "off"
    <3>1. out[e] = Nothing /\ \A k \in 1 .. Len(all) : all[k][1] # e
      BY <1>1, <2>3 DEF EngineInv, Usable, Merged
    <3>2. (IF out[e].err = "nil" THEN out[e].urls ELSE <<>>) = <<>>
      BY <3>1, NothingGood
    <3>3. Len(all) \in Nat
      BY <1>1 DEF TypeInv
    <3>4. OneRun(e, <<>>)
      <4>1. 0 \in 0 .. Len(all) /\ 0 + Len(<<>>) <= Len(all) /\ (0 + 1) .. (0 + Len(<<>>)) = {}
        BY <3>3, LinkSeq
      <4> QED BY <3>1, <4>1 DEF OneRun
    <3> QED BY <3>2, <3>4
  <2> QED BY <2>1, <2>2, <2>3
<1>5. LinksAreUsable
  <2> SUFFICES ASSUME NEW e \in Engines
               PROVE  /\ out[e].urls # <<>> => out[e].err = "nil"
                      /\ \A k \in DOMAIN out[e].urls : out[e].urls[k] \notin {"none", "", "wrapped"}
    BY DEF LinksAreUsable
  <2>1. DOMAIN out[e].urls = 1 .. Len(out[e].urls)
    BY <1>2 DEF Outcome
  <2> QED BY <1>1, <2>1 DEF EngineInv, Usable
<1> QED BY <1>3, <1>4, <1>5 DEF ResultsSound

\* Whatever the engines answer, and in whatever order their goroutines append:
\* SearchDirect returns all that they found without an error, each engine's
\* results together and in order, and only links a caller can follow.
THEOREM ResultsCorrect == Spec => []ResultsSound
BY SpecInv, InvResults, PTL

LEMMA InvRepetition == IInv => RepetitionJustified
<1> SUFFICES ASSUME IInv PROVE RepetitionJustified
  OBVIOUS
<1>1. CancelStopsRequests
  <2> SUFFICES ASSUME NEW e \in Engines PROVE late[e] <= 1 /\ (late[e] = 1 => cfg.dual)
    BY DEF CancelStopsRequests
  <2>1. Late(e)
    BY DEF IInv, EngineInv
  <2> QED BY <2>1 DEF Late
<1>2. RefusalNotRepeated
  <2> SUFFICES ASSUME NEW e \in Scrapers \ {"ddg"}, flight[e] = "fallback" PROVE ~refused[e]
    BY DEF RefusalNotRepeated
  <2>1. at[e] \in Sending
    BY DEF IInv, EngineInv, Placed, Engines
  <2>2. at[e] \in Running
    BY <2>1 DEF Sending, Running
  <2> QED BY <2>2, NotRefused
<1> QED BY <1>1, <1>2 DEF RepetitionJustified

\* After the context has ended an engine begins at most the dualBrowser's
\* repetition of its request in flight, and a refusal is never repeated.
THEOREM RepetitionCorrect == Spec => []RepetitionJustified
BY SpecInv, InvRepetition, PTL

-----------------------------------------------------------------------------
(* yandexCheckLimit                                                        *)

\* What the counter says of the allowance used.
Cap(n) == IF n <= Limit THEN n ELSE Limit

Clock ==
    /\ month <= now
    /\ \A c \in Callers : currentMonth[c] <= now /\ (pc[c] # "idle" => currentMonth[c] \in Months)

\* Without overlap: the one call in progress finds the counter of its month,
\* or of an earlier one and resets it; the counter is what was let through.
Alone ==
    ~overlap =>
        /\ \A c, d \in Callers : pc[c] # "idle" /\ pc[d] # "idle" => c = d
        /\ \A m \in Months : admitted[m] <= Limit
        /\ \A m \in Months : m > month => admitted[m] = 0
        /\ \A c \in Callers : pc[c] \in {"load", "swap"} => month <= currentMonth[c]
        /\ \A c \in Callers : pc[c] = "swap" => stored[c] = month /\ month # currentMonth[c]
        /\ \A c \in Callers : pc[c] \in {"reset", "add"} => month = currentMonth[c]
        /\ \A c \in Callers : pc[c] = "reset" => admitted[month] = 0
        /\ (\A c \in Callers : pc[c] # "reset") /\ month # 0 => admitted[month] = Cap(count)

\* The calls that will still reset the counter.
Pending == {c \in Callers : pc[c] \in {"swap", "reset"}}

\* In the first month: each reset that has happened has given one allowance
\* away, and the counter says what is used of the present one.
FirstMonth ==
    now = 1 =>
        /\ month = 0 => /\ admitted[1] = 0 /\ count = 0
                        /\ \A c \in Callers : pc[c] \in {"idle", "load", "swap"}
        /\ \A c \in Pending : stored[c] = 0
        /\ Pending = Callers => admitted[1] = 0
        /\ Pending # Callers => admitted[1] <= Limit * (Cardinality(Callers) - 1 - Cardinality(Pending)) + Cap(count)

LimitInv == LimitTypeOK /\ Clock /\ Alone /\ FirstMonth

LEMMA MonthsAre == MaxMonth \in Nat /\ Limit \in Nat \ {0} /\ 1 \in Months /\ \A m \in Months : m \in Nat /\ m # 0 /\ m <= MaxMonth
BY MonthAssumption, LimitAssumption DEF Months

LEMMA CapFacts ==
  /\ \A n \in Nat : Cap(n) \in Nat /\ Cap(n) <= Limit
  /\ Cap(0) = 0
  /\ \A n \in Nat : Within(n + 1) => Cap(n + 1) = Cap(n) + 1
  /\ \A n \in Nat : ~Within(n + 1) => Cap(n + 1) = Limit /\ Cap(n) = Limit
BY LimitAssumption DEF Cap, Within

LEMMA LimitInitInv == LimitInit => LimitInv
<1> SUFFICES ASSUME LimitInit PROVE LimitInv
  OBVIOUS
<1>1. LimitTypeOK /\ Clock
  <2>1. 0 \in 0 .. MaxMonth /\ 1 \in Months
    BY MonthsAre
  <2>2. month \in 0 .. MaxMonth /\ count \in Nat /\ now \in Months /\ overlap \in BOOLEAN
    BY <2>1 DEF LimitInit
  <2>3. /\ pc \in [Callers -> {"idle", "load", "swap", "reset", "add"}]
        /\ currentMonth \in [Callers -> 0 .. MaxMonth] /\ stored \in [Callers -> 0 .. MaxMonth]
        /\ entered \in [Months -> Nat] /\ admitted \in [Months -> Nat]
    BY <2>1 DEF LimitInit
  <2>4. Clock
    BY DEF LimitInit, Clock
  <2> QED BY <2>2, <2>3, <2>4 DEF LimitTypeOK
<1>2. Alone
  <2>1. month = 0 /\ (\A m \in Months : admitted[m] = 0) /\ \A c \in Callers : pc[c] = "idle"
    BY DEF LimitInit
  <2> QED BY <2>1, MonthsAre DEF Alone
<1>3. FirstMonth
  <2>1. Pending = {}
    BY DEF LimitInit, Pending
  <2>2. Cardinality(Pending) = 0 /\ Cardinality(Callers) \in Nat
    BY <2>1, FS_EmptySet, FS_CardinalityType, CallersAssumption
  <2>3. Pending # Callers => Cardinality(Callers) # 0
    BY <2>1, FS_EmptySet, CallersAssumption
  <2>4. \A n \in Nat : Limit * n \in Nat
    BY LimitAssumption
  <2>5. Pending # Callers => 0 <= Limit * (Cardinality(Callers) - 1 - Cardinality(Pending)) + Cap(0)
    <3> SUFFICES ASSUME Pending # Callers PROVE 0 <= Limit * (Cardinality(Callers) - 1 - Cardinality(Pending)) + Cap(0)
      OBVIOUS
    <3>1. Cardinality(Callers) - 1 - Cardinality(Pending) \in Nat
      BY <2>2, <2>3
    <3> QED BY <2>4, <3>1, CapFacts
  <2> QED BY <2>1, <2>5, MonthsAre DEF LimitInit, FirstMonth
<1> QED BY <1>1, <1>2, <1>3 DEF LimitInv

LEMMA PendingFacts ==
  /\ Pending \subseteq Callers /\ Cardinality(Pending) \in Nat /\ Cardinality(Callers) \in Nat /\ IsFiniteSet(Pending)
  /\ Pending # Callers => Cardinality(Callers) - 1 - Cardinality(Pending) \in Nat
  /\ Pending = Callers => Cardinality(Pending) = Cardinality(Callers)
<1>1. Pending \subseteq Callers
  BY DEF Pending
<1>2. /\ IsFiniteSet(Pending) /\ Cardinality(Pending) <= Cardinality(Callers)
      /\ Cardinality(Callers) = Cardinality(Pending) => Callers = Pending
  BY <1>1, FS_Subset, CallersAssumption
<1>3. Cardinality(Pending) \in Nat /\ Cardinality(Callers) \in Nat
  BY <1>2, FS_CardinalityType, CallersAssumption
<1> QED BY <1>1, <1>2, <1>3

\* An allowance more.
LEMMA LimitTimes == \A n \in Nat : Limit * n \in Nat /\ Limit * (n + 1) = Limit * n + Limit
BY LimitAssumption

\* The only call in progress.
LEMMA OnlyCall ==
  ASSUME LimitInv, ~overlap, NEW c \in Callers, pc[c] # "idle"
  PROVE  \A d \in Callers \ {c} : pc[d] = "idle"
BY DEF LimitInv, Alone

LEMMA EnterPreserves == ASSUME LimitInv, NEW c \in Callers, Enter(c) PROVE LimitInv'
<1>1. /\ pc[c] = "idle" /\ pc' = [pc EXCEPT ![c] = "load"] /\ currentMonth' = [currentMonth EXCEPT ![c] = now]
      /\ UNCHANGED <<month, count, now, stored, admitted>>
  BY DEF Enter, Goto
<1>2. LimitTypeOK /\ Clock
  BY DEF LimitInv
<1>3. now \in Nat /\ now <= MaxMonth /\ MaxMonth \in Nat /\ now \in Months
  BY <1>2, MonthsAre DEF LimitTypeOK
<1>4. LimitTypeOK'
  <2>1. overlap' \in BOOLEAN
    BY DEF Enter
  <2>2. entered' \in [Months -> Nat]
    BY <1>2, <1>3 DEF Enter, LimitTypeOK
  <2> QED BY <1>1, <1>2, <1>3, <2>1, <2>2 DEF LimitTypeOK
<1>5. \A d \in Callers : pc'[d] = IF d = c THEN "load" ELSE pc[d]
  BY <1>1, <1>2 DEF LimitTypeOK
<1>6. \A d \in Callers : currentMonth'[d] = IF d = c THEN now ELSE currentMonth[d]
  BY <1>1, <1>2 DEF LimitTypeOK
<1>7. Clock'
  BY <1>1, <1>2, <1>3, <1>5, <1>6 DEF Clock
<1>8. Alone'
  <2> SUFFICES ASSUME ~overlap' PROVE Alone'
    BY DEF Alone
  <2>1. ~overlap /\ \A d \in Callers : pc[d] = "idle"
    BY DEF Enter
  <2>2. /\ \A m \in Months : admitted[m] <= Limit
        /\ \A m \in Months : m > month => admitted[m] = 0
        /\ month # 0 => admitted[month] = Cap(count)
    BY <2>1 DEF LimitInv, Alone
  <2>3. \A d \in Callers : pc'[d] # "idle" => d = c /\ pc'[d] = "load" /\ currentMonth'[d] = now
    BY <1>5, <1>6, <2>1
  <2>4. Cap(count)' = Cap(count) /\ month <= now
    BY <1>1, <1>2 DEF Cap, Clock
  <2> QED BY <1>1, <2>2, <2>3, <2>4 DEF Alone
<1>9. FirstMonth'
  <2>1. Pending' = Pending
    BY <1>1, <1>5 DEF Pending
  <2>2. Cap(count)' = Cap(count)
    BY <1>1 DEF Cap
  <2> QED BY <1>1, <1>5, <2>1, <2>2 DEF LimitInv, FirstMonth
<1> QED BY <1>4, <1>7, <1>8, <1>9 DEF LimitInv

\* A call in the first month, past its entry.
LEMMA FirstMonthCall ==
  ASSUME LimitInv, now = 1, NEW c \in Callers, pc[c] # "idle"
  PROVE  currentMonth[c] = 1 /\ month \in {0, 1}
<1>1. currentMonth[c] \in Months /\ currentMonth[c] <= 1 /\ month <= 1 /\ month \in 0 .. MaxMonth
  BY DEF LimitInv, Clock, LimitTypeOK
<1>2. currentMonth[c] \in Nat /\ currentMonth[c] # 0 /\ month \in Nat
  BY <1>1, MonthsAre
<1> QED BY <1>1, <1>2

LEMMA LoadPreserves == ASSUME LimitInv, NEW c \in Callers, Load(c) PROVE LimitInv'
<1> DEFINE to == IF month # currentMonth[c] THEN "swap" ELSE "add"
<1>1. /\ pc[c] = "load" /\ pc' = [pc EXCEPT ![c] = to] /\ stored' = [stored EXCEPT ![c] = month]
      /\ UNCHANGED <<month, count, now, currentMonth, entered, admitted, overlap>>
  BY DEF Load, Goto
<1>2. LimitTypeOK /\ Clock
  BY DEF LimitInv
<1>3. to \in {"swap", "add"} /\ (to = "swap" <=> month # currentMonth[c])
  OBVIOUS
<1> HIDE DEF to
<1>4. LimitTypeOK'
  BY <1>1, <1>2, <1>3 DEF LimitTypeOK
<1>5. \A d \in Callers : pc'[d] = IF d = c THEN to ELSE pc[d]
  BY <1>1, <1>2 DEF LimitTypeOK
<1>6. \A d \in Callers : stored'[d] = IF d = c THEN month ELSE stored[d]
  BY <1>1, <1>2 DEF LimitTypeOK
<1>7. Clock'
  BY <1>1, <1>2, <1>3, <1>5 DEF Clock
<1>8. Cap(count)' = Cap(count)
  BY <1>1 DEF Cap
<1>9. Alone'
  <2> SUFFICES ASSUME ~overlap' PROVE Alone'
    BY DEF Alone
  <2>1. ~overlap
    BY <1>1
  <2>2. \A d \in Callers \ {c} : pc[d] = "idle"
    BY <1>1, <2>1, OnlyCall
  <2>3. /\ \A m \in Months : admitted[m] <= Limit
        /\ \A m \in Months : m > month => admitted[m] = 0
        /\ month <= currentMonth[c]
        /\ month # 0 => admitted[month] = Cap(count)
    BY <1>1, <2>1, <2>2 DEF LimitInv, Alone
  <2>4. \A d \in Callers : pc'[d] # "idle" => d = c /\ pc'[d] = to /\ stored'[d] = month
    BY <1>5, <1>6, <2>2
  <2> QED BY <1>1, <1>3, <1>8, <2>3, <2>4 DEF Alone
<1>10. FirstMonth'
  <2> SUFFICES ASSUME now' = 1 PROVE FirstMonth'
    BY DEF FirstMonth
  <2>1. now = 1 /\ currentMonth[c] = 1 /\ month \in {0, 1}
    BY <1>1, FirstMonthCall
  <2>2. CASE month = 0
    <3>1. to = "swap" /\ admitted[1] = 0 /\ count = 0
      BY <1>3, <2>1, <2>2 DEF LimitInv, FirstMonth
    <3>2. /\ \A d \in Callers : pc'[d] \in {"idle", "load", "swap"}
          /\ \A d \in Pending' : stored'[d] = 0
      BY <1>5, <1>6, <2>1, <2>2, <3>1 DEF LimitInv, FirstMonth, Pending
    <3>3. Pending' # Callers => (Cardinality(Callers) - 1 - Cardinality(Pending'))  \in Nat
      <4>1. Pending' \subseteq Callers
        BY DEF Pending
      <4>2. /\ IsFiniteSet(Pending') /\ Cardinality(Pending') <= Cardinality(Callers)
            /\ Cardinality(Callers) = Cardinality(Pending') => Callers = Pending'
        BY <4>1, FS_Subset, CallersAssumption
      <4>3. Cardinality(Pending') \in Nat /\ Cardinality(Callers) \in Nat
        BY <4>2, FS_CardinalityType, CallersAssumption
      <4> QED BY <4>2, <4>3
    <3>4. Pending' # Callers => 0 <= Limit * (Cardinality(Callers) - 1 - Cardinality(Pending')) + Cap(0)
      BY <3>3, LimitTimes, CapFacts
    <3>5. Cap(count)' = Cap(0)
      BY <1>8, <3>1
    <3> QED BY <1>1, <2>1, <2>2, <3>1, <3>2, <3>4, <3>5 DEF FirstMonth
  <2>3. CASE month = 1
    <3>1. to = "add"
      BY <1>3, <2>1, <2>3
    <3>2. Pending' = Pending /\ c \notin Pending
      BY <1>1, <1>5, <3>1 DEF Pending
    <3>3. \A d \in Pending' : stored'[d] = 0
      BY <1>6, <2>1, <3>2, PendingFacts DEF LimitInv, FirstMonth
    <3> QED BY <1>1, <1>8, <2>1, <2>3, <3>2, <3>3 DEF LimitInv, FirstMonth
  <2> QED BY <2>1, <2>2, <2>3
<1> QED BY <1>4, <1>7, <1>9, <1>10 DEF LimitInv

LEMMA SwapPreserves == ASSUME LimitInv, NEW c \in Callers, CompareAndSwap(c) PROVE LimitInv'
<1>1. /\ pc[c] = "swap" /\ pc' = [pc EXCEPT ![c] = "reset"]
      /\ month' = IF month = stored[c] THEN currentMonth[c] ELSE month
      /\ UNCHANGED <<count, now, currentMonth, stored, entered, admitted, overlap>>
  BY DEF CompareAndSwap, Goto
<1>2. LimitTypeOK /\ Clock
  BY DEF LimitInv
<1>3. currentMonth[c] \in Months /\ currentMonth[c] <= now
  BY <1>1, <1>2 DEF Clock
<1>4. month' \in 0 .. MaxMonth /\ month' <= now
  BY <1>1, <1>2, <1>3, MonthsAre DEF LimitTypeOK, Clock
<1>5. LimitTypeOK'
  BY <1>1, <1>2, <1>4 DEF LimitTypeOK
<1>6. \A d \in Callers : pc'[d] = IF d = c THEN "reset" ELSE pc[d]
  BY <1>1, <1>2 DEF LimitTypeOK
<1>7. Clock'
  BY <1>1, <1>2, <1>3, <1>4, <1>6 DEF Clock
<1>8. Alone'
  <2> SUFFICES ASSUME ~overlap' PROVE Alone'
    BY DEF Alone
  <2>1. ~overlap
    BY <1>1
  <2>2. \A d \in Callers \ {c} : pc[d] = "idle"
    BY <1>1, <2>1, OnlyCall
  <2>3. /\ \A m \in Months : admitted[m] <= Limit
        /\ \A m \in Months : m > month => admitted[m] = 0
        /\ month <= currentMonth[c] /\ stored[c] = month /\ month # currentMonth[c]
    BY <1>1, <2>1 DEF LimitInv, Alone
  <2>4. month' = currentMonth[c] /\ month \in Nat /\ currentMonth[c] \in Nat
    BY <1>1, <1>2, <1>3, <2>3, MonthsAre DEF LimitTypeOK
  <2>5. admitted[month'] = 0 /\ \A m \in Months : m > month' => admitted[m] = 0
    BY <1>3, <2>3, <2>4, MonthsAre
  <2>6. \A d \in Callers : pc'[d] # "idle" => d = c /\ pc'[d] = "reset"
    BY <1>6, <2>2
  <2>7. pc'[c] = "reset"
    BY <1>6
  <2> QED BY <1>1, <2>3, <2>4, <2>5, <2>6, <2>7 DEF Alone
<1>9. FirstMonth'
  <2> SUFFICES ASSUME now' = 1 PROVE FirstMonth'
    BY DEF FirstMonth
  <2>1. now = 1 /\ currentMonth[c] = 1 /\ month \in {0, 1}
    BY <1>1, FirstMonthCall
  <2>2. Pending' = Pending /\ c \in Pending
    BY <1>1, <1>6 DEF Pending
  <2>3. stored[c] = 0
    BY <2>1, <2>2 DEF LimitInv, FirstMonth
  <2>4. month' = 1
    BY <1>1, <2>1, <2>3
  <2>5. Cap(count)' = Cap(count)
    BY <1>1 DEF Cap
  <2> QED BY <1>1, <2>1, <2>2, <2>4, <2>5 DEF LimitInv, FirstMonth
<1> QED BY <1>5, <1>7, <1>8, <1>9 DEF LimitInv

LEMMA ResetPreserves == ASSUME LimitInv, NEW c \in Callers, Reset(c) PROVE LimitInv'
<1>1. /\ pc[c] = "reset" /\ pc' = [pc EXCEPT ![c] = "add"] /\ count' = 0
      /\ UNCHANGED <<month, now, currentMonth, stored, entered, admitted, overlap>>
  BY DEF Reset, Goto
<1>2. LimitTypeOK /\ Clock
  BY DEF LimitInv
<1>3. LimitTypeOK'
  BY <1>1, <1>2 DEF LimitTypeOK
<1>4. \A d \in Callers : pc'[d] = IF d = c THEN "add" ELSE pc[d]
  BY <1>1, <1>2 DEF LimitTypeOK
<1>5. Clock'
  BY <1>1, <1>2, <1>4 DEF Clock
<1>6. Cap(count)' = 0
  BY <1>1, CapFacts DEF Cap
<1>7. Alone'
  <2> SUFFICES ASSUME ~overlap' PROVE Alone'
    BY DEF Alone
  <2>1. ~overlap
    BY <1>1
  <2>2. \A d \in Callers \ {c} : pc[d] = "idle"
    BY <1>1, <2>1, OnlyCall
  <2>3. /\ \A m \in Months : admitted[m] <= Limit
        /\ \A m \in Months : m > month => admitted[m] = 0
        /\ month = currentMonth[c] /\ admitted[month] = 0
    BY <1>1, <2>1 DEF LimitInv, Alone
  <2>4. \A d \in Callers : pc'[d] # "idle" => d = c /\ pc'[d] = "add"
    BY <1>4, <2>2
  <2> QED BY <1>1, <1>6, <2>3, <2>4 DEF Alone
<1>8. FirstMonth'
  <2> SUFFICES ASSUME now' = 1 PROVE FirstMonth'
    BY DEF FirstMonth
  <2>1. now = 1 /\ currentMonth[c] = 1 /\ month \in {0, 1}
    BY <1>1, FirstMonthCall
  <2>2. month = 1
    BY <1>1, <2>1 DEF LimitInv, FirstMonth
  <2>3. Pending' = Pending \ {c} /\ c \in Pending
    BY <1>1, <1>4 DEF Pending
  <2>4. Cardinality(Pending') = Cardinality(Pending) - 1 /\ Pending' # Callers
    BY <2>3, PendingFacts, FS_RemoveElement
  <2> DEFINE k == Cardinality(Callers) - 1 - Cardinality(Pending)
  <2>5. k + 1 = Cardinality(Callers) - 1 - Cardinality(Pending')
    BY <2>4, PendingFacts
  <2>6. admitted[1] <= Limit * (k + 1)
    <3>1. CASE Pending = Callers
      <4>1. admitted[1] = 0 /\ k + 1 = 0
        BY <2>1, <3>1, PendingFacts DEF LimitInv, FirstMonth
      <4>2. Limit * 0 = 0
        BY LimitAssumption
      <4> QED BY <4>1, <4>2
    <3>2. CASE Pending # Callers
      <4>1. admitted[1] <= Limit * k + Cap(count) /\ k \in Nat /\ admitted[1] \in Nat /\ count \in Nat
        BY <1>2, <2>1, <3>2, PendingFacts, MonthsAre DEF LimitInv, FirstMonth, LimitTypeOK
      <4> HIDE DEF k
      <4>2. Limit * (k + 1) = Limit * k + Limit /\ Limit * k \in Nat /\ Cap(count) <= Limit /\ Cap(count) \in Nat /\ Limit \in Nat
        BY <4>1, LimitTimes, CapFacts, MonthsAre
      <4> QED BY <4>1, <4>2
    <3> QED BY <3>1, <3>2
  <2>7. Limit * (k + 1) + 0 = Limit * (k + 1)
    <3>1. k + 1 \in Nat
      BY <2>3, <2>5, PendingFacts
    <3> QED BY <3>1, LimitTimes
  <2>8. \A d \in Pending' : stored'[d] = 0
    BY <1>1, <2>1, <2>3 DEF LimitInv, FirstMonth
  <2> HIDE DEF k
  <2> QED BY <1>1, <1>6, <2>2, <2>4, <2>5, <2>6, <2>7, <2>8 DEF FirstMonth
<1> QED BY <1>3, <1>5, <1>7, <1>8 DEF LimitInv

\* What a call of the month adds to what was let through.
LEMMA AddIs ==
  ASSUME LimitInv, NEW c \in Callers, Add(c)
  PROVE  /\ currentMonth[c] \in Months /\ admitted \in [Months -> Nat] /\ count \in Nat
         /\ \A m \in Months : admitted'[m] = IF m = currentMonth[c] /\ Within(count + 1) THEN admitted[m] + 1 ELSE admitted[m]
         /\ admitted' \in [Months -> Nat]
<1>1. currentMonth[c] \in Months /\ admitted \in [Months -> Nat] /\ count \in Nat
  BY DEF Add, LimitInv, Clock, LimitTypeOK
<1>2. CASE Within(count + 1)
  BY <1>1, <1>2 DEF Add
<1>3. CASE ~Within(count + 1)
  BY <1>1, <1>3 DEF Add
<1> QED BY <1>1, <1>2, <1>3

LEMMA AddPreserves == ASSUME LimitInv, NEW c \in Callers, Add(c) PROVE LimitInv'
<1>1. /\ pc[c] = "add" /\ pc' = [pc EXCEPT ![c] = "idle"] /\ count' = count + 1
      /\ UNCHANGED <<month, now, currentMonth, stored, entered, overlap>>
  BY DEF Add, Goto
<1>2. LimitTypeOK /\ Clock
  BY DEF LimitInv
<1>3. /\ currentMonth[c] \in Months /\ admitted \in [Months -> Nat] /\ count \in Nat
      /\ \A m \in Months : admitted'[m] = IF m = currentMonth[c] /\ Within(count + 1) THEN admitted[m] + 1 ELSE admitted[m]
      /\ admitted' \in [Months -> Nat]
  BY AddIs
<1>4. LimitTypeOK'
  BY <1>1, <1>2, <1>3 DEF LimitTypeOK
<1>5. \A d \in Callers : pc'[d] = IF d = c THEN "idle" ELSE pc[d]
  BY <1>1, <1>2 DEF LimitTypeOK
<1>6. Clock'
  BY <1>1, <1>2, <1>5 DEF Clock
<1>7. Cap(count)' = Cap(count + 1)
  BY <1>1 DEF Cap
<1>8. Alone'
  <2> SUFFICES ASSUME ~overlap' PROVE Alone'
    BY DEF Alone
  <2>1. ~overlap
    BY <1>1
  <2>2. \A d \in Callers \ {c} : pc[d] = "idle"
    BY <1>1, <2>1, OnlyCall
  <2>3. /\ \A m \in Months : admitted[m] <= Limit
        /\ \A m \in Months : m > month => admitted[m] = 0
        /\ month = currentMonth[c]
    BY <1>1, <2>1 DEF LimitInv, Alone
  <2>4. month \in Months /\ month \in Nat /\ month # 0
    BY <1>3, <2>3, MonthsAre
  <2>5. admitted[month] = Cap(count)
    <3>1. \A d \in Callers : pc[d] # "reset"
      BY <1>1, <2>2
    <3> QED BY <2>1, <2>4, <3>1 DEF LimitInv, Alone
  <2>6. admitted'[month] = Cap(count + 1)
    BY <1>3, <2>3, <2>4, <2>5, CapFacts
  <2>7. \A m \in Months : m # month => admitted'[m] = admitted[m]
    BY <1>3, <2>3
  <2>8. Cap(count + 1) <= Limit
    BY <1>3, CapFacts
  <2>9. \A m \in Months : admitted'[m] <= Limit
    BY <2>3, <2>6, <2>7, <2>8
  <2>10. \A m \in Months : m > month => admitted'[m] = 0
    BY <2>3, <2>4, <2>7
  <2>11. \A d \in Callers : pc'[d] = "idle"
    BY <1>5, <2>2
  <2> QED BY <1>1, <1>7, <2>6, <2>9, <2>10, <2>11 DEF Alone
<1>9. FirstMonth'
  <2> SUFFICES ASSUME now' = 1 PROVE FirstMonth'
    BY DEF FirstMonth
  <2>1. now = 1 /\ currentMonth[c] = 1 /\ month \in {0, 1}
    BY <1>1, FirstMonthCall
  <2>2. month = 1
    BY <1>1, <2>1 DEF LimitInv, FirstMonth
  <2>3. Pending' = Pending /\ Pending # Callers
    BY <1>1, <1>5 DEF Pending
  <2> DEFINE k == Cardinality(Callers) - 1 - Cardinality(Pending)
  <2>4. admitted[1] <= Limit * k + Cap(count) /\ k \in Nat
    BY <2>1, <2>3, PendingFacts DEF LimitInv, FirstMonth
  <2> HIDE DEF k
  <2>5. Limit * k \in Nat /\ Cap(count) \in Nat /\ Cap(count + 1) \in Nat /\ admitted[1] \in Nat /\ Limit \in Nat
    BY <1>3, <2>4, LimitTimes, CapFacts, MonthsAre
  <2>6. admitted'[1] <= Limit * k + Cap(count + 1)
    <3>1. CASE Within(count + 1)
      <4>1. admitted'[1] = admitted[1] + 1 /\ Cap(count + 1) = Cap(count) + 1
        BY <1>3, <2>1, <3>1, CapFacts, MonthsAre
      <4> QED BY <2>4, <2>5, <4>1
    <3>2. CASE ~Within(count + 1)
      <4>1. admitted'[1] = admitted[1] /\ Cap(count + 1) = Cap(count)
        BY <1>3, <3>2, CapFacts, MonthsAre
      <4> QED BY <2>4, <4>1
    <3> QED BY <3>1, <3>2
  <2>7. \A d \in Pending' : stored'[d] = 0
    BY <1>1, <2>1, <2>3 DEF LimitInv, FirstMonth
  <2> QED BY <1>1, <1>7, <2>2, <2>3, <2>6, <2>7 DEF FirstMonth, k
<1> QED BY <1>4, <1>6, <1>8, <1>9 DEF LimitInv

LEMMA MonthPreserves == ASSUME LimitInv, NewMonth \/ UNCHANGED limitVars PROVE LimitInv'
<1>1. /\ UNCHANGED <<month, count, pc, currentMonth, stored, entered, admitted, overlap>>
      /\ now' = now \/ (now < MaxMonth /\ now' = now + 1)
  BY DEF NewMonth, limitVars
<1>2. LimitTypeOK /\ Clock /\ now \in Nat /\ now # 0
  BY MonthsAre DEF LimitInv, LimitTypeOK
<1>3. now' \in Months /\ now <= now' /\ now' \in Nat
  BY <1>1, <1>2, MonthsAre DEF Months, LimitTypeOK
<1>4. LimitTypeOK'
  BY <1>1, <1>2, <1>3 DEF LimitTypeOK
<1>5. Clock'
  BY <1>1, <1>2, <1>3, MonthsAre DEF Clock, LimitTypeOK
<1>6. Cap(count)' = Cap(count) /\ Pending' = Pending
  BY <1>1 DEF Cap, Pending
<1>7. Alone'
  BY <1>1, <1>6 DEF LimitInv, Alone
<1>8. now' = 1 => now = 1
  BY <1>1, <1>2
<1>9. FirstMonth'
  BY <1>1, <1>6, <1>8 DEF LimitInv, FirstMonth
<1> QED BY <1>4, <1>5, <1>7, <1>9 DEF LimitInv

LEMMA LimitNextInv == LimitInv /\ [LimitNext]_limitVars => LimitInv'
BY EnterPreserves, LoadPreserves, SwapPreserves, ResetPreserves, AddPreserves, MonthPreserves DEF LimitNext, BoundReached

LEMMA LimitInvImplies == LimitInv => SequentialLimit /\ OvershootBounded
<1> SUFFICES ASSUME LimitInv PROVE SequentialLimit /\ OvershootBounded
  OBVIOUS
<1>1. SequentialLimit
  BY DEF LimitInv, Alone, SequentialLimit, MonthlyLimit
<1>2. ASSUME now = 1 PROVE admitted[1] <= Limit * Cardinality(Callers)
  <2> DEFINE k == Cardinality(Callers) - 1 - Cardinality(Pending)
             n == Cardinality(Callers)
  <2>1. admitted[1] \in Nat /\ count \in Nat /\ n \in Nat /\ Limit * n \in Nat /\ Limit \in Nat
    BY MonthsAre, PendingFacts, LimitTimes DEF LimitInv, LimitTypeOK
  <2>2. CASE Pending = Callers
    <3>1. admitted[1] = 0
      BY <1>2, <2>2 DEF LimitInv, FirstMonth
    <3> QED BY <2>1, <3>1
  <2>3. CASE Pending # Callers
    <3>1. admitted[1] <= Limit * k + Cap(count) /\ k \in Nat /\ k + 1 <= n
      BY <1>2, <2>3, PendingFacts DEF LimitInv, FirstMonth
    <3> HIDE DEF k, n
    <3>2. Limit * (k + 1) = Limit * k + Limit /\ Limit * k \in Nat /\ Cap(count) <= Limit /\ Cap(count) \in Nat
      BY <2>1, <3>1, LimitTimes, CapFacts
    <3>3. Limit * (k + 1) <= Limit * n
      BY <2>1, <3>1
    <3>4. admitted[1] <= Limit * n
      BY <2>1, <3>1, <3>2, <3>3
    <3> QED BY <3>4 DEF n
  <2> QED BY <2>2, <2>3
<1> QED BY <1>1, <1>2 DEF OvershootBounded

\* A refused call of a sequential caller has met the whole allowance.
LEMMA RefusedAtLimit ==
  ASSUME LimitInv, [LimitNext]_limitVars, NEW c \in Callers,
         ~overlap, pc[c] = "add", pc'[c] = "idle", admitted' = admitted
  PROVE  admitted[currentMonth[c]] >= Limit
<1>1. pc \in [Callers -> {"idle", "load", "swap", "reset", "add"}]
  BY DEF LimitInv, LimitTypeOK
<1>2. Add(c)
  <2>1. ASSUME NEW d \in Callers, Enter(d) \/ Load(d) \/ CompareAndSwap(d) \/ Reset(d) PROVE FALSE
    BY <1>1, <2>1 DEF Enter, Load, CompareAndSwap, Reset, Goto
  <2>2. ASSUME NEW d \in Callers, Add(d) PROVE d = c
    BY <1>1, <2>2 DEF Add, Goto
  <2>3. ~(NewMonth \/ BoundReached \/ UNCHANGED limitVars)
    BY DEF NewMonth, BoundReached, limitVars
  <2> QED BY <2>1, <2>2, <2>3 DEF LimitNext
<1>3. /\ currentMonth[c] \in Months /\ admitted \in [Months -> Nat] /\ count \in Nat
      /\ \A m \in Months : admitted'[m] = IF m = currentMonth[c] /\ Within(count + 1) THEN admitted[m] + 1 ELSE admitted[m]
  BY <1>2, AddIs
<1>4. ~Within(count + 1)
  BY <1>3
<1>5. month = currentMonth[c] /\ month # 0
  BY <1>3, MonthsAre DEF LimitInv, Alone
<1>6. \A d \in Callers : pc[d] # "reset"
  BY OnlyCall
<1>7. admitted[currentMonth[c]] = Cap(count)
  BY <1>5, <1>6 DEF LimitInv, Alone
<1> QED BY <1>3, <1>4, <1>7, CapFacts, MonthsAre

\* The monthly allowance of yandexCheckLimit for every number of callers, calls
\* and months: kept exactly while calls do not overlap, across month changes in
\* the middle of a call too, nobody being refused early; and overdrawn in the
\* first month by at most one allowance per caller when they do.
THEOREM AllowanceKept == LimitSpec => Allowance
<1>1. LimitSpec => []LimitInv
  BY LimitInitInv, LimitNextInv, PTL DEF LimitSpec
<1>2. LimitSpec => [](SequentialLimit /\ OvershootBounded)
  BY <1>1, LimitInvImplies, PTL
<1>3. LimitInv /\ [LimitNext]_limitVars =>
        [\A c \in Callers :
           (~overlap /\ pc[c] = "add" /\ pc'[c] = "idle" /\ admitted' = admitted)
             => admitted[currentMonth[c]] >= Limit]_limitVars
  BY RefusedAtLimit
<1>4. LimitSpec => NeverShort
  BY <1>1, <1>3, PTL DEF LimitSpec, NeverShort
<1> QED BY <1>2, <1>4, PTL DEF Allowance
=============================================================================
