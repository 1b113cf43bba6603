# go-engine: TLA+ models, checks and proofs

go-engine is a library for web search and page fetching: it queries several
search engines concurrently, fetches pages through direct, proxied and rendered
tiers, extracts and chunks text, and drives LLM calls over what it found. This
directory models the parts of it that keep shared state or run concurrently.
Each module is a translation of the Go source; `PROJECT.json` maps every
definition to its lines.

## 1. Inventory

| Component | State | Operations | What is hard | Correct when |
|---|---|---|---|---|
| `fetch.DirectBlockCache` (`fetch/blockcache.go`) | map host → unblock-at, insertion-order slice, clock | `IsBlocked` (deletes expired entries lazily), `Mark`, `Unmark`, `evictOldest` | the slice is not cleaned on lazy expiry: stale slots | at most `cap` hosts, a victim is always found, Marks are lost only for the documented reasons |
| `search.SearchDirect` (`search/direct.go`, `direct_runners.go`, `pacer.go`) | per call: legs (two goroutines each), contexts, result channel, `DirectStats`, render semaphore; shared: block cache | launch loop, pacing, request, select race, `collectResults`, `handleSourceError`, early return, `runOxEscalation` | four ways to end a leg race each other; calls share the cache | every leg counted once, only an engine's own timeout Marks it, renders bounded, calls return, goroutines do not leak |
| `fetch.Fetcher` (`fetch/fetcher.go`, `blocksignals.go`, renderers) | block cache, retry tracker; per call: tier, context, attempt | `FetchBodyWithHeaders`: tracker check, direct tier, proxy tier with `RetryDo`, fallbacks, record | check and record are far apart; the context may end in any tier | failures bounded, permanent URLs quarantined, hardly a direct request to a Marked host, calls wind down and return |
| go-stealth `RetryTracker`, `RetryDo` (vendored) | url → attempts, permanent flag, age | `ShouldRetry`, `RecordAttempt`, `RecordSuccess`, retry loop | lazy eviction, flag overwritten by the last error | see Fetcher |
| `search.MarginaliaBudget` (`search/marginalia.go`) | day, spent, gauge | `Acquire`, construction | midnight and restart between grant and request, a request that is repeated without the proxy | daily grants ≤ limit × (restarts + 1), at most two requests for each, the gauge never overstates |
| Yandex API client (`websearch/yandex*.go`) | two atomics: month, count; polled operations | `yandexCheckLimit`, start request, poll loop | four atomics that are not atomic together; a client without timeout | no more than `MonthlyLimit` requests a month; a poll ends |
| Reddit tiers and OAuth token (`websearch/reddit*.go`, `search/reddit.go`, `direct_runners.go`) | cached token and expiry under a mutex | `Token`, `Invalidate`, tier chain | late 401s, mutex held across a request | one refresh at a time, no expired or denied token handed out |
| `search.DualBrowser` | none | primary, then a request without the proxy | which error falls back; no context is looked at | repeats for proxy failures only, once |
| `websearch` engines (DDG, Startpage, Brave, Bing, Yep) | none | one to three requests, challenge detection, which link of an entry is taken | refusals between requests, two page layouts, redirects | refusals are reported, no link is empty or wrapped |
| `websearch.SearchDirect` | shared slice, limiters | one goroutine per engine | concurrent appends, cancellation, an engine that never returns | nothing lost, returns |
| `pipeline` (`run.go`, `search.go`, `fetch.go`, `output.go`) | channels, semaphore, results by index | source fan-out, `ParallelFetch`, prompt, output | early return, hung sources, panics, three stages that number the same results | no send after close, delivered results are kept, every URL gets its own answer, a verified fact cites a listed source, `Run` returns |
| `llm` client (`client.go`) and go-kit chain and cooldown (vendored) | endpoints, two maps under an RWMutex | configuration → endpoints, chain walk, key rotation, cooldown windows and their events | the table changes between scan and loop, between RLock and Lock and between check and attempt; events are fired after the unlock | never neither answer nor error, one dead hop per window and call, windows bounded, announced once and ended by time or success |
| `llm` fact verification (`factverify.go`) | none | number rule, quotes, sources | separators, signs, zeros, versions | a number is covered exactly if its value is in the quote |
| fusion, dedup, filters (`websearch`, `search`, `imagesearch`) | none | reciprocal-rank fusion, near-duplicates, score and domain filters | order of arrival, chains of duplicates, thresholds | agree with their reference statements |
| `imagesearch.MultiSearch` | results by index | engines with a fallback doer | repeated fallback | every engine that found something is heard |
| `text` | none | chunker, token budget; classification, cleaning | progress of the chunker, rounding | terminates, covers the text, fetched contents keep the budget |
| `sources`, `sources/gosearch` | availability flag | health check, search | late answers overwrite newer ones | the flag is advisory |
| `extract` | none | chain of extractors | third-party HTML processing | falls through to the last extractor |
| `metrics`, `webtext` | counters | wrappers | – | – |

**Interactions.** `SearchDirect` and `Fetcher` each own a `DirectBlockCache`,
keyed by engine label in the one and by host in the other, and both rely only on
what `BlockSet` states. `SearchDirect` runs `runMarginalia`, which draws on
`MarginaliaBudget` (`InnerShed` is a refused `Acquire`), and `runReddit`.
`Fetcher` calls the vendored `RetryTracker` and `RetryDo`. The engine functions of
`SearchDirect` are those of `websearch`, through a `DualBrowser`. The `pipeline`
calls sources, `ParallelFetch` (with the Fetcher), and the LLM client, whose answer
goes through fact verification before it is numbered with the sources.

The hazards this inventory leads to are listed in `PROJECT.json`, each at its line.

## 2. Plan

Modelled first is what is shared and concurrent and what the other parts build on.

1. `DirectBlockCache` with its abstract specification `BlockSet`: done, proved.
2. `SearchDirect`, over `BlockSet`'s promise: done, its safety proved.
3. `Fetcher` with retry tracker, retry loop and renderers: done, its safety proved.
4. `MarginaliaBudget` and `YandexLimit`: done, proved.
5. `Reddit` (token cache, late 401s, tier chain): done, its safety proved.
6. `ParallelFetch`, and `Pipeline` which runs it: done, safety proved.
7. `LLMConfig` and `LLMChain`: done, safety proved.
8. `WebDirect` (scrapers, Yandex polling, `DualBrowser`): done, safety proved.
9. Pure algorithms (`Ranking`, `FactNumbers`, `Text`): done, checked over bounded
   inputs and proved for inputs of any size.

Left: a clock that steps back in `MarginaliaBudget`, the `Fallback` and
`RateLimited` wrappers of `websearch` and the deep variants of `Summarize` are worth
modelling; the constant `Returns` of `SearchDirect`, what its engines can answer, could
be derived from `WebDirect`.

## 3. Modules and the code

**`BlockSet`** is what a block cache promises its callers: a set of blocked keys
and a size. Only `Mark` adds a key, and a key is pushed out only by the Mark of
another one in a full cache; keys also leave by `Unmark` or expiry.

**`DirectBlockCache`** has the three fields of the Go struct (`items`, `order`, and
`now` for `time.Now()`). Every method runs under the mutex and is one action;
`Lookup` is the state change of `IsBlocked` (lazy deletion from `items`, not from
`order`), `MarkNewFull` a Mark that evicts. `EvictedItems`/`EvictedOrder` say what
the loop of `evictOldest` does: it drops slots up to and including the first one
whose host is in the map. `Abs` instantiates `BlockSet` with the hosts `IsBlocked`
answers TRUE for. `MCDirectBlockCache` adds the history `older`: which tracked host
was inserted before which.

**`SearchDirect`** follows a call through `phase`: `launch` → `collect` → `escalate`
→ `render` → `done`. `leg[c][e]` is `runSourceWithTimeout`: the `inner` goroutine
(waiting for pacer or limiter, requesting, exited), the `outer` one (in its select,
sent), the cause with which `srcCtx` ended, and the buffered channel `done`. A leg's
context ends by its own timer (`PerSourceTimeout`), by the caller (`CallerEnds`) or
by early return (`Collect` → `EndLegs`). `Collect` is one round of `collectResults`
with `handleSourceError`: classification, counting, Mark and early cancel.
`EscalateCheck` looks up one label of the allowlist and does its TryAcquire; in
the code all lookups precede all acquires, but no render starts before the last
acquire, so the slots a label sees depend on the labels before it only. The answers an engine can
give by itself are the constant `Returns`: requests and HTML parsing are data here.

**`Fetcher`** follows `FetchBodyWithHeaders` through `route` → `dial` → `direct` →
`retry` ⇄ `proxy` → `fallback` ⇄ `render` → `record`. A request is two steps, so
that the context or another call can end in between. The body of a response is
told apart by what `classifyBlock` looks for. A response with an error
has status 0, since both stealth tiers drop what `DoCtx` returns beside an error, or 200
when `fetchViaHTTP` could not read the body. A body that is a challenge page with
status 200, with no proxy to escalate to, is returned as `HttpStatusError{200}`,
as in the code. `stale` on a tracker entry says that its TTL is over; `ShouldRetry`
evicts such entries unless they are permanent. `RetryDo` sees statuses and transport
errors; the body of a 200 is read after it, so a failure there is not retried
(`Retried`). `seen`, `late` and `stray` (direct requests to a host since it was Marked)
are history.

**`MarginaliaBudget`** separates `Acquire` (`Grant`, `Shed`) from the request
(`Send`, `GiveUp`) so that `Midnight` and `Restart` come between. The request goes
through the `dualBrowser` of `SearchDirect`: its answer is taken (`Answered`), or it is
sent once more without the proxy (`Fallback`), under the same grant. `granted`, `sent`
and `restarts` are history per day. Its specification is `BudgetSpec`, so that its
proofs can stand beside those of `SearchDirect`, whose Marginalia legs draw on it.

**`Reddit`** is `runReddit` with a token manager configured: `Token` (`TokenCached`,
`TokenRequest`, `TokenAnswer`, `TokenFails`), the search request of `SearchOAuth`,
`Invalidate`, and the cookie and render tiers. `mu` is the manager's mutex, held from
`TokenRequest` to its answer; `TokenCached` and `Invalidate` are one step each, since
they hold it without waiting for anything. A token is a number, `dies` the time the
server gives up on it, counted from the request, while the cache counts its window
from the answer. `lapsed`, `dropped` and `denied` are history. `Revoke` is the server's.
An outcome of a tier is told apart only by where the chain goes on.

**`YandexLimit`** has one action per atomic operation of `yandexCheckLimit`
(`Load`, `CompareAndSwap`, `Reset`, `Add`); its specification is `LimitSpec`. `entered`, `admitted` and `overlap` are
history.

**`ParallelFetch`** has one goroutine per URL: `Acquire` a token, the fetch
(`Fetched` with an answer or an error, or `Panics`, whose deferred recover stores the
result), `Release`, `WgDone`.
`urls`, `sem` and `results` are the variables of the function; `returned` is `wg.Wait`.

**`Pipeline`** extends it with `Run`. `phase` goes `start` → `collect` → `searched` →
`fetching` → `summarize` → `returned`. A source is the two goroutines of
`runPipelineSourceWithTimeout`; those in `Hung` never return and ignore their
context. A result is its URL, blank or repeated ones included, and stands for its
snippet and content too, so that a mix-up between the stages is visible. `uniqueURLs` keeps the first place of
every non-blank URL, in order; that there are at most `MaxURLs` different ones
(`BoundAssumption`) bounds what `ParallelFetch` is called with. `Gather`
builds the prompt from the fetch results, `Summarize` lets the model answer any
facts, quoting any text of the prompt and citing any numbers, listed or not, and runs the
verification of facts and `BuildSearchOutput`; `FormatOutput` cuts to `MaxSources`.

**`LLMConfig`** turns the options of `New`/`NewOptional` into the endpoints of the
chain: proxies × models, or a chain on one base URL, or a rotation of keys, filtered
by what each proxy serves. **`LLMChain`** runs calls over them. A critical section or
an HTTP attempt is one step: `CoolingRead` and `CoolingLock` are the two halves of
`cooling()`, `Begin` the attempt it allows, `Probe` the attempt when the whole chain cools, `Exhausted` the end of
the loop with its guard against a chain that cooled in between. `recordFailure`,
`recordSuccess` and `Clear` change the maps and count the events they decide to fire
(`entries`, `recoveries`): the code fires them after the unlock, each in a goroutine of
its own and in no order, so nothing is said about when they arrive. An HTTP outcome
is told apart by where `executeInner` goes on. `attemptedAt`, `skippedAt` and
`cooledAt` are history.

**`WebDirect`** is `websearch.SearchDirect` with its engines request by request:
limiter, homepage, token, `d.js` or result page, `flight` being the request under way
and `FallBack` the repetition by `dualBrowser`. A page is its status, the challenge
words in it, whether it is well formed, and one entry with its links; `StatusError`,
the challenge tests and the link rules of each parser (`bingUnwrapURL` among them) are
operators on it. `YandexPost`, `YandexPoll`, `YandexTimeout` and `YandexCtxEnds` are
the asynchronous API; `YandexAnswer` is its server.

In **`Text`**, `Shown` is what `BuildSourcesText` writes for a source: its content, cut to
its share, or its snippet, which is neither cut nor counted. `FactNumbers` starts from the
matches of `factNumberRe`; which runs of a text match (its word boundary drops the 10 of
`10k`) is not modelled.

**`Ranking`**, **`FactNumbers`** and **`Text`** hold operators without state, each
beside a statement of what it has to achieve that does not follow its algorithm:
fusion by a sum over occurrences, filters by counting, numbers by their value as a
number of thousandths, chunks by the positions they cover. A loop whose body depends on
what it has done so far is a recursive function of its index (`KeptByDomain`,
`CompareAll` and `markDuplicates`, `Join`, `Starts`); a loop that appends what passes a
test is `InOrder`, a sort is `Arrange`. A URL that is empty, and the domain of one that
does not parse, is `"none"`; separators and white space are named (`"dot"`, `"comma"`,
`"space"`, `"white"`). Scores are scaled to integers, so comparisons are exact where
floats round; from rank 3 on a scaled score is rounded down, which no statement about
fusion depends on. **`MCAlgorithms`** enumerates their inputs beside the instance of
`WebDirect`.

Operators marked "Mutant" are plausible bugs of the definition that follows them.
No specification uses them; `PROJECT.json` names, for each property, the one that
TLC must catch. A property that has several named parts has a mutant for each part
that could go wrong separately.

## 4. Runs

A property listed in `PROJECT.json` may be the conjunction of named parts, given in
brackets.

| Run | Shows |
|---|---|
| `block_cache` | three hosts, capacity two: bound and victim (`Inv`), losses, first-in-first-out eviction as long as no host has two slots, and that the cache implements `BlockSet` |
| `search_direct` | one call, three engines (one rate limited, one budgeted, two in the render allowlist): accounting, timeouts (`TimeoutClassified`: `TimeoutIsOwn`, `SelectRaceCollapsed`), render bound, early return, while Marks may expire |
| `search_direct_shared` | two calls on one engine: the escalation of one overlooks an engine it has Marked only when the other's render of it delivered nothing (`OverlookedWasTried`); `GoroutinesEnd` (`Terminates`, `InnerExits`) although the engine may hang |
| `fetcher` | two fetchers, two URLs of one host (one proxy-first), no renderer: overshoot of the attempts, quarantine of permanent URLs, and the direct requests that reach a Marked host from calls that had looked it up before (`StrayBound`) |
| `fetcher_render` | two fetchers, proxy and all renderers: cancelled calls wind down, the site's own status decides about permanence, every call returns |
| `marginalia_budget` | two callers, three days, a restart per day: spend and gauge (`BudgetConsistent`), requests and their repetitions across midnight |
| `reddit` | two callers, three tiers, three calls, a clock and revocations: single-flight refresh, no expired and no denied token handed out, every call returns |
| `yandex_limit` | three callers and a month change: exact limit without overlap, bounded overshoot in the first month (`Allowance`) |
| `yandex_race` (violation, code bug) | the caller that won the `CompareAndSwap` at process start is delayed before its `Store(0)`, which then wipes a request counted meanwhile: more than `MonthlyLimit` requests |
| `pipeline` | three sources, one hung: `SourcesSound` (no send after close, only counted results, delivered ones kept, early return reaches all), `FetchSound` (bound, tokens, results by index), `CitationsSound` (every URL found is fetched once, content shown was fetched, a verified fact cites a listed source its quote is from), and `GoroutinesEnd` |
| `llm_chain` | two calls, five configurations, a clock: `AnswerSound` (never nil with nil, one attempt per window and model), `CooldownSound` (failures, bound, events that pair up), `WindowsKept` (ended by time or success only, one entry event per window), `ChainEnds` (every endpoint looked at, calls return) |
| `web_search` | six configurations of the engines: `ResultsSound` (each engine's results in one piece and in order, no empty or wrapped links), `RepetitionJustified` (cancellation, refusals), `Returns`; and the algorithms over bounded inputs: `Ranked` (fusion, images, filters, duplicates), `Numbers`, `TextKept` (chunks, budgets of fetched contents) |

Deadlock is checked in every passing run but three. `AllDone` and `BoundReached` are stuttering
steps that are enabled only when every call has returned (and, in the second
case, the bound has been reached), so any other stop is an error. `pipeline`,
`llm_chain` and `web_search` follow calls that end, and the clock of the second is
bounded; `GoroutinesEnd`, `ChainEnds` and `Returns` say that they do not end early.

**Bounds.** Capacity two with three hosts is the smallest cache in which a Mark
evicts while a stale slot and a live one compete; `MaxTime = 6` lets a host expire
and return several times with `TTL = 1`. One call with three engines has every
pair of ways to end a leg and one engine more than needed to reach
`EarlyReturnAt = 2`; `OxConcurrency = 1` with two allowlisted engines forces a lost
TryAcquire. Interference between calls goes through the block cache of one engine
only, so two calls on one engine show it. `AttemptCap = 4` is above the proved
bound `MaxAttempts - 1 + |Fetches| = 3`, so it never hides an overshoot in the run
without renderers. Three days have a day with a past and a future. Four Yandex
calls in a month exceed `Limit × |Callers| = 3`. Three Reddit calls of two callers are
enough for a late 401 that drops the token another call has just refreshed;
`Lifetime = 3` with `Margin = Latency = 1` lets a token lapse and be renewed before
`MaxTime = 5`. In `pipeline` one source repeats a URL and has a blank one, one fails
beside a result, one hangs, and `EarlyReturnAt = 3` is reached by the first; one fetch
slot makes the others wait. In `llm_chain` two calls and `FailThreshold = 2` let one
call open a window under the other, a configured default of 3 and a Retry-After of 4
exceed `CooldownMax = 2`, and three ticks let a window of one expire and reopen. In
`web_search` each engine meets every kind of page its code tells apart; two or three
engines run together, since they share only the slice. The algorithms get every input
of the sets in `MCAlgorithms`: three results or sets of up to three entries, texts of up
to seven runes of three kinds, numbers of up to three groups. The theorems of section 5
have no such bounds.

**Fairness.** `SearchDirect!Fairness`: runnable goroutines are scheduled, the
per-source timer fires (`WithTimeoutCause`), and a render returns
(`OxBrowserFetch` gets a context with a deadline). Nothing is assumed of engines:
`Terminates` holds although they may hang. `InnerExits` has as its hypothesis
`EnginesReturn`, which the timeout of the HTTP clients gives. `Fetcher!Fairness`:
every step of a call is taken at last, since every request has a client timeout;
nobody has to call and no context has to end. `Reddit!Fairness`: requests end by
their client timeout, and a `sync.Mutex` hands itself to a waiter that has starved
(strong fairness of the locking steps). `Pipeline!Fairness`: goroutines are scheduled,
timers fire, and sources that are not hung, fetches and the LLM client return; neither
a hung source nor the caller's context is relied on. `LLMChain!Fairness`: an HTTP
attempt ends by the client timeout. `WebDirect!Fairness`: both doers bound a request by
a client timeout. The Yandex requests use `http.DefaultClient`, which has none, so
nothing is assumed of them, and `Returns` names the one way in which a call may hang.

## 5. Proofs

For every value of the constants satisfying the named assumptions:

* **`DirectBlockCache_proofs`**: `InvHolds`, `CapBoundHolds`, `LossOnlyByUnmarkHolds`,
  `Refinement`. `CapBound` is not inductive: `evictOldest` removes a host only if
  `order` still has a slot for one. `Inv` adds `ItemsInOrder`, every tracked host has
  a slot. That is preserved because lazy expiry only adds slots without a host, and
  `Unmark` removes one slot together with its host. `Unmark` removes the *first*
  slot of the host, so any later duplicate is left behind, which is harmless for
  `Inv`. The refinement maps each method to the `BlockSet` step of the same name
  and the clock to `Expire`. `EvictsOldestHolds` is about the specification with the
  history `older` (`MCSpec`): the *last* slots of the tracked hosts are in the order
  of insertion (`SlicesInsertion`), whatever stale and repeated slots come before, and
  when no host has two slots the first slot of a tracked host is its last one.
* **`Fetcher_proofs`**: `TypeCorrect` (with the index into the renderers),
  `AttemptsBoundHolds`, `PermanentQuarantineHolds`, `StrayBoundHolds`,
  `WindsDownHolds`, `PermanentIsPrimaryHolds`. The recorded attempts alone are not inductive; counted
  together with the calls in flight to the URL they are, because `Record` moves a
  call from the second to the first and `Start` admits a call only below
  `MaxAttempts`. `WindsDown` needs the count tier by tier (`Drained`): a call that is
  not past its primary tier has issued at most one late request, so only the first
  renderer can add another. `StrayBound` counts the direct requests since the Mark
  together with the calls about to send one: the Mark comes from a call that is past its
  own, and while it stands `Route` adds none. `PermanentIsPrimary` needs that the error and the status
  seen last agree from the end of the primary tier on (`Classified`), which no failed
  renderer changes.
* **`Reddit_proofs`**: `SingleFlightHolds`, `HandedOutAliveHolds`,
  `DeniedNeverReusedHolds`. `SingleFlight` needs to know that the cache is empty while
  a request is under way (`Pending`), which holds because the requester is the one
  holder of the mutex (`Holder`). That a cached token outlives its window
  (`WindowCovered`) rests on `MarginAssumption`: the client gives up on a token
  request within `refreshMargin` (60 s against the 20 s of go-stealth), and tokens
  live longer than it. A denied token is never cached again (`DeniedGone`), since
  `Invalidate` empties the cache in the step that denies it.

* **`SearchDirect_proofs`**: `AccountingCorrect`, `TimeoutsClassified`,
  `EarlyReturnCorrect`, `RenderBoundCorrect`, `OverlookedOnlyIfTried`, for any number of
  concurrent calls. `Inv` follows a leg's result: the channel holds one message of
  each leg that has sent and is not counted (`ChannelInv`), so `Attempted + Shed` is
  the number of counted legs (`StatsInv`), and when the collector stops nothing is
  left (`DrainedInv`). A message with the per-source cause comes from a leg whose own
  timer fired; that rests on `ReturnsAssumption`, that no engine returns the package's
  private error. The early return reaches every leg because the collection starts
  after the last launch (`LaunchInv`): no leg starts under a cancelled call.
  `OverlookedOnlyIfTried` has the hypothesis that Marks do not expire under the calls
  (a call takes seconds, the TTL is ten minutes). What is proved by induction is that a
  Mark of a call stays until its renders start, or another call's render of the engine
  delivered nothing (`Promoted`).
  The same module has `BudgetInv`, `DailySpendHolds` and `DailyRequestsHolds` about
  `BudgetSpec` of `MarginaliaBudget`. `Window` connects the counter, which forgets, with
  the history: what was granted in the current window is at most
  `Limit × restarts + spent`, and no later day has grants. `BudgetConsistent` also has
  the gauge, published in the step that grants or sheds. For the requests,
  `Requests` counts two for each pending grant and one for each repetition that may
  still come with those sent: midnight starts with at most two per caller, and later each
  of them belongs to a grant of the same day.
* **`Pipeline_proofs`**: `FetchCorrect` about `ParallelFetch` alone. The tokens in the
  semaphore are the goroutines between acquire and release, and a goroutine past its
  fetch has stored the result of its own URL, panics included. `RunFetchesSoundly` carries
  this over to `Run`, which calls `ParallelFetch` once, on a list its specification allows
  (`UniqueURLs`, `FetchSlice`), and leaves its variables alone otherwise. `SearchCorrect`, `CitationsCorrect`: `MessageOnce` is
  the counterpart of `ChannelInv`; `Provenance` and `PhaseOK` connect what is collected
  with the sources counted, and `DeliveredNext` that what was appended stays where it is.
  For the citations, the prompt, the haystacks and the
  output all number the collected results, which no later stage changes; a fact is verified
  through some number it cites, and the theorem is about that one. That every
  page found is fetched exactly once (`EachPageOnce`) rests on what `uniqueURLs`
  returns: each non-blank URL at one index.
* **`LLMChain_proofs`**: `AlwaysAnswers`, `CooldownConsistent`, `WindowsCorrect`
  (with `WindowKept` and `EventPerWindow`), `ChainWalked`. `NeverNilNil` needs that a call
  that has attempted something carries an error. `OneHopPerWindow` needs that the
  model a call is about to attempt is in none of the windows its attempts have met
  (`HopInv`): `cooling()` has seen the last of them closed, and one opened since is new. `CooldownSound` is by
  counting: `Clear` fires a recovery exactly when an entry leaves the map. `ChainWalked` is the safety
  part of `ChainEnds`: the endpoints a call has attempted or skipped are exactly those
  before the index of its loop (`Walked`).
* **`WebDirect_proofs`**: `ResultsCorrect`, `RepetitionCorrect`, for
  any configurations and result entries. `IInv` says of each engine where it can be and
  what is in flight there (`Placed`), that its outcome is empty until it ends and usable
  after (`Usable`), that its results are in the shared slice in one piece exactly once
  it has collected (`Merged`), that a scraper other than DDG is refused only by the page
  it ends with (`Unrefused`), and that a late request is a repetition after which no
  first one follows (`Late`). `AllowanceKept` is about `LimitSpec` of `YandexLimit`,
  which a Yandex search passes first. Without overlap (`Alone`) the counter is what the
  month has let through, up to the limit, except between swap and reset. In the first
  month (`FirstMonth`) every reset that has happened gives one allowance away, and the
  calls that may still reset (`Pending`) were all in progress before the first swap.
  `MonthAssumption` (months 1 to 12) is `time.Month`; `CallersAssumption` that there
  are finitely many callers.

* **`Algorithms_proofs`**: the pure algorithms, for inputs of any size. `FusionSound`
  (any result sets, natural weights), `ImagesSound` (any engines; a failed call has no
  images, as the Go engines return), `ScoreFilterSound`, `DomainFilterSound` (a limit of
  at least one: with none, every domain is lost), `DedupFilterSound` (integer scores,
  finite bags of words, any threshold `p/q`), `NumbersSound` (any digit groups),
  `ChunkerSound` (a positive chunk size: with zero the text is lost, section 6),
  `BudgetSound` (a positive ratio, runes of at least one byte). `RankedHolds`,
  `NumbersHolds` and `TextKeptHolds` are the run's properties: its inputs never change
  (`InputFixed`) and satisfy these hypotheses.

  The library's induction theorems cannot be instantiated here, so induction over an
  index is by its least counterexample: `FirstIndex`, from the well-foundedness of `<`
  on the naturals, gives `Upto`, induction up to `N` for a set of indices. A recursive
  function is a `CHOOSE`, so each loop first needs a solution of its recursion
  (`IterExists`). `SumStep` to `SumMap` do the same for sums over a finite set: a sum can
  be taken apart at any element, and does not depend on the names of its elements, which
  is why the order in which result sets arrive does not matter to a fused score. What the
  algorithms then rest on:
  - `Arranged`: a strict total order of a finite set lists it, by the number of
    members before each one. `SeenOrders` provides that order for URLs of equal score.
  - `SortedBelow`: two descending lists of the same scores agree place by place, so the
    cut to `max` of `MultiSearch` has the same scores in every order of completion,
    although URLs of equal score may be exchanged by it.
  - `LoopInv`, the invariant of the two loops of `markDuplicates`: of each pair compared
    that is similar one is removed, and every set of results that contains all that may
    supersede its members still has one. It holds because a comparison removes the one of
    two results that the other supersedes (`CompareStep`).
  - `SameDigits`: two rows of digits spell the same number exactly when they agree place
    by place (`Peeled` takes a number apart from its last digit), so `canonicalNumber`,
    which trims zeros and the sign of zero, is the same for two readings exactly when
    their values are (`CanonicalByValue`).
  - `NextChunkSound`: a round of `Chunk` advances, and its chunk holds the words it
    advances over. Then the positions, which grow in every round, reach the end of the
    text within as many rounds as it has runes.

Only model-checked: liveness, which needs fairness and ENABLED (`GoroutinesEnd` of
`SearchDirect` and of `Pipeline`, `Terminates` of `Fetcher` and of `Reddit`, `Returns`
of `WebDirect`, and the part of `ChainEnds` that says calls return). `MonthlyLimit` is
false with overlapping calls; its run shows the counterexample.

## 6. Not modelled

* Selectors, entity decoding, JSON and XML parsing, extraction, prompt texts,
  formatting, logging, metrics other than the budget gauge and the cooldown events:
  data or I/O without control that a property needs. arXiv, StackOverflow and SearXNG
  are single API calls; `Fallback` and `RateLimited` one call each.
* Float rounding in fusion and similarity (a scaled score is exact for ranks 0 to 2 and
  rounded down beyond); the word boundary of `factNumberRe`; Unicode normalisation and the matching of
  quotes in fact verification (a quote is a text of the prompt or it is not).
* Random and weighted endpoint selection (`LLM_SELECTION_STRATEGY`), streaming, tools
  and the circuit breaker of go-kit, none of which go-engine sets; query rewriting,
  multimodal calls and the deep variants of `Summarize`, which are one completion each.
* BM25 filtering, classification and cleaning in `text`: statistics over word lists.
* `sources/gosearch`: its availability flag is stored in the order concurrent checks
  finish, and nothing in the repository reads it before a call.
* In `SearchDirect` a pacer is assumed to be configured wherever a wait can be
  cancelled, as in the production configuration. The duration of waits is left out.
* `Fetcher` without a retry tracker (the tracker steps vanish), URLs without a host,
  client construction, headers and body-size limits.
* The Reddit path without any tier (`SearchRedditDirect`), which is an engine like the
  others, and a server whose tokens live no longer than `refreshMargin`.
* The clock never steps back in `MarginaliaBudget`; `YandexLimit` follows one year, as
  `time.Month` has none.
* A caller that modifies the output of `Run` after formatting it: `FormatOutput`
  shares the slice with it (`pipeline/output.go:67`).

### Disagreements no run carries

Comments and code disagree in these places too; where a model covers one, it follows
the code.

* Block cache: eviction is not first-in-first-out once a host has a stale slot
  (`fetch/blockcache.go:18`), which is why `EvictsOldestInserted` is guarded by
  `IsInjective(order)`; the order slice has no bound, although `Unmark` speaks of
  "len ≤ cap" (`fetch/blockcache.go:97`).
* Fetcher: a caller that cancels its own direct request Marks a healthy host
  (`fetch/blocksignals.go:45` against `fetch/blockcache.go:14`); the permanent flag of
  the retry tracker is lifted when a renderer fails for a permanent URL
  (`retry_tracker.go:59`).
* SearchDirect: an engine that timed out is "marked in BlockCache so runOxEscalation
  promotes it" (`search/direct.go:276`), but another call that finds the Mark may render
  the engine, deliver nothing and Unmark it before the escalation of the first call looks,
  which then promotes nothing (`OverlookedWasTried` says that this is the only way, but
  for the TTL); a query that no engine
  has a match for gives `Attempted > 0 && OK == 0`, which `DirectStats` describes as
  blocked or failed (`search/direct.go:192`); a cancelled pacer or limiter wait counts as
  `Attempted` without a request (`search/direct.go:197`); a captcha Marks any engine, and
  one outside `OxEscalate` is then skipped although no render handles it, as
  "runOxEscalation (post-fan-out) handles them" says (`search/direct.go:410`); a
  `DeadlineExceeded` that is not the per-source timeout is `fail`, not `timeout`
  (`search/direct.go:449`).
* MarginaliaBudget: the documentation counts the daily spend in queries, limit ×
  (restarts + 1) of them (`search/marginalia.go:229`); a grant is worth up to two
  requests, since `dualBrowser` repeats one that failed; the gauge shows the day before until the first `Acquire` of a day
  (`search/marginalia.go:34`); the window is compared with `!=`, so a clock that steps
  back across midnight opens a fresh one (`search/marginalia.go:292`).
* LLM client: `recordFailure` clamps every window to the maximum, so a default duration
  above it is cut, although the comment says of the default "NOT clamped by Max"
  (`llm/client.go:334`; `WindowBounded` states what the code does); a failure with a smaller Retry-After shortens a live window; a plain transport
  error ends the call without trying the next proxy, although proxies are called
  redundant (`llm/client.go:73`); `WithProxyURLs` has no effect without a model chain;
  cooldown is kept per model and not per proxy, so both endpoints of one model cool.
* Pipeline: quotes are verified "against the text the model was shown
  for the cited sources" (`llm/summarize.go:21`), but a source beyond the ranked weights is
  shown by its snippet even when its page was fetched (`llm/summarize.go:105`), while its
  haystack is the page (`llm/factverify.go:73`): a verbatim quote of the snippet is held;
  a verified fact may cite, beside the source it was verified by, numbers that
  no source has, although they are described as "1-based indices into Sources array"
  (`llm/summarize.go:34`; `factverify_test.go` has such a fact); `MaxSources` may cut a source that a fact cites (`pipeline/output.go:71`); a
  healthy source cancelled by the early return counts as failed.
* websearch: `ErrRateLimited` "is returned when a search engine blocks the request"
  (`websearch/errors.go:9`), but DDG's token request makes a plain error of 403 and 429
  (`websearch/ddg.go:146`) and replaces a refusal of the HTML page, which is only logged
  (`websearch/ddg.go:86`); Yep makes a plain error of every status but 200
  (`websearch/yep.go`); DDG's HTML page and Bing may yield links to the engine itself,
  which `d.js` and Startpage drop, and relative links are passed on by every parser but
  those of Brave and DDG's HTML page.
* Text: `WithMaxTokenBudget` "sets the per-source token budget" (`pipeline/run.go:85`), but
  the number is the total that the ranked weights divide, so the first content is cut to
  30% of it; the budget of `BuildSourcesText` is called a total (`llm/summarize.go:97`), but
  snippets, of sources beyond the ranked weights or without a fetched page, are written
  whole and not counted; the overlap of two chunks is one rune less than configured after a cut at a
  space (`text/chunker.go:71`), and a chunk size of zero loses the text.
