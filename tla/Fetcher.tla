------------------------------ MODULE Fetcher ------------------------------
(***************************************************************************)
(* fetch.Fetcher with a RetryTracker: concurrent FetchBodyWithHeaders      *)
(* calls share the tracker (per-URL failures) and the block cache          *)
(* (per-host Marks).  One call goes through                                *)
(*                                                                         *)
(*    ShouldRetry -> direct tier -> proxy tier (RetryDo) -> fallbacks      *)
(*                -> RecordAttempt / RecordSuccess                         *)
(*                                                                         *)
(* and other calls run between any two of these.  A request is two steps,  *)
(* issue and answer, so that contexts and other calls can end in between.  *)
(* The block cache appears as the set BlockSet promises.                   *)
(***************************************************************************)
EXTENDS Integers, Sequences, FiniteSets

CONSTANTS
    Fetches,          \* goroutines that call FetchBody, again and again
    URLs,
    HostOf,           \* HostOf[u]: the host of the URL
    DirectFirst,      \* WithDirectFirst
    ProxyFirst,       \* URLs that match ProxyFirstDomains
    HasProxy,         \* whether proxyClient is configured
    Fallbacks,        \* configured renderers, a subsequence of ox, gobrowser, byparr
    DirectResponses,  \* what the direct client can answer
    NetResponses,     \* what the proxy or the plain HTTP client can answer
    MaxRetries,       \* RetryConfig.MaxRetries
    MaxAttempts,      \* RetryTracker.maxAttempts
    AttemptCap        \* bound: a URL with that many recorded failures is not fetched again

Hosts == {HostOf[u] : u \in URLs}

PermanentStatus == {"400", "401", "403", "404", "410", "451"}
RetryableStatus == {"429", "500", "502", "503", "504"}
Status == PermanentStatus \cup RetryableStatus \cup {"200", "0"}

\* nil; a connection error; the error of an ended context; an error that
\* RetryDo does not retry; ErrPermanentlyFailed; or HttpStatusError{status}.
Errors == {"nil", "net", "ctx", "other", "Permanent"} \cup Status

\* A body is told apart by what classifyBlock looks for: an anti-bot marker
\* (or the cf-mitigated header), less than 512 bytes of HTML, or neither.
\* An error comes without a status, or after a 200 whose body could not be read.
Response ==
    {r \in [err : {"nil", "net", "ctx", "other"}, status : Status,
            body : {"page", "tiny", "challenge"}] :
        r.err # "nil" => r.status \in {"0", "200"}}

CtxError == [err |-> "ctx", status |-> "0", body |-> "page"]

Renderers == {<<>>, <<"ox">>, <<"gobrowser">>, <<"byparr">>, <<"ox", "gobrowser">>,
              <<"ox", "byparr">>, <<"gobrowser", "byparr">>, <<"ox", "gobrowser", "byparr">>}

ASSUME FetchesAssumption == IsFiniteSet(Fetches) /\ URLs # {}
ASSUME ResponsesAssumption ==
    DirectResponses \subseteq Response /\ NetResponses \subseteq Response
ASSUME ConfigAssumption ==
    /\ DirectFirst \in BOOLEAN /\ HasProxy \in BOOLEAN
    /\ ProxyFirst \subseteq URLs
    /\ Fallbacks \in Renderers
ASSUME LimitsAssumption ==
    MaxRetries \in Nat /\ MaxAttempts \in Nat \ {0} /\ AttemptCap \in Nat \ {0}

VARIABLES
    blocked,  \* hosts the block cache holds a live Mark for
    entries,  \* entries[u]: the retry tracker's entry, NoEntry when there is none
    phase,    \* phase[f]: where the call is
    url,      \* url[f]: the URL of the call
    ctx,      \* ctx[f]: whether the caller's context is live
    attempt,  \* attempt[f]: index of the RetryDo attempt, then of the renderer
    err,      \* err[f]: what the primary tier returned
    seen,     \* history: status of the last direct or proxy answer of the call
    late,     \* history: requests the call issued after its context ended
    stray     \* history: stray[h]: direct requests to h since it was Marked

vars == <<blocked, entries, phase, url, ctx, attempt, err, seen, late, stray>>

NoEntry == [attempts |-> 0, permanent |-> FALSE, stale |-> FALSE]

Phases == {"idle", "route", "dial", "direct", "retry", "proxy", "fallback", "render", "record"}

Init ==
    /\ blocked = {}
    /\ entries = [u \in URLs |-> NoEntry]
    /\ phase = [f \in Fetches |-> "idle"]
    /\ url = [f \in Fetches |-> CHOOSE u \in URLs : TRUE]
    /\ ctx = [f \in Fetches |-> "live"]
    /\ attempt = [f \in Fetches |-> 0]
    /\ err = [f \in Fetches |-> "nil"]
    /\ seen = [f \in Fetches |-> "0"]
    /\ late = [f \in Fetches |-> 0]
    /\ stray = [h \in Hosts |-> 0]

hasFallback == Fallbacks # <<>>

-----------------------------------------------------------------------------
(* RetryTracker.                                                           *)

\* Mutant: permanent entries expire like the others.
EvictedAll(u) == IF entries[u].stale THEN NoEntry ELSE entries[u]

\* The lazy eviction of ShouldRetry: permanent entries never expire.
Evicted(u) ==
    IF entries[u].stale /\ ~entries[u].permanent THEN NoEntry ELSE entries[u]

\* Mutant: off by one.
ShouldRetryOneMore(e) == ~e.permanent /\ e.attempts <= MaxAttempts

ShouldRetry(e) == ~e.permanent /\ e.attempts < MaxAttempts

isPermanentError(e) == e \in PermanentStatus

\* The flag is assigned, not accumulated.
RecordAttempt(u, e) ==
    [entries EXCEPT ![u] = [attempts |-> @.attempts + 1, permanent |-> isPermanentError(e),
                            stale |-> FALSE]]

RecordSuccess(u) == [entries EXCEPT ![u] = NoEntry]

\* The TTL of an entry runs out.
Age(u) ==
    /\ entries[u] # NoEntry
    /\ ~entries[u].stale
    /\ entries' = [entries EXCEPT ![u].stale = TRUE]
    /\ UNCHANGED <<blocked, phase, url, ctx, attempt, err, seen, late, stray>>

-----------------------------------------------------------------------------
(* The beginning of FetchBodyWithHeaders and of fetchPrimaryWithHeaders.   *)

Goto(f, p) == phase' = [phase EXCEPT ![f] = p]

\* The URL may be tried: legacy mode and proxy-first domains skip the direct tier.
FirstTier(u) == IF ~DirectFirst \/ u \in ProxyFirst THEN "retry" ELSE "route"

Start(f, u) ==
    /\ phase[f] = "idle"
    /\ entries[u].attempts < AttemptCap
    /\ LET permanent == ~ShouldRetry(Evicted(u)) IN
       /\ Goto(f, CASE ~permanent -> FirstTier(u)
                    [] permanent /\ hasFallback -> "fallback"
                    [] OTHER -> "idle")
       /\ err' = [err EXCEPT ![f] = IF permanent THEN "Permanent" ELSE "nil"]
    /\ entries' = [entries EXCEPT ![u] = Evicted(u)]
    /\ url' = [url EXCEPT ![f] = u]
    /\ ctx' = [ctx EXCEPT ![f] = "live"]
    /\ attempt' = [attempt EXCEPT ![f] = 0]
    /\ seen' = [seen EXCEPT ![f] = "0"]
    /\ late' = [late EXCEPT ![f] = 0]
    /\ UNCHANGED <<blocked, stray>>

CtxEnds(f) ==
    /\ phase[f] # "idle"
    /\ ctx[f] = "live"
    /\ ctx' = [ctx EXCEPT ![f] = "ended"]
    /\ UNCHANGED <<blocked, entries, phase, url, attempt, err, seen, late, stray>>

\* A request leaves; the history counts it when the context is over.
Issue(f) == late' = [late EXCEPT ![f] = @ + IF ctx[f] = "live" THEN 0 ELSE 1]

\* The answers a client can give: once the context is over, also its error.
Answers(f, responses) == responses \cup (IF ctx[f] = "live" THEN {} ELSE {CtxError})

\* The primary tier is done with e; tryFallbacks leaves a success alone.
PrimaryDone(f, e) ==
    /\ err' = [err EXCEPT ![f] = e]
    /\ attempt' = [attempt EXCEPT ![f] = 0]
    /\ Goto(f, IF e # "nil" /\ hasFallback THEN "fallback" ELSE "record")

-----------------------------------------------------------------------------
(* fetchDirectFirstWithHeaders.                                            *)

\* Mutant: the block cache is not consulted.
RouteAlwaysDirect(f) ==
    /\ phase[f] = "route"
    /\ Goto(f, "dial")
    /\ UNCHANGED <<blocked, entries, url, ctx, attempt, err, seen, late, stray>>

\* The block-cache lookup.
Route(f) ==
    /\ phase[f] = "route"
    /\ Goto(f, IF HostOf[url[f]] \in blocked THEN "retry" ELSE "dial")
    /\ UNCHANGED <<blocked, entries, url, ctx, attempt, err, seen, late, stray>>

\* fetchDirectRaw issues its one request without a look at the context.
Dial(f) ==
    /\ phase[f] = "dial"
    /\ Goto(f, "direct")
    /\ Issue(f)
    /\ stray' = [stray EXCEPT ![HostOf[url[f]]] = @ + IF HostOf[url[f]] \in blocked THEN 1 ELSE 0]
    /\ UNCHANGED <<blocked, entries, url, ctx, attempt, err, seen>>

classifyBlock(r) ==
    IF r.err # "nil" THEN "tls"
    ELSE IF r.status \in {"401", "403", "429", "503"} \/ r.body = "challenge" THEN "hard"
    ELSE IF r.status = "200" /\ r.body = "tiny" THEN "soft"
    ELSE "none"

\* What the direct tier returns when it cannot escalate.
DirectResult(r) ==
    CASE classifyBlock(r) \in {"none", "soft"} -> "nil"
      [] classifyBlock(r) = "tls"              -> r.err
      [] OTHER                                 -> r.status

\* A clean answer is returned whatever its status; any other Marks the host and
\* escalates to the proxy if there is one.
DirectAnswer(f) ==
    /\ phase[f] = "direct"
    /\ \E r \in Answers(f, DirectResponses) :
          /\ seen' = [seen EXCEPT ![f] = r.status]
          /\ blocked' = IF classifyBlock(r) = "none" THEN blocked
                        ELSE blocked \cup {HostOf[url[f]]}
          /\ IF classifyBlock(r) # "none" /\ HasProxy
             THEN Goto(f, "retry") /\ UNCHANGED <<err, attempt>>
             ELSE PrimaryDone(f, DirectResult(r))
    /\ UNCHANGED <<entries, url, ctx, late, stray>>

\* A Mark ends: its TTL ran out or a Mark of another host evicted it.
Expire(h) ==
    /\ h \in blocked
    /\ blocked' = blocked \ {h}
    /\ stray' = [stray EXCEPT ![h] = 0]
    /\ UNCHANGED <<entries, phase, url, ctx, attempt, err, seen, late>>

-----------------------------------------------------------------------------
(* fetchViaProxy and fetchViaHTTP: the loop of RetryDo.                    *)

\* Mutant: the loop does not look at the context.
RetryUnchecked(f) ==
    /\ phase[f] = "retry"
    /\ Goto(f, "proxy") /\ Issue(f) /\ UNCHANGED <<err, attempt>>
    /\ UNCHANGED <<blocked, entries, url, ctx, seen, stray>>

\* The head of the loop.
Retry(f) ==
    /\ phase[f] = "retry"
    /\ \/ ctx[f] = "live" /\ Goto(f, "proxy") /\ Issue(f) /\ UNCHANGED <<err, attempt>>
       \/ ctx[f] # "live" /\ PrimaryDone(f, "ctx") /\ UNCHANGED late
    /\ UNCHANGED <<blocked, entries, url, ctx, seen, stray>>

IsRetryable(e) == e \in RetryableStatus \cup {"net"}

NetResult(r) == IF r.err # "nil" THEN r.err ELSE IF r.status = "200" THEN "nil" ELSE r.status

\* Whether RetryDo sees the failure of r: the body of a 200 is read after the loop.
Retried(r) == r.status # "200" /\ IsRetryable(NetResult(r))

\* Mutant: the loop never gives up.
ProxyAnswerForever(f) ==
    /\ phase[f] = "proxy"
    /\ \E r \in Answers(f, NetResponses) :
          /\ seen' = [seen EXCEPT ![f] = r.status]
          /\ IF Retried(r)
             THEN Goto(f, "retry") /\ UNCHANGED <<err, attempt>>
             ELSE PrimaryDone(f, NetResult(r))
    /\ UNCHANGED <<blocked, entries, url, ctx, late, stray>>

\* Retryable failures go round, with a wait that the end of the context cuts
\* short, until the attempts are used up.
ProxyAnswer(f) ==
    /\ phase[f] = "proxy"
    /\ \E r \in Answers(f, NetResponses) :
          /\ seen' = [seen EXCEPT ![f] = r.status]
          /\ IF Retried(r) /\ attempt[f] < MaxRetries
             THEN /\ Goto(f, "retry")
                  /\ attempt' = [attempt EXCEPT ![f] = @ + 1]
                  /\ UNCHANGED err
             ELSE PrimaryDone(f, NetResult(r))
    /\ UNCHANGED <<blocked, entries, url, ctx, late, stray>>

-----------------------------------------------------------------------------
(* tryFallbacks and the records.                                           *)

\* The next renderer, in order; all but ox look at the context first.
Fallback(f) ==
    /\ phase[f] = "fallback"
    /\ IF Fallbacks[attempt[f] + 1] # "ox" /\ ctx[f] # "live"
       THEN Goto(f, "record") /\ UNCHANGED late
       ELSE Goto(f, "render") /\ Issue(f)
    /\ UNCHANGED <<blocked, entries, url, ctx, attempt, err, seen, stray>>

\* Mutant: the error of the renderer replaces the primary one.
RenderFailsOverwrites(f) ==
    /\ phase[f] = "render"
    /\ IF attempt[f] + 1 < Len(Fallbacks)
       THEN Goto(f, "fallback") /\ attempt' = [attempt EXCEPT ![f] = @ + 1]
       ELSE Goto(f, "record") /\ UNCHANGED attempt
    /\ err' = [err EXCEPT ![f] = "other"]
    /\ UNCHANGED <<blocked, entries, url, ctx, seen, late, stray>>

\* A renderer fails: its error is dropped and the primary one kept.
RenderFails(f) ==
    /\ phase[f] = "render"
    /\ IF attempt[f] + 1 < Len(Fallbacks)
       THEN Goto(f, "fallback") /\ attempt' = [attempt EXCEPT ![f] = @ + 1]
       ELSE Goto(f, "record") /\ UNCHANGED attempt
    /\ UNCHANGED <<blocked, entries, url, ctx, err, seen, late, stray>>

RenderOK(f) ==
    /\ phase[f] = "render"
    /\ Goto(f, "record")
    /\ err' = [err EXCEPT ![f] = "nil"]
    /\ UNCHANGED <<blocked, entries, url, ctx, attempt, seen, late, stray>>

\* The outcome goes to the retry tracker and the call returns.
Record(f) ==
    /\ phase[f] = "record"
    /\ Goto(f, "idle")
    /\ entries' = IF err[f] = "nil" THEN RecordSuccess(url[f]) ELSE RecordAttempt(url[f], err[f])
    /\ UNCHANGED <<blocked, url, ctx, attempt, err, seen, late, stray>>

-----------------------------------------------------------------------------
Step(f) ==
    \/ Route(f) \/ Dial(f) \/ DirectAnswer(f) \/ Retry(f) \/ ProxyAnswer(f)
    \/ Fallback(f) \/ RenderFails(f) \/ RenderOK(f) \/ Record(f)

\* Nothing is left to do under the bound AttemptCap.
BoundReached ==
    /\ \A f \in Fetches : phase[f] = "idle"
    /\ \A u \in URLs : entries[u].attempts >= AttemptCap
    /\ UNCHANGED vars

Next ==
    \/ \E f \in Fetches : Step(f) \/ CtxEnds(f) \/ \E u \in URLs : Start(f, u)
    \/ \E u \in URLs : Age(u)
    \/ \E h \in Hosts : Expire(h)
    \/ BoundReached

\* Every request is bounded by a client timeout and runnable goroutines run.
\* Nobody has to call, and no context has to end.
Fairness == \A f \in Fetches : WF_vars(Step(f))

Spec == Init /\ [][Next]_vars /\ Fairness

-----------------------------------------------------------------------------
(* Properties.                                                             *)

TypeOK ==
    /\ blocked \subseteq Hosts
    /\ entries \in [URLs -> [attempts : Nat, permanent : BOOLEAN, stale : BOOLEAN]]
    /\ phase \in [Fetches -> Phases]
    /\ url \in [Fetches -> URLs]
    /\ ctx \in [Fetches -> {"live", "ended"}]
    /\ attempt \in [Fetches -> Nat]
    /\ err \in [Fetches -> Errors]
    /\ seen \in [Fetches -> Status]
    /\ late \in [Fetches -> Nat]
    /\ stray \in [Hosts -> Nat]
    /\ \A f \in Fetches : phase[f] \in {"fallback", "render"} => attempt[f] < Len(Fallbacks)

InFlight(u) == {f \in Fetches : phase[f] # "idle" /\ url[f] = u}

\* ShouldRetry and RecordAttempt are separate critical sections, so concurrent
\* calls overshoot maxAttempts, but without renderers only by the calls that
\* were already past the check: a URL is never recorded as failed more often.
AttemptsBound ==
    ~hasFallback =>
        \A u \in URLs :
            entries[u].attempts + Cardinality(InFlight(u)) <= MaxAttempts - 1 + Cardinality(Fetches)

\* Without renderers a permanently failed URL is out of reach: no call to it gets
\* past the tracker, and once the calls that had already passed have returned
\* nothing, not even the TTL, lifts the flag.
PermanentQuarantine ==
    [][\A u \in URLs : (~hasFallback /\ entries[u].permanent) =>
          /\ InFlight(u)' \subseteq InFlight(u)
          /\ InFlight(u) = {} => entries'[u].permanent]_vars

Dialing(h) == {f \in Fetches : phase[f] = "dial" /\ HostOf[url[f]] = h}

\* "Repeat calls within the TTL skip the direct attempt": the lookup and the request
\* are not atomic, so calls that looked a host up before it was Marked still go to
\* it directly, but while it stays Marked these are all the direct requests it gets:
\* at most one from every caller but the one whose answer Marked it.
StrayBound ==
    \A h \in blocked : stray[h] + Cardinality(Dialing(h)) <= Cardinality(Fetches) - 1

\* A call whose context has ended winds down: whatever tier it is in, at most one
\* direct request and one ox-browser request still leave, and no proxied request,
\* go-browser or Byparr render is started.
WindsDown ==
    \A f \in Fetches : late[f] <= 1 + (IF hasFallback /\ Fallbacks[1] = "ox" THEN 1 ELSE 0)

\* The retry tracker classifies a failed call by what the site itself answered
\* last, through all failed renderers: the URL becomes permanent exactly when that
\* was a permanent status, and a page a renderer delivered clears it.
PermanentIsPrimary ==
    [][\A f \in Fetches :
          (phase[f] = "record" /\ phase'[f] = "idle" /\ seen[f] # "0" /\ ctx[f] = "live") =>
              entries'[url[f]].permanent = (err[f] # "nil" /\ seen[f] \in PermanentStatus)]_vars

\* Every call returns, whatever the site and the renderers answer.
Terminates == \A f \in Fetches : (phase[f] # "idle") ~> (phase[f] = "idle")
=============================================================================
