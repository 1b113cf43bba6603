---------------------------- MODULE SearchDirect ----------------------------
(***************************************************************************)
(* search.SearchDirect: concurrent calls fan out to one leg per enabled    *)
(* engine, collect the results, return early once there are enough of      *)
(* them, Mark engines that blocked the direct path in a shared block cache *)
(* and promote the Marked ones to the ox-browser render tier.              *)
(*                                                                         *)
(* A leg is two goroutines: inner runs the engine (waiting for the pacer   *)
(* or limiter, then requesting) and sends its answer on the buffered       *)
(* channel done; outer selects between done and the end of the leg's       *)
(* context.  The block cache appears as the set BlockSet promises.         *)
(***************************************************************************)
EXTENDS Integers, Sequences, FiniteSets, SequencesExt

CONSTANTS
    Calls,          \* concurrent invocations of SearchDirect
    Jobs,           \* labels of the enabled engines, in the order of the jobs slice
    OxEscalate,     \* labels of the render allowlist, in configuration order
    Limited,        \* engines behind a rate.Limiter
    Budgeted,       \* engines with a daily budget (Marginalia)
    Returns,        \* Returns[e]: the answers [err, n] engine e can give by itself
    RenderCounts,   \* numbers of results a render can deliver
    EarlyReturnAt,  \* result count that cancels the remaining legs
    OxConcurrency,  \* slots of the render semaphore
    TTLExpires      \* whether Marks may time out during the behaviour

\* The allowlist is configured independently of the enabled engines.
Engines == Range(Jobs) \cup Range(OxEscalate)

Err == {"nil", "RateLimited", "QuotaExhausted", "PerSourceTimeout",
        "DeadlineExceeded", "Canceled", "Other"}

ASSUME JobsAssumption ==
    /\ Jobs \in Seq(Engines) /\ Jobs # <<>>
    /\ \A i, j \in 1..Len(Jobs) : Jobs[i] = Jobs[j] => i = j
ASSUME OxAssumption ==
    /\ OxEscalate \in Seq(Engines) /\ OxEscalate # <<>>
    /\ \A i, j \in 1..Len(OxEscalate) : OxEscalate[i] = OxEscalate[j] => i = j
\* errPerSourceTimeout is private to the package: no engine returns it.  The
\* results beside an error are never looked at.
ASSUME ReturnsAssumption ==
    \A e \in Range(Jobs) : \A r \in Returns[e] :
        r \in [err : Err \ {"PerSourceTimeout"}, n : Nat] /\ (r.err # "nil" => r.n = 0)
ASSUME BoundsAssumption == EarlyReturnAt \in Nat \ {0} /\ OxConcurrency \in Nat \ {0}

VARIABLES
    blocked,    \* engines BlockCache.IsBlocked answers TRUE for
    callerCtx,  \* callerCtx[c]: the context the caller passed
    phase,      \* phase[c]: where the call's own goroutine is
    next,       \* next[c]: index of the next job to launch / label to check
    leg,        \* leg[c][e]: the two goroutines of a leg, see LegInit
    ch,         \* ch[c]: the results channel
    stats,      \* stats[c]: DirectStats
    merged,     \* merged[c]: number of results collected so far
    cancelled,  \* cancelled[c]: whether allDoneCancel was called
    ox          \* ox[c][e]: what the escalation did with the engine

vars == <<blocked, callerCtx, phase, next, leg, ch, stats, merged, cancelled, ox>>

-----------------------------------------------------------------------------
LegInit == [inner |-> "none",     \* none, waiting, requesting, exited
            outer |-> "none",     \* none, skipped, select, sent
            ctx |-> "live",       \* live, or the Cause of srcCtx
            done |-> <<>>,        \* the channel done, capacity 1
            outcome |-> "none"]   \* history: the source_result_total label

Init ==
    /\ blocked = {}
    /\ callerCtx = [c \in Calls |-> "live"]
    /\ phase = [c \in Calls |-> "idle"]
    /\ next = [c \in Calls |-> 1]
    /\ leg = [c \in Calls |-> [e \in Engines |-> LegInit]]
    /\ ch = [c \in Calls |-> <<>>]
    /\ stats = [c \in Calls |-> [Attempted |-> 0, OK |-> 0, Empty |-> 0, Failed |-> 0, Shed |-> 0]]
    /\ merged = [c \in Calls |-> 0]
    /\ cancelled = [c \in Calls |-> FALSE]
    /\ ox = [c \in Calls |-> [e \in Engines |-> "none"]]

\* srcCtx.Err() of a context that has ended: only the cause tells a per-source
\* timeout from an inherited deadline.
CtxErr(cause) == IF cause = "PerSourceTimeout" THEN "DeadlineExceeded" ELSE cause

\* Mutant: a leg that has not issued its request yet is overlooked.
EndLegsRequesting(c, cause) ==
    [leg EXCEPT ![c] = [e \in Engines |->
        IF leg[c][e].inner = "requesting" /\ leg[c][e].ctx = "live"
        THEN [leg[c][e] EXCEPT !.ctx = cause] ELSE leg[c][e]]]

\* Ending a context ends the contexts derived from it that are still live.
EndLegs(c, cause) ==
    [leg EXCEPT ![c] = [e \in Engines |->
        IF leg[c][e].outer = "select" /\ leg[c][e].ctx = "live"
        THEN [leg[c][e] EXCEPT !.ctx = cause] ELSE leg[c][e]]]

Start(c) ==
    /\ phase[c] = "idle"
    /\ phase' = [phase EXCEPT ![c] = "launch"]
    /\ UNCHANGED <<blocked, callerCtx, next, leg, ch, stats, merged, cancelled, ox>>

\* One round of the launch loop.  An engine that is blocked is skipped.  After
\* the last job the call moves on to collectResults.
Launch(c) ==
    /\ phase[c] = "launch"
    /\ LET e == Jobs[next[c]] IN
       leg' = [leg EXCEPT ![c][e] =
                 IF e \in blocked THEN [@ EXCEPT !.outer = "skipped"]
                 ELSE [@ EXCEPT !.outer = "select", !.inner = "waiting", !.ctx = callerCtx[c]]]
    /\ IF next[c] < Len(Jobs)
       THEN next' = [next EXCEPT ![c] = @ + 1] /\ UNCHANGED phase
       ELSE next' = [next EXCEPT ![c] = 1] /\ phase' = [phase EXCEPT ![c] = "collect"]
    /\ UNCHANGED <<blocked, callerCtx, ch, stats, merged, cancelled, ox>>

-----------------------------------------------------------------------------
(* The inner goroutine: pacing, then the engine's request.                 *)

\* pacer.Wait and limiter.Wait end without error: the request goes out.
InnerProceed(c, e) ==
    /\ leg[c][e].inner = "waiting"
    /\ leg' = [leg EXCEPT ![c][e].inner = "requesting"]
    /\ UNCHANGED <<blocked, callerCtx, phase, next, ch, stats, merged, cancelled, ox>>

\* The budget of the engine is spent: it sheds before any request.
InnerShed(c, e) ==
    /\ leg[c][e].inner = "waiting"
    /\ e \in Budgeted
    /\ leg' = [leg EXCEPT ![c][e].inner = "exited",
                          ![c][e].done = <<[err |-> "QuotaExhausted", n |-> 0]>>]
    /\ UNCHANGED <<blocked, callerCtx, phase, next, ch, stats, merged, cancelled, ox>>

\* The wait is cancelled: nil, nil.  A rate.Limiter also gives up at once when
\* the deadline of its context is too near.
InnerWaitFails(c, e) ==
    /\ leg[c][e].inner = "waiting"
    /\ leg[c][e].ctx # "live" \/ e \in Limited
    /\ leg' = [leg EXCEPT ![c][e].inner = "exited", ![c][e].done = <<[err |-> "nil", n |-> 0]>>]
    /\ UNCHANGED <<blocked, callerCtx, phase, next, ch, stats, merged, cancelled, ox>>

\* What the engine function can return now: its own answers, or the error of
\* its context once that has ended (RetryDo checks it).
Answers(c, e) ==
    Returns[e] \cup (IF leg[c][e].ctx = "live" THEN {}
                     ELSE {[err |-> CtxErr(leg[c][e].ctx), n |-> 0]})

\* Mutant: done is unbuffered, so the send needs outer in its select.
InnerReturnUnbuffered(c, e) ==
    /\ leg[c][e].inner = "requesting"
    /\ leg[c][e].outer = "select"
    /\ \E r \in Answers(c, e) :
          leg' = [leg EXCEPT ![c][e].inner = "exited", ![c][e].done = <<r>>]
    /\ UNCHANGED <<blocked, callerCtx, phase, next, ch, stats, merged, cancelled, ox>>

\* The engine function returns and the answer is sent on done, which has room
\* whether or not outer is still listening.
InnerReturn(c, e) ==
    /\ leg[c][e].inner = "requesting"
    /\ \E r \in Answers(c, e) :
          leg' = [leg EXCEPT ![c][e].inner = "exited", ![c][e].done = <<r>>]
    /\ UNCHANGED <<blocked, callerCtx, phase, next, ch, stats, merged, cancelled, ox>>

-----------------------------------------------------------------------------
(* The outer goroutine: runSourceWithTimeout.                              *)

\* Mutant: every deadline error of a leg whose context ended is taken for the
\* leg's own timeout.
ReconcileByDeadline(r, ctx) ==
    IF r.err # "nil" /\ ctx # "live" /\ r.err = "DeadlineExceeded"
    THEN [r EXCEPT !.err = "PerSourceTimeout"] ELSE r

\* Mutant: no reconciliation.
ReconcileNot(r, ctx) == r

\* The done branch: a deadline error of a leg whose context has ended becomes
\* the cause of that end.
Reconcile(r, ctx) ==
    IF r.err # "nil" /\ ctx # "live" /\ r.err = "DeadlineExceeded"
    THEN [r EXCEPT !.err = ctx] ELSE r

\* The result the select delivers on each of its branches.
DoneResult(c, e) == Reconcile(leg[c][e].done[1], leg[c][e].ctx)
CtxResult(c, e) == [err |-> leg[c][e].ctx, n |-> 0]

Deliver(c, e, r) ==
    /\ leg' = [leg EXCEPT ![c][e].outer = "sent"]
    /\ ch' = [ch EXCEPT ![c] = Append(@, [label |-> e, err |-> r.err, n |-> r.n])]
    /\ UNCHANGED <<blocked, callerCtx, phase, next, stats, merged, cancelled, ox>>

SelectDone(c, e) ==
    /\ leg[c][e].outer = "select"
    /\ leg[c][e].done # <<>>
    /\ Deliver(c, e, DoneResult(c, e))

\* Mutant: outer waits for the engine's answer whatever its context says.
SelectCtxAfterInner(c, e) ==
    /\ leg[c][e].outer = "select"
    /\ leg[c][e].ctx # "live"
    /\ leg[c][e].done # <<>>
    /\ Deliver(c, e, CtxResult(c, e))

SelectCtx(c, e) ==
    /\ leg[c][e].outer = "select"
    /\ leg[c][e].ctx # "live"
    /\ Deliver(c, e, CtxResult(c, e))

-----------------------------------------------------------------------------
(* The environment of a leg: timers, the caller, the TTL.                  *)

PerSourceTimeout(c, e) ==
    /\ leg[c][e].outer = "select"
    /\ leg[c][e].ctx = "live"
    /\ leg' = [leg EXCEPT ![c][e].ctx = "PerSourceTimeout"]
    /\ UNCHANGED <<blocked, callerCtx, phase, next, ch, stats, merged, cancelled, ox>>

CallerEnds(c) ==
    /\ phase[c] \in {"launch", "collect", "escalate", "render"}
    /\ callerCtx[c] = "live"
    /\ \E cause \in {"Canceled", "DeadlineExceeded"} :
          /\ callerCtx' = [callerCtx EXCEPT ![c] = cause]
          /\ leg' = EndLegs(c, cause)
    /\ UNCHANGED <<blocked, phase, next, ch, stats, merged, cancelled, ox>>

Expire(e) ==
    /\ TTLExpires
    /\ e \in blocked
    /\ blocked' = blocked \ {e}
    /\ UNCHANGED <<callerCtx, phase, next, leg, ch, stats, merged, cancelled, ox>>

-----------------------------------------------------------------------------
(* collectResults and handleSourceError.                                   *)

Allowlisted(e) == e \in Range(OxEscalate)

\* The class of a result, tested in the order of the code.  "Other" stands for
\* every error that is neither Canceled nor DeadlineExceeded nor named above.
Outcome(r) ==
    CASE r.err = "QuotaExhausted"                                     -> "shed"
      [] r.err = "nil" /\ r.n = 0                                     -> "empty"
      [] r.err = "nil" /\ r.n > 0                                     -> "ok"
      [] r.err = "RateLimited"                                        -> "captcha"
      [] r.err = "PerSourceTimeout" /\ Allowlisted(r.label)           -> "timeout"
      [] r.err = "Other" /\ Allowlisted(r.label)                      -> "blocked"
      [] OTHER                                                        -> "fail"

\* Mutant: timeouts are reported but not Marked.
MarkingCaptchaOnly == {"captcha", "blocked"}

\* The outcomes after which handleSourceError Marks the engine.
Marking == {"captcha", "timeout", "blocked"}

Count(st, outcome) ==
    CASE outcome = "shed"  -> [st EXCEPT !.Shed = @ + 1]
      [] outcome = "empty" -> [st EXCEPT !.Attempted = @ + 1, !.Empty = @ + 1]
      [] outcome = "ok"    -> [st EXCEPT !.Attempted = @ + 1, !.OK = @ + 1]
      [] OTHER             -> [st EXCEPT !.Attempted = @ + 1, !.Failed = @ + 1]

\* One round of the range over the channel; the result that reaches the
\* threshold cancels the legs that are still running, once.
Collect(c) ==
    /\ phase[c] = "collect"
    /\ ch[c] # <<>>
    /\ LET r == Head(ch[c])
           o == Outcome(r)
           enough == o = "ok" /\ ~cancelled[c] /\ merged[c] + r.n >= EarlyReturnAt
           legs == IF enough THEN EndLegs(c, "Canceled") ELSE leg
       IN  /\ ch' = [ch EXCEPT ![c] = Tail(@)]
           /\ stats' = [stats EXCEPT ![c] = Count(@, o)]
           /\ merged' = [merged EXCEPT ![c] = @ + IF o = "ok" THEN r.n ELSE 0]
           /\ cancelled' = [cancelled EXCEPT ![c] = @ \/ enough]
           /\ leg' = [legs EXCEPT ![c][r.label].outcome = o]
           /\ blocked' = IF o \in Marking THEN blocked \cup {r.label} ELSE blocked
    /\ UNCHANGED <<callerCtx, phase, next, ox>>

\* Mutant: the collector stops as soon as the channel is empty.
CollectEndEarly(c) ==
    /\ phase[c] = "collect"
    /\ ch[c] = <<>>
    /\ phase' = [phase EXCEPT ![c] = "escalate"]
    /\ UNCHANGED <<blocked, callerCtx, next, leg, ch, stats, merged, cancelled, ox>>

\* wg.Wait has returned, the channel is closed and drained.
CollectEnd(c) ==
    /\ phase[c] = "collect"
    /\ ch[c] = <<>>
    /\ \A e \in Engines : leg[c][e].outer # "select"
    /\ phase' = [phase EXCEPT ![c] = "escalate"]
    /\ UNCHANGED <<blocked, callerCtx, next, leg, ch, stats, merged, cancelled, ox>>

-----------------------------------------------------------------------------
(* runOxEscalation.                                                        *)

EscalateSkip(c) ==
    /\ phase[c] = "escalate"
    /\ next[c] = 1
    /\ merged[c] >= EarlyReturnAt
    /\ phase' = [phase EXCEPT ![c] = "done"]
    /\ UNCHANGED <<blocked, callerCtx, next, leg, ch, stats, merged, cancelled, ox>>

\* Mutant: a blocking acquire that admits every eligible label.
AdmitAll(c, e, eligible) == "rendering"

\* acquireOxSlots: the first eligible labels get the slots, the rest is skipped.
Admit(c, e, eligible) ==
    IF Cardinality(eligible) < OxConcurrency THEN "rendering" ELSE "skipped"

\* One label of the allowlist is looked up.  All lookups and all TryAcquires
\* come before the first render starts: a render only acts in phase "render".
EscalateCheck(c) ==
    /\ phase[c] = "escalate"
    /\ next[c] > 1 \/ merged[c] < EarlyReturnAt
    /\ LET e == OxEscalate[next[c]]
           eligible == {g \in Engines : ox[c][g] = "rendering"}
       IN  ox' = [ox EXCEPT ![c][e] = IF e \in blocked THEN Admit(c, e, eligible) ELSE "none"]
    /\ IF next[c] < Len(OxEscalate)
       THEN next' = [next EXCEPT ![c] = @ + 1] /\ UNCHANGED phase
       ELSE next' = [next EXCEPT ![c] = 1] /\ phase' = [phase EXCEPT ![c] = "render"]
    /\ UNCHANGED <<blocked, callerCtx, leg, ch, stats, merged, cancelled>>

\* Mutant: a successful render lifts the Mark too.
RenderOKUnmarks(c, e) ==
    /\ phase[c] = "render"
    /\ ox[c][e] = "rendering"
    /\ \E n \in RenderCounts : merged' = [merged EXCEPT ![c] = @ + n]
    /\ ox' = [ox EXCEPT ![c][e] = "ok"]
    /\ blocked' = blocked \ {e}
    /\ UNCHANGED <<callerCtx, phase, next, leg, ch, stats, cancelled>>

\* The render revived the engine: results are merged, the Mark stays.
RenderOK(c, e) ==
    /\ phase[c] = "render"
    /\ ox[c][e] = "rendering"
    /\ \E n \in RenderCounts : merged' = [merged EXCEPT ![c] = @ + n]
    /\ ox' = [ox EXCEPT ![c][e] = "ok"]
    /\ UNCHANGED <<blocked, callerCtx, phase, next, leg, ch, stats, cancelled>>

\* The render failed, was empty, hit a captcha or its deadline: Unmark.
RenderNone(c, e) ==
    /\ phase[c] = "render"
    /\ ox[c][e] = "rendering"
    /\ ox' = [ox EXCEPT ![c][e] = "none_delivered"]
    /\ blocked' = blocked \ {e}
    /\ UNCHANGED <<callerCtx, phase, next, leg, ch, stats, merged, cancelled>>

Finish(c) ==
    /\ phase[c] = "render"
    /\ \A e \in Engines : ox[c][e] # "rendering"
    /\ phase' = [phase EXCEPT ![c] = "done"]
    /\ UNCHANGED <<blocked, callerCtx, next, leg, ch, stats, merged, cancelled, ox>>

-----------------------------------------------------------------------------
LegStep(c, e) ==
    \/ InnerProceed(c, e) \/ InnerShed(c, e) \/ InnerWaitFails(c, e) \/ InnerReturn(c, e)
    \/ SelectDone(c, e) \/ SelectCtx(c, e) \/ PerSourceTimeout(c, e)
    \/ RenderOK(c, e) \/ RenderNone(c, e)

CallStep(c) ==
    \/ Start(c) \/ Launch(c) \/ CallerEnds(c) \/ Collect(c) \/ CollectEnd(c)
    \/ EscalateSkip(c) \/ EscalateCheck(c) \/ Finish(c)

\* Every call has returned and every engine function too.
AllDone ==
    /\ \A c \in Calls : phase[c] = "done"
    /\ UNCHANGED vars

Next ==
    \/ \E c \in Calls : CallStep(c) \/ \E e \in Engines : LegStep(c, e)
    \/ \E e \in Engines : Expire(e)
    \/ AllDone

(***************************************************************************)
(* Fairness: goroutines that can run are scheduled, the per-source timer   *)
(* fires, and OxBrowserFetch returns (it gets a context with a deadline).  *)
(* Nothing is assumed about the engines: a request may hang for ever.      *)
(***************************************************************************)
Fairness ==
    \A c \in Calls :
        /\ WF_vars(Launch(c)) /\ WF_vars(Collect(c)) /\ WF_vars(CollectEnd(c))
        /\ WF_vars(EscalateSkip(c) \/ EscalateCheck(c)) /\ WF_vars(Finish(c))
        /\ \A e \in Engines :
              /\ WF_vars(SelectDone(c, e) \/ SelectCtx(c, e))
              /\ WF_vars(PerSourceTimeout(c, e))
              /\ WF_vars(RenderOK(c, e) \/ RenderNone(c, e))

Spec == Init /\ [][Next]_vars /\ Fairness

\* What InnerExits relies on: the HTTP client timeout bounds every request, so
\* engines return at last.
EnginesReturn ==
    \A c \in Calls, e \in Engines :
        WF_vars(InnerProceed(c, e) \/ InnerShed(c, e) \/ InnerWaitFails(c, e) \/ InnerReturn(c, e))

-----------------------------------------------------------------------------
(* Properties.                                                             *)

TypeOK ==
    /\ blocked \subseteq Engines
    /\ callerCtx \in [Calls -> {"live", "Canceled", "DeadlineExceeded"}]
    /\ phase \in [Calls -> {"idle", "launch", "collect", "escalate", "render", "done"}]
    /\ next \in [Calls -> 1..(Len(Jobs) + Len(OxEscalate))]
    /\ \A c \in Calls, e \in Engines :
          /\ leg[c][e].inner \in {"none", "waiting", "requesting", "exited"}
          /\ leg[c][e].outer \in {"none", "skipped", "select", "sent"}
          /\ leg[c][e].ctx \in {"live", "PerSourceTimeout", "Canceled", "DeadlineExceeded"}
          /\ leg[c][e].done \in Seq([err : Err, n : Nat]) /\ Len(leg[c][e].done) <= 1
    /\ ch \in [Calls -> Seq([label : Engines, err : Err, n : Nat])]
    /\ stats \in [Calls -> [Attempted : Nat, OK : Nat, Empty : Nat, Failed : Nat, Shed : Nat]]
    /\ merged \in [Calls -> Nat]
    /\ cancelled \in [Calls -> BOOLEAN]
    /\ ox \in [Calls -> [Engines -> {"none", "rendering", "skipped", "ok", "none_delivered"}]]

Collected(c) == phase[c] \in {"escalate", "render", "done"}

Launched(c) == {e \in Engines : leg[c][e].outer \in {"select", "sent"}}

\* When collectResults returns, every launched leg has been counted exactly once
\* although legs end by answer, timeout, early return or shed:
\* Attempted == OK + Empty + Failed, and with Shed that is every launched leg.
Accounting ==
    \A c \in Calls : Collected(c) =>
        /\ stats[c].Attempted = stats[c].OK + stats[c].Empty + stats[c].Failed
        /\ stats[c].Attempted + stats[c].Shed = Cardinality(Launched(c))
        /\ \A e \in Launched(c) : leg[c][e].outcome # "none"

\* An engine is Marked as timed out only when its own per-source timer ended the
\* leg; a caller's deadline, a caller's cancellation and an early return that
\* surface as a deadline error never pin an engine.
TimeoutIsOwn ==
    \A c \in Calls, e \in Engines :
        leg[c][e].outcome = "timeout" => leg[c][e].ctx = "PerSourceTimeout"

\* When the engine has returned the error of its ended context, both branches of
\* the select in runSourceWithTimeout deliver the same error.
SelectRaceCollapsed ==
    \A c \in Calls, e \in Engines :
        (/\ leg[c][e].outer = "select"
         /\ leg[c][e].ctx # "live"
         /\ leg[c][e].done # <<>>
         /\ leg[c][e].done[1].err = CtxErr(leg[c][e].ctx))
            => DoneResult(c, e) = CtxResult(c, e)

\* The classification of timeouts by runSourceWithTimeout and handleSourceError:
\* only an own timer Marks, whichever branch of the select was taken.
TimeoutClassified == TimeoutIsOwn /\ SelectRaceCollapsed

\* At most OxConcurrency renders of one call are in flight.
RenderBound ==
    \A c \in Calls : Cardinality({e \in Engines : ox[c][e] = "rendering"}) <= OxConcurrency

\* A Mark leads to a render: the escalation of a call overlooks an allowlisted
\* engine the call has Marked only when another call's render of that engine has
\* delivered nothing, so that its self-heal (Unmark in runOxEscalation) took the
\* Mark away.  No call's early return, timeout or successful render does, and a
\* call that is alone overlooks none.
OverlookedWasTried ==
    \A c \in Calls, e \in Engines :
        (/\ phase[c] = "render" /\ ox[c][e] = "none"
         /\ leg[c][e].outcome \in {"captcha", "timeout", "blocked"} /\ Allowlisted(e))
            => \E d \in Calls \ {c} : ox[d][e] = "none_delivered"

\* A started call returns although an engine may hang for ever.
Terminates == \A c \in Calls : (phase[c] # "idle") ~> (phase[c] = "done")

\* Once the early-return threshold is reached no leg is waited for: each one that
\* has not delivered yet has an ended context, so its select can leave at once.
EarlyReturnStopsLegs ==
    \A c \in Calls, e \in Engines :
        (cancelled[c] /\ leg[c][e].outer = "select") => leg[c][e].ctx # "live"

\* The inner goroutine gets rid of its answer, also when outer has left on a
\* timeout: as the engines return it does not leak.
InnerExits ==
    EnginesReturn =>
        \A c \in Calls, e \in Engines :
            (leg[c][e].inner = "waiting") ~> (leg[c][e].inner = "exited")

\* Calls return and their goroutines end: see the two parts.
GoroutinesEnd == Terminates /\ InnerExits
=============================================================================
