------------------------------ MODULE LLMChain ------------------------------
(***************************************************************************)
(* The LLM client at run time: concurrent Complete* calls walk the chain   *)
(* of endpoints that LLMConfig builds (or rotate keys when there is none), *)
(* and share the per-model quota cooldown of go-kit (cooldown.go,          *)
(* transport.go).  until and fails are the two maps under the RWMutex; one *)
(* step is one critical section or one HTTP attempt, so another call may   *)
(* get in between the RLock read of cooling() and its Lock, between the    *)
(* snapshot of cooldownCandidates and the loop, and between the answer of  *)
(* cooling() and the attempt it allows.  Observer events leave in          *)
(* goroutines of their own after the unlock, in no particular order: only  *)
(* how many a critical section decides to fire is modelled.                *)
(***************************************************************************)
EXTENDS LLMConfig, FiniteSets

CONSTANTS
    Calls,          \* concurrent calls
    ModelID,        \* the models
    Configs,        \* configurations the client may be built with
    Lives,          \* what GET /v1/models may give per URL when New asks
    FailThreshold,  \* consecutive quota failures that open a window
    BuiltinDefault, \* defaultCooldownDuration
    EnvSeconds,     \* LLM_COOLDOWN_SECONDS, 0 when unset
    CooldownMax,    \* CooldownConfig.Max
    RetryAfters,    \* Retry-After values of a quota error, 0 when absent
    MaxTime         \* bound on the clock

ASSUME CooldownAssumption ==
    /\ FailThreshold \in Nat \ {0} /\ CooldownMax \in Nat \ {0}
    /\ BuiltinDefault \in Nat \ {0} /\ EnvSeconds \in Nat
    /\ RetryAfters \subseteq Nat /\ MaxTime \in Nat

\* Every model of a chain is a ModelID, and a duration is a number.
ASSUME ConfigAssumption ==
    \A cfg \in Configs, live \in Lives :
        /\ cfg.cooldownDuration \in Int
        /\ Endpoints(cfg, live) \in Seq([url : STRING, key : STRING, model : ModelID])

VARIABLES
    client,     \* what New built: disabled, endpoints, keys, cooldown default
    now,        \* the clock
    until,      \* until[m]: end of m's cooldown window, 0 when m is not in the map
    fails,      \* fails[m]: consecutive quota failures
    entries,    \* entries[m]: how many entry events are fired for m,
    recoveries, \* recoveries[m]: and how many recovery events
    pc,         \* pc[c]: where executeInner is in call c
    pos,        \* pos[c]: index of the scan, of the loop or of the key rotation
    skip,       \* skip[c]: skipCooled
    attempted,  \* attempted[c]: the flag of the race guard
    lastErr,    \* lastErr[c]
    ret,        \* ret[c]: what the call returned: "resp", an error, or "nil" for (nil, nil)
    ctxDone,    \* ctxDone[c]: the caller's context has ended
    attemptedAt,\* history: the endpoint positions call c has attempted,
    skippedAt,  \* skipped because their model was cooling,
    cooledAt    \* and attempted inside a window: position, model, number of the window

cool == <<until, fails, entries, recoveries>>
local == <<pc, pos, skip, attempted, lastErr, ret>>
tried == <<attemptedAt, skippedAt, cooledAt>>
vars == <<client, now, cool, local, ctxDone, tried>>

\* What one endpoint attempt (doWithRetry, up to maxRetries requests) can end
\* with: a quota error is a 429, or a 503 that carries a quota marker; a blip
\* another retryable status; failover a request this model cannot take or
\* answer; deadline the attempt's or the HTTP client's own timeout; refused a
\* transport error; fatal any other status.
Retryable == {"quota", "blip"}
Failures == Retryable \cup {"failover", "deadline", "refused", "fatal"}
Errors == Failures \cup {"canceled", "unavailable", "noKey"}

eps == client.endpoints

Init ==
    /\ \E cfg \in Configs, live \in Lives :
          client = [disabled |-> Disabled(cfg), endpoints |-> Endpoints(cfg, live),
                    keys |-> Keys(cfg),
                    dflt |-> resolveCooldownDuration(cfg.cooldownDuration,
                                                     EnvSeconds, BuiltinDefault)]
    /\ now = 1
    /\ until = [m \in ModelID |-> 0]
    /\ fails = [m \in ModelID |-> 0]
    /\ entries = [m \in ModelID |-> 0]
    /\ recoveries = [m \in ModelID |-> 0]
    /\ pc = [c \in Calls |-> "idle"]
    /\ pos = [c \in Calls |-> 1]
    /\ skip = [c \in Calls |-> FALSE]
    /\ attempted = [c \in Calls |-> FALSE]
    /\ lastErr = [c \in Calls |-> "nil"]
    /\ ret = [c \in Calls |-> "none"]
    /\ ctxDone = [c \in Calls |-> FALSE]
    /\ attemptedAt = [c \in Calls |-> {}]
    /\ skippedAt = [c \in Calls |-> {}]
    /\ cooledAt = [c \in Calls |-> {}]

Return(c, r) ==
    /\ pc' = [pc EXCEPT ![c] = "done"]
    /\ ret' = [ret EXCEPT ![c] = r]
    /\ UNCHANGED <<pos, skip, attempted>>

Goto(c, l, i) ==
    /\ pc' = [pc EXCEPT ![c] = l]
    /\ pos' = [pos EXCEPT ![c] = i]
    /\ UNCHANGED ret

\* Complete, CompleteParams, CompleteWithSystem, CompleteMultimodal: a disabled
\* client answers at once; executeInner refuses a client without any key.
Complete(c) ==
    /\ pc[c] = "idle"
    /\ \/ client.disabled /\ Return(c, "unavailable")
       \/ /\ ~client.disabled /\ eps # <<>>
          /\ Goto(c, "scan", 1) /\ UNCHANGED <<skip, attempted>>
       \/ /\ ~client.disabled /\ eps = <<>>
          /\ \/ (\A k \in DOMAIN client.keys : client.keys[k] = "") /\ Return(c, "noKey")
             \/ /\ \E k \in DOMAIN client.keys : client.keys[k] # ""
                /\ Goto(c, "key", 1) /\ UNCHANGED <<skip, attempted>>
    /\ UNCHANGED <<client, now, cool, lastErr, ctxDone, tried>>

-----------------------------------------------------------------------------
\* Mutant: a chain that is cooled as a whole is walked as a whole.
CandidatesAll(c) == Len(eps)

\* cooldownCandidates: the length of the slice the loop iterates over; only the
\* primary is left when nothing may be skipped.
Candidates(c) == IF skip[c] THEN Len(eps) ELSE 1

\* The attempt of endpoint i, if its model is inside a window: the window is
\* told by the number of windows opened for the model so far.
Hop(i) == {<<j, eps[j].model, entries[eps[j].model]>> : j \in {k \in {i} : until[eps[k].model] > now}}

\* attempted = true, and attemptEndpoint begins at endpoint i.
Attempt(c, i, l) ==
    /\ pc' = [pc EXCEPT ![c] = l]
    /\ pos' = [pos EXCEPT ![c] = i]
    /\ attempted' = [attempted EXCEPT ![c] = TRUE]
    /\ attemptedAt' = [attemptedAt EXCEPT ![c] = @ \cup {i}]
    /\ cooledAt' = [cooledAt EXCEPT ![c] = @ \cup Hop(i)]
    /\ UNCHANGED <<skip, ret, skippedAt>>

\* What the caller of cooling() does with the answer b.  hasNonCooledEndpoint
\* stops at the first model that is not cooled; when all are cooled nothing
\* will be skipped.
ScanSees(c, b) ==
    /\ \/ ~b /\ Goto(c, "loop", 1) /\ skip' = [skip EXCEPT ![c] = TRUE]
       \/ b /\ pos[c] < Len(eps) /\ Goto(c, "scan", pos[c] + 1) /\ UNCHANGED skip
       \/ b /\ pos[c] = Len(eps) /\ Goto(c, "loop", 1) /\ skip' = [skip EXCEPT ![c] = FALSE]
    /\ UNCHANGED <<attempted, tried>>

\* The loop skips a cooled model; any other is attempted next, without the lock.
LoopSees(c, b) ==
    \/ /\ b /\ Goto(c, "loop", pos[c] + 1)
       /\ skippedAt' = [skippedAt EXCEPT ![c] = @ \cup {pos[c]}]
       /\ UNCHANGED <<skip, attempted, attemptedAt, cooledAt>>
    \/ ~b /\ Goto(c, "start", pos[c]) /\ UNCHANGED <<skip, attempted, tried>>

Sees(c, b) ==
    \/ pc[c] \in {"scan", "scanLock"} /\ ScanSees(c, b)
    \/ pc[c] \in {"loop", "loopLock"} /\ LoopSees(c, b)

InLoop(c) == pc[c] = "loop" /\ pos[c] <= Candidates(c)
Asked(c) == eps[pos[c]].model

\* cooling(), the part under RLock: no entry, a live window, or an expired one
\* that has to be cleaned up under the write lock.
CoolingRead(c) ==
    /\ pc[c] = "scan" \/ (InLoop(c) /\ skip[c])
    /\ UNCHANGED <<client, now, cool, lastErr, ctxDone>>
    /\ \/ until[Asked(c)] = 0 /\ Sees(c, FALSE)
       \/ until[Asked(c)] > now /\ Sees(c, TRUE)
       \/ /\ until[Asked(c)] \in 1..now
          /\ Goto(c, IF pc[c] = "scan" THEN "scanLock" ELSE "loopLock", pos[c])
          /\ UNCHANGED <<skip, attempted, tried>>

\* Mutant: the entries go without an event.
ClearSilently(m) ==
    /\ until' = [until EXCEPT ![m] = 0]
    /\ fails' = [fails EXCEPT ![m] = 0]
    /\ UNCHANGED <<entries, recoveries>>

\* Delete both entries; the recovery edge is fired if until had one.
Clear(m) ==
    /\ until' = [until EXCEPT ![m] = 0]
    /\ fails' = [fails EXCEPT ![m] = 0]
    /\ recoveries' = [recoveries EXCEPT ![m] = IF until[m] > 0 THEN @ + 1 ELSE @]
    /\ UNCHANGED entries

\* Mutant: an entry that another call has cleaned meanwhile is announced again.
CoolingLockTwice(c) ==
    /\ pc[c] \in {"scanLock", "loopLock"}
    /\ \/ until[Asked(c)] > now /\ UNCHANGED cool /\ Sees(c, TRUE)
       \/ /\ until[Asked(c)] <= now /\ Sees(c, FALSE)
          /\ until' = [until EXCEPT ![Asked(c)] = 0]
          /\ fails' = [fails EXCEPT ![Asked(c)] = 0]
          /\ recoveries' = [recoveries EXCEPT ![Asked(c)] = @ + 1]
          /\ UNCHANGED entries
    /\ UNCHANGED <<client, now, lastErr, ctxDone>>

\* Mutant: what was read under RLock is trusted under Lock.
CoolingLockTrusting(c) ==
    /\ pc[c] \in {"scanLock", "loopLock"}
    /\ Clear(Asked(c)) /\ Sees(c, FALSE)
    /\ UNCHANGED <<client, now, lastErr, ctxDone>>

\* Mutant: the early return for an entry that is gone keeps the lock.
CoolingLockHeld(c) ==
    /\ pc[c] \in {"scanLock", "loopLock"}
    /\ \/ until[Asked(c)] > now /\ UNCHANGED cool /\ Sees(c, TRUE)
       \/ until[Asked(c)] \in 1..now /\ Clear(Asked(c)) /\ Sees(c, FALSE)
    /\ UNCHANGED <<client, now, lastErr, ctxDone>>

\* cooling(), the part under Lock: everything is looked up again.
CoolingLock(c) ==
    /\ pc[c] \in {"scanLock", "loopLock"}
    /\ \/ until[Asked(c)] = 0 /\ UNCHANGED cool /\ Sees(c, FALSE)
       \/ until[Asked(c)] > now /\ UNCHANGED cool /\ Sees(c, TRUE)
       \/ until[Asked(c)] \in 1..now /\ Clear(Asked(c)) /\ Sees(c, FALSE)
    /\ UNCHANGED <<client, now, lastErr, ctxDone>>

\* When everything was cooled, the primary is attempted without asking again.
Probe(c) ==
    /\ InLoop(c) /\ ~skip[c]
    /\ Attempt(c, pos[c], "inflight")
    /\ UNCHANGED <<client, now, cool, lastErr, ctxDone>>

\* The attempt that the answer of cooling() allowed; the model may have been
\* cooled by another call since.
Begin(c) ==
    /\ pc[c] = "start"
    /\ Attempt(c, pos[c], "inflight")
    /\ UNCHANGED <<client, now, cool, lastErr, ctxDone>>

\* Mutant: no race guard; the loop that skipped everything returns its nil error.
ExhaustedUnguarded(c) ==
    /\ pc[c] = "loop" /\ pos[c] > Candidates(c)
    /\ Return(c, lastErr[c])
    /\ UNCHANGED <<client, now, cool, lastErr, ctxDone, tried>>

\* The loop is over: the race guard attempts the primary if nothing was.
Exhausted(c) ==
    /\ pc[c] = "loop" /\ pos[c] > Candidates(c)
    /\ UNCHANGED <<client, now, cool, lastErr, ctxDone>>
    /\ \/ attempted[c] /\ Return(c, lastErr[c]) /\ UNCHANGED tried
       \/ ~attempted[c] /\ Attempt(c, 1, "lastResort")

-----------------------------------------------------------------------------
LeastOf(a, b) == IF a < b THEN a ELSE b

\* Mutant: only a Retry-After is clamped.
WindowUnclamped(ra) == IF ra > 0 THEN LeastOf(ra, CooldownMax) ELSE client.dflt

\* The length of a new window: Retry-After or the default, both clamped.
Window(ra) == LeastOf(IF ra > 0 THEN ra ELSE client.dflt, CooldownMax)

\* fails[m]++, a new window when the threshold is reached, and an entry event to
\* fire after the unlock if fresh, that is, if no window was live.
Failed(m, ra, fresh) ==
    LET reached == fails[m] + 1 >= FailThreshold
    IN  /\ fails' = [fails EXCEPT ![m] = @ + 1]
        /\ until' = [until EXCEPT ![m] = IF reached THEN now + Window(ra) ELSE @]
        /\ entries' = [entries EXCEPT ![m] = IF reached /\ fresh THEN @ + 1 ELSE @]
        /\ UNCHANGED recoveries

\* Mutant: an expired entry that was not swept yet counts as a live window.
recordFailurePresent(m, ra) == Failed(m, ra, until[m] = 0)

\* One critical section; an entry event when no window was live.
recordFailure(m, ra) == Failed(m, ra, until[m] <= now)

\* Mutant: a success forgets the failures and leaves the window.
recordSuccessPartly(m) ==
    /\ fails' = [fails EXCEPT ![m] = 0]
    /\ UNCHANGED <<until, entries, recoveries>>

\* One critical section.
recordSuccess(m) == Clear(m)

\* attemptEndpoint ends: what came back, and recordCooldownOutcome.  Once the
\* caller's context has ended nothing else can come back.
Outcome(c, m, o) ==
    \/ ~ctxDone[c] /\ o = "resp" /\ recordSuccess(m)
    \/ ~ctxDone[c] /\ o = "quota" /\ \E ra \in RetryAfters : recordFailure(m, ra)
    \/ ~ctxDone[c] /\ o \in Failures \ {"quota"} /\ UNCHANGED cool
    \/ ctxDone[c] /\ o = "canceled" /\ UNCHANGED cool

\* The attempt inside the loop; an error is classified in the next step.
AttemptEnds(c, o) ==
    /\ pc[c] = "inflight"
    /\ Outcome(c, Asked(c), o)
    /\ \/ o = "resp" /\ Return(c, o) /\ UNCHANGED lastErr
       \/ /\ o # "resp" /\ Goto(c, "classify", pos[c])
          /\ lastErr' = [lastErr EXCEPT ![c] = o]
          /\ UNCHANGED <<skip, attempted>>
    /\ UNCHANGED <<client, now, ctxDone, tried>>

\* The race guard's attempt is returned as it is.
LastResortEnds(c, o) ==
    /\ pc[c] = "lastResort"
    /\ Outcome(c, Asked(c), o)
    /\ Return(c, o)
    /\ UNCHANGED <<client, now, lastErr, ctxDone, tried>>

\* Mutant: a timeout of the attempt ends the chain.
AdvancesOnStatus(c, e) == e \in Retryable \cup {"failover"}

\* A slow endpoint under a live context, a failover error and a retryable error
\* advance the chain.
Advances(c, e) ==
    \/ e = "deadline" /\ ~ctxDone[c]
    \/ e \in Retryable \cup {"failover"}

\* The loop goes on, or the error ends the call.
Classify(c) ==
    /\ pc[c] = "classify"
    /\ \/ /\ Advances(c, lastErr[c])
          /\ Goto(c, "loop", pos[c] + 1) /\ UNCHANGED <<skip, attempted>>
       \/ ~Advances(c, lastErr[c]) /\ Return(c, lastErr[c])
    /\ UNCHANGED <<client, now, cool, lastErr, ctxDone, tried>>

\* Without endpoints: the keys in turn, whatever the error was.
KeyEnds(c, o) ==
    /\ pc[c] = "key"
    /\ IF ctxDone[c] THEN o = "canceled" ELSE o \in Failures \cup {"resp"}
    /\ \/ (o = "resp" \/ pos[c] = Len(client.keys)) /\ Return(c, o)
       \/ /\ o # "resp" /\ pos[c] < Len(client.keys)
          /\ Goto(c, "key", pos[c] + 1) /\ UNCHANGED <<skip, attempted>>
    /\ UNCHANGED <<client, now, cool, lastErr, ctxDone, tried>>

\* The caller cancels or its deadline passes.
Cancel(c) ==
    /\ pc[c] # "done" /\ ~ctxDone[c]
    /\ ctxDone' = [ctxDone EXCEPT ![c] = TRUE]
    /\ UNCHANGED <<client, now, cool, local, tried>>

Tick ==
    /\ now < MaxTime /\ now' = now + 1
    /\ UNCHANGED <<client, cool, local, ctxDone, tried>>

Outcomes == Failures \cup {"resp", "canceled"}

Step(c) ==
    \/ Complete(c) \/ CoolingRead(c) \/ CoolingLock(c) \/ Probe(c) \/ Begin(c)
    \/ Exhausted(c) \/ Classify(c)
    \/ \E o \in Outcomes : AttemptEnds(c, o) \/ LastResortEnds(c, o) \/ KeyEnds(c, o)

Next == Tick \/ \E c \in Calls : Step(c) \/ Cancel(c)

\* Every step of a call is its own goroutine's; an attempt ends because the
\* HTTP client has a timeout.
Fairness == \A c \in Calls : WF_vars(Step(c))

Spec == Init /\ [][Next]_vars /\ Fairness

-----------------------------------------------------------------------------
TypeOK ==
    /\ now \in 1..MaxTime
    /\ until \in [ModelID -> 0..(MaxTime + CooldownMax)]
    /\ fails \in [ModelID -> Nat]
    /\ entries \in [ModelID -> Nat] /\ recoveries \in [ModelID -> Nat]
    /\ pc \in [Calls -> {"idle", "scan", "scanLock", "loop", "loopLock", "start", "inflight",
                         "lastResort", "classify", "key", "done"}]
    /\ skip \in [Calls -> BOOLEAN] /\ attempted \in [Calls -> BOOLEAN]
    /\ lastErr \in [Calls -> Errors \cup {"nil"}]
    /\ ret \in [Calls -> Errors \cup {"none", "nil", "resp"}]
    /\ ctxDone \in [Calls -> BOOLEAN]
    /\ \A c \in Calls : pc[c] \in {"scan", "scanLock", "loopLock", "start", "inflight",
                                   "classify", "lastResort"} => pos[c] \in DOMAIN eps

\* executeInner never returns (nil, nil), whatever other calls cool between the
\* snapshot of cooldownCandidates and the loop: CompleteRaw dereferences the
\* response when the error is nil (the race guard in transport.go).
NeverNilNil == \A c \in Calls : ret[c] # "nil"

\* A window costs a call at most one dead hop: another call may open it after
\* cooling() has answered and before the attempt, and a chain that cools as a
\* whole has its primary asked, but in one window no call attempts a model twice,
\* at whichever endpoints (the skip of executeInner, cooldownCandidates and the
\* race guard; "dropping ... the per-call dead hop", go-kit llm/cooldown.go).
OneHopPerWindow ==
    \A c \in Calls : \A x, y \in cooledAt[c] : x[2] = y[2] /\ x[3] = y[3] => x[1] = y[1]

\* A call of executeInner has a result, and a cooled model delays it once.
AnswerSound == NeverNilNil /\ OneHopPerWindow

\* A chain that ends with an error the next model might not have has looked at
\* every endpoint: attempted it, or skipped it because its model was cooling
\* (the error classification of executeInner).  Not for the all-cooled probe,
\* which looked at all of them before.
ChainExhausted ==
    \A c \in Calls :
        /\ skip[c]
        /\ ret[c] \in Retryable \cup {"failover"} \/ (ret[c] = "deadline" /\ ~ctxDone[c])
        => attemptedAt[c] \cup skippedAt[c] = DOMAIN eps

\* Only FailThreshold consecutive quota failures put a model into the map, and
\* the map and the failure count are cleared together (recordFailure,
\* recordSuccess, cooling).
CooledHasFailed == \A m \in ModelID : until[m] > 0 => fails[m] >= FailThreshold

\* No window is longer than CooldownConfig.Max, wherever its length came from
\* (the second if of recordFailure).
WindowBounded == \A m \in ModelID : until[m] <= now + CooldownMax

\* Whatever the order in which they arrive, the events about a model pair up:
\* each recovery belongs to an entry event of its own, the last of which is
\* unanswered while the model is in the map, and a model that has left the map
\* was announced as recovered (no double fire of two concurrent sweeps, no gauge
\* that stays at 1: cooling, recordSuccess).
EventsPaired ==
    \A m \in ModelID :
        /\ recoveries[m] + (IF until[m] > 0 THEN 1 ELSE 0) <= entries[m]
        /\ until[m] = 0 /\ entries[m] > 0 => recoveries[m] > 0

\* The maps of modelCooldown and its events agree with each other.
CooldownSound == CooledHasFailed /\ WindowBounded /\ EventsPaired

\* A live window is closed by time or by a success of that model, never by
\* another call's clean-up of an expired one (the second look of cooling()).
WindowEndsByTimeOrSuccess ==
    [][\A m \in ModelID :
         until[m] > now /\ until'[m] <= now'
         => \/ now' # now
            \/ \E c \in Calls : pc[c] \in {"inflight", "lastResort"} /\ Asked(c) = m
                                /\ ret'[c] = "resp"]_vars

\* One entry event per window: it is sent when a window opens, also when the
\* expired one before it was never swept, and not when a live one is prolonged
\* (wasActivelyCooling in recordFailure).
EntryPerWindow ==
    [][\A m \in ModelID :
         entries'[m] - entries[m] = IF until[m] <= now /\ until'[m] > now' THEN 1 ELSE 0]_vars

\* A cooldown window opens with one event and is closed by time or success only;
\* a later failure may move its end.
WindowsKept == WindowEndsByTimeOrSuccess /\ EntryPerWindow

\* Every call returns, although models are cooled and skipped under it.
Terminates == \A c \in Calls : pc[c] = "scan" ~> pc[c] = "done"

\* Every walk along the chain ends, and not before it has to.
ChainEnds == []ChainExhausted /\ Terminates
=============================================================================
