--------------------------- MODULE Fetcher_proofs ---------------------------
(***************************************************************************)
(* Type correctness of Fetcher, the bound on recorded failures, the       *)
(* quarantines of URLs and hosts, the winding down of cancelled calls and   *)
(* the classification of failures, for any number of calls and retries.    *)
(***************************************************************************)
EXTENDS Fetcher, FiniteSetTheorems, TLAPS

\* The fallback chain is a sequence, empty exactly when no renderer is configured.
LEMMA FallbacksLen == Len(Fallbacks) \in Nat /\ (hasFallback => 0 < Len(Fallbacks))
BY ConfigAssumption DEF Renderers, hasFallback

\* What an answer can carry.
LEMMA AnswerType ==
    ASSUME NEW f \in Fetches, NEW R \in SUBSET Response, NEW r \in Answers(f, R)
    PROVE  /\ r.err \in {"nil", "net", "ctx", "other"}
           /\ r.status \in Status
           /\ DirectResult(r) \in Errors
           /\ NetResult(r) \in Errors
<1>1. r \in Response
  BY DEF Answers, CtxError, Response, Status
<1> QED BY <1>1 DEF Response, DirectResult, NetResult, Errors, classifyBlock

\* Finishing the primary tier keeps the call typed and inside the fallback chain.
LEMMA PrimaryDoneType ==
    ASSUME TypeOK, NEW f \in Fetches, NEW e \in Errors, PrimaryDone(f, e)
    PROVE  /\ err' \in [Fetches -> Errors]
           /\ attempt' \in [Fetches -> Nat]
           /\ phase' \in [Fetches -> Phases]
           /\ \A g \in Fetches :
                 phase'[g] \in {"fallback", "render"} => attempt'[g] < Len(Fallbacks)
           /\ phase' = [phase EXCEPT ![f] = phase'[f]] /\ phase'[f] # "idle"
BY FallbacksLen DEF TypeOK, PrimaryDone, Goto, Phases

\* Moving to another phase keeps the types.
LEMMA GotoType ==
    ASSUME TypeOK, NEW f \in Fetches, NEW p \in Phases, Goto(f, p)
    PROVE  phase' \in [Fetches -> Phases]
BY DEF TypeOK, Goto

\* Every step keeps the types.
LEMMA TypeStep == TypeOK /\ [Next]_vars => TypeOK'
<1> SUFFICES ASSUME TypeOK, [Next]_vars PROVE TypeOK'
  OBVIOUS
<1>1. ASSUME NEW f \in Fetches, NEW u \in URLs, Start(f, u) PROVE TypeOK'
  <2>1. Evicted(u) \in [attempts : Nat, permanent : BOOLEAN, stale : BOOLEAN]
    BY DEF TypeOK, Evicted, NoEntry
  <2>2. entries' \in [URLs -> [attempts : Nat, permanent : BOOLEAN, stale : BOOLEAN]]
    BY <1>1, <2>1 DEF TypeOK, Start
  <2>3. phase' \in [Fetches -> Phases] /\ err' \in [Fetches -> Errors]
    BY <1>1 DEF TypeOK, Start, Goto, FirstTier, Phases, Errors
  <2>4. url' \in [Fetches -> URLs] /\ ctx' \in [Fetches -> {"live", "ended"}]
    BY <1>1 DEF TypeOK, Start
  <2>5. attempt' \in [Fetches -> Nat] /\ late' \in [Fetches -> Nat] /\ seen' \in [Fetches -> Status]
    BY <1>1 DEF TypeOK, Start, Status
  <2>6. \A g \in Fetches : phase'[g] \in {"fallback", "render"} => attempt'[g] < Len(Fallbacks)
    BY <1>1, FallbacksLen DEF TypeOK, Start, Goto, FirstTier
  <2> QED BY <1>1, <2>2, <2>3, <2>4, <2>5, <2>6 DEF TypeOK, Start
<1>2. ASSUME NEW f \in Fetches, CtxEnds(f) PROVE TypeOK'
  BY <1>2 DEF TypeOK, CtxEnds
<1>3. ASSUME NEW f \in Fetches, Route(f) PROVE TypeOK'
  BY <1>3 DEF TypeOK, Route, Goto, Phases
<1>4. ASSUME NEW f \in Fetches, Dial(f) PROVE TypeOK'
  <2>1. HostOf[url[f]] \in Hosts
    BY DEF TypeOK, Hosts
  <2>2. stray' \in [Hosts -> Nat]
    BY <1>4, <2>1 DEF TypeOK, Dial
  <2> QED BY <1>4, <2>2 DEF TypeOK, Dial, Goto, Issue, Phases
<1>5. ASSUME NEW f \in Fetches, DirectAnswer(f) PROVE TypeOK'
  <2>1. PICK r \in Answers(f, DirectResponses) :
          /\ seen' = [seen EXCEPT ![f] = r.status]
          /\ blocked' = IF classifyBlock(r) = "none" THEN blocked
                        ELSE blocked \cup {HostOf[url[f]]}
          /\ IF classifyBlock(r) # "none" /\ HasProxy
             THEN Goto(f, "retry") /\ UNCHANGED <<err, attempt>>
             ELSE PrimaryDone(f, DirectResult(r))
    BY <1>5 DEF DirectAnswer
  <2>2. r.status \in Status /\ DirectResult(r) \in Errors
    BY AnswerType, ResponsesAssumption
  <2>3. blocked' \subseteq Hosts /\ seen' \in [Fetches -> Status]
    BY <2>1, <2>2 DEF TypeOK, Hosts
  <2>4. CASE PrimaryDone(f, DirectResult(r))
    BY <1>5, <2>2, <2>3, <2>4, PrimaryDoneType DEF TypeOK, DirectAnswer
  <2>5. CASE Goto(f, "retry") /\ UNCHANGED <<err, attempt>>
    BY <1>5, <2>3, <2>5 DEF TypeOK, DirectAnswer, Goto, Phases
  <2> QED BY <2>1, <2>4, <2>5
<1>6. ASSUME NEW f \in Fetches, Retry(f) PROVE TypeOK'
  <2>1. CASE PrimaryDone(f, "ctx") /\ UNCHANGED late
    <3>1. "ctx" \in Errors
      BY DEF Errors
    <3> QED BY <1>6, <2>1, <3>1, PrimaryDoneType DEF TypeOK, Retry
  <2>2. CASE Goto(f, "proxy") /\ Issue(f) /\ UNCHANGED <<err, attempt>>
    BY <1>6, <2>2 DEF TypeOK, Retry, Goto, Issue, Phases
  <2> QED BY <1>6, <2>1, <2>2 DEF Retry
<1>7. ASSUME NEW f \in Fetches, ProxyAnswer(f) PROVE TypeOK'
  <2>1. PICK r \in Answers(f, NetResponses) :
          /\ seen' = [seen EXCEPT ![f] = r.status]
          /\ IF Retried(r) /\ attempt[f] < MaxRetries
             THEN /\ Goto(f, "retry")
                  /\ attempt' = [attempt EXCEPT ![f] = @ + 1]
                  /\ UNCHANGED err
             ELSE PrimaryDone(f, NetResult(r))
    BY <1>7 DEF ProxyAnswer
  <2>2. r.status \in Status /\ NetResult(r) \in Errors
    BY AnswerType, ResponsesAssumption
  <2>3. seen' \in [Fetches -> Status]
    BY <2>1, <2>2 DEF TypeOK
  <2>4. CASE PrimaryDone(f, NetResult(r))
    BY <1>7, <2>2, <2>3, <2>4, PrimaryDoneType DEF TypeOK, ProxyAnswer
  <2>5. CASE Goto(f, "retry") /\ attempt' = [attempt EXCEPT ![f] = @ + 1] /\ UNCHANGED err
    BY <1>7, <2>3, <2>5 DEF TypeOK, ProxyAnswer, Goto, Phases
  <2> QED BY <2>1, <2>4, <2>5
<1>8. ASSUME NEW f \in Fetches, Fallback(f) PROVE TypeOK'
  <2>1. (Goto(f, "record") /\ UNCHANGED late) \/ (Goto(f, "render") /\ Issue(f))
    BY <1>8 DEF Fallback
  <2>2. "record" \in Phases /\ "render" \in Phases
    BY DEF Phases
  <2>3. phase' \in [Fetches -> Phases]
    BY <2>1, <2>2, GotoType
  <2>4. late' \in [Fetches -> Nat]
    <3>1. CASE Issue(f)
      BY <3>1 DEF TypeOK, Issue
    <3>2. CASE UNCHANGED late
      BY <3>2 DEF TypeOK
    <3> QED BY <2>1, <3>1, <3>2
  <2>5. \A g \in Fetches : phase'[g] \in {"fallback", "render"} => attempt'[g] < Len(Fallbacks)
    BY <1>8 DEF TypeOK, Fallback, Goto
  <2> QED BY <1>8, <2>3, <2>4, <2>5 DEF TypeOK, Fallback
<1>9. ASSUME NEW f \in Fetches, RenderFails(f) PROVE TypeOK'
  <2>1. (Goto(f, "fallback") /\ attempt' = [attempt EXCEPT ![f] = @ + 1])
        \/ (Goto(f, "record") /\ UNCHANGED attempt)
    BY <1>9 DEF RenderFails
  <2>2. "record" \in Phases /\ "fallback" \in Phases
    BY DEF Phases
  <2>3. phase' \in [Fetches -> Phases]
    BY <2>1, <2>2, GotoType
  <2>4. attempt' \in [Fetches -> Nat]
    BY <2>1 DEF TypeOK
  <2>5. \A g \in Fetches : phase'[g] \in {"fallback", "render"} => attempt'[g] < Len(Fallbacks)
    BY <1>9, FallbacksLen DEF TypeOK, RenderFails, Goto
  <2> QED BY <1>9, <2>3, <2>4, <2>5 DEF TypeOK, RenderFails
<1>10. ASSUME NEW f \in Fetches, RenderOK(f) PROVE TypeOK'
  BY <1>10 DEF TypeOK, RenderOK, Goto, Phases, Errors
<1>11. ASSUME NEW f \in Fetches, Record(f) PROVE TypeOK'
  <2>1. phase' \in [Fetches -> Phases]
        /\ \A g \in Fetches : phase'[g] \in {"fallback", "render"} => attempt'[g] < Len(Fallbacks)
    BY <1>11 DEF TypeOK, Record, Goto, Phases
  <2>2. entries' \in [URLs -> [attempts : Nat, permanent : BOOLEAN, stale : BOOLEAN]]
    BY <1>11 DEF TypeOK, Record, RecordSuccess, RecordAttempt, isPermanentError, NoEntry
  <2> QED BY <1>11, <2>1, <2>2 DEF TypeOK, Record
<1>12. ASSUME NEW u \in URLs, Age(u) PROVE TypeOK'
  BY <1>12 DEF TypeOK, Age
<1>13. ASSUME NEW h \in Hosts, Expire(h) PROVE TypeOK'
  BY <1>13 DEF TypeOK, Expire
<1>14. CASE UNCHANGED vars
  BY <1>14 DEF TypeOK, vars
<1> QED BY <1>1, <1>2, <1>3, <1>4, <1>5, <1>6, <1>7, <1>8, <1>9, <1>10, <1>11, <1>12, <1>13, <1>14
        DEF Next, Step, BoundReached

LEMMA TypeInit == Init => TypeOK
BY FetchesAssumption DEF Init, TypeOK, NoEntry, Phases, Errors, Status

\* Every reachable state of the fetcher is well typed, and a call in the fallback
\* chain points at a configured renderer.
THEOREM TypeCorrect == Spec => []TypeOK
BY TypeInit, TypeStep, PTL DEF Spec

-----------------------------------------------------------------------------
\* The bound on one URL: failures recorded plus calls that may still record one.
Room(u) == entries[u].attempts + Cardinality(InFlight(u)) <= MaxAttempts - 1 + Cardinality(Fetches)

\* The calls in flight are finitely many, at most all of them.
LEMMA InFlightFinite ==
    ASSUME NEW u \in URLs
    PROVE  /\ IsFiniteSet(InFlight(u)) /\ Cardinality(InFlight(u)) \in Nat
           /\ Cardinality(Fetches) \in Nat
           /\ Cardinality(InFlight(u)) <= Cardinality(Fetches)
<1>1. InFlight(u) \subseteq Fetches
  BY DEF InFlight
<1> QED BY <1>1, FetchesAssumption, FS_Subset, FS_CardinalityType

\* A step that moves no call into or out of flight and leaves the counters alone,
\* or lowers one, keeps the bound.
LEMMA RoomKept ==
    ASSUME TypeOK, TypeOK', NEW u \in URLs, Room(u),
           InFlight(u)' \subseteq InFlight(u),
           entries'[u].attempts <= entries[u].attempts
    PROVE  Room(u)'
<1>1. Cardinality(InFlight(u)') \in Nat /\ Cardinality(InFlight(u)') <= Cardinality(InFlight(u))
  BY InFlightFinite, FS_Subset, FS_CardinalityType
<1>2. entries[u].attempts \in Nat /\ entries'[u].attempts \in Nat
  BY DEF TypeOK
<1> QED BY <1>1, <1>2, InFlightFinite, LimitsAssumption DEF Room

\* ShouldRetry admits a call only below maxAttempts.
LEMMA StartRoom ==
    ASSUME TypeOK, TypeOK', ~hasFallback, NEW f \in Fetches, NEW v \in URLs, Start(f, v),
           NEW u \in URLs, Room(u)
    PROVE  Room(u)'
<1>1. CASE u # v
  <2>1. InFlight(u)' \subseteq InFlight(u) /\ entries'[u] = entries[u]
    BY <1>1 DEF Start, Goto, InFlight, TypeOK
  <2>2. entries'[u].attempts <= entries[u].attempts
    BY <2>1 DEF TypeOK
  <2> QED BY <2>1, <2>2, RoomKept
<1>2. CASE u = v /\ ~ShouldRetry(Evicted(u))
  <2>1. phase'[f] = "idle" /\ phase' = phase
    BY <1>2 DEF Start, Goto, TypeOK
  <2>2. InFlight(u)' \subseteq InFlight(u)
    BY <1>2, <2>1 DEF Start, InFlight, TypeOK
  <2>3. entries'[u].attempts <= entries[u].attempts
    BY <1>2 DEF Start, Evicted, NoEntry, TypeOK
  <2> QED BY <2>2, <2>3, RoomKept
<1>3. CASE u = v /\ ShouldRetry(Evicted(u))
  <2>1. entries'[u] = Evicted(u)
    BY <1>3 DEF Start, TypeOK
  <2>2. entries'[u].attempts \in Nat /\ entries'[u].attempts < MaxAttempts
    BY <1>3, <2>1 DEF ShouldRetry, TypeOK
  <2>3. Cardinality(InFlight(u)') \in Nat /\ Cardinality(InFlight(u)') <= Cardinality(Fetches)
        /\ Cardinality(Fetches) \in Nat
    <3>1. InFlight(u)' \subseteq Fetches
      BY DEF InFlight
    <3> QED BY <3>1, FetchesAssumption, FS_Subset, FS_CardinalityType
  <2> QED BY <2>2, <2>3, LimitsAssumption DEF Room
<1> QED BY <1>1, <1>2, <1>3

\* A call that records a failure leaves the calls in flight.
LEMMA RecordRoom ==
    ASSUME TypeOK, TypeOK', NEW f \in Fetches, Record(f), NEW u \in URLs, Room(u)
    PROVE  Room(u)'
<1>1. CASE u # url[f]
  <2>1. InFlight(u)' \subseteq InFlight(u) /\ entries'[u] = entries[u]
    BY <1>1 DEF Record, RecordSuccess, RecordAttempt, Goto, InFlight, TypeOK
  <2>2. entries'[u].attempts <= entries[u].attempts
    BY <2>1 DEF TypeOK
  <2> QED BY <2>1, <2>2, RoomKept
<1>2. CASE u = url[f]
  <2>1. f \in InFlight(u) /\ InFlight(u)' = InFlight(u) \ {f}
    BY <1>2 DEF Record, Goto, InFlight, TypeOK
  <2>2. Cardinality(InFlight(u)') = Cardinality(InFlight(u)) - 1
    BY <2>1, InFlightFinite, FS_RemoveElement
  <2>3. entries[u].attempts \in Nat /\ entries'[u].attempts \in Nat
        /\ entries'[u].attempts <= entries[u].attempts + 1
    BY <1>2 DEF Record, RecordSuccess, RecordAttempt, NoEntry, TypeOK
  <2> QED BY <2>2, <2>3, InFlightFinite, LimitsAssumption DEF Room
<1> QED BY <1>1, <1>2

\* The steps inside a call, and those of the environment, keep the bound.
LEMMA OtherRoom ==
    ASSUME TypeOK, TypeOK', NEW u \in URLs, Room(u),
           \/ \E f \in Fetches : \/ Route(f) \/ Dial(f) \/ DirectAnswer(f) \/ Retry(f)
                                \/ ProxyAnswer(f) \/ Fallback(f) \/ RenderFails(f)
                                \/ RenderOK(f) \/ CtxEnds(f)
           \/ \E v \in URLs : Age(v)
           \/ \E h \in Hosts : Expire(h)
           \/ UNCHANGED vars
    PROVE  Room(u)'
<1>1. url' = url /\ entries'[u].attempts = entries[u].attempts
  <2>1. ASSUME NEW v \in URLs, Age(v) PROVE url' = url /\ entries'[u].attempts = entries[u].attempts
    BY <2>1 DEF TypeOK, Age
  <2>2. ASSUME url' = url, entries' = entries
        PROVE  url' = url /\ entries'[u].attempts = entries[u].attempts
    BY <2>2
  <2> QED BY <2>1, <2>2 DEF Route, Dial, DirectAnswer, Retry, ProxyAnswer, Fallback, RenderFails,
                            RenderOK, CtxEnds, Expire, vars
<1>2. \A g \in Fetches : phase[g] = "idle" => phase'[g] = "idle"
  <2>1. ASSUME NEW f \in Fetches, Route(f) \/ Dial(f) \/ Fallback(f) \/ RenderFails(f) \/ RenderOK(f)
        PROVE  \A g \in Fetches : phase[g] = "idle" => phase'[g] = "idle"
    BY <2>1 DEF TypeOK, Route, Dial, Fallback, RenderFails, RenderOK, Goto
  <2>2. ASSUME NEW f \in Fetches, DirectAnswer(f) \/ Retry(f) \/ ProxyAnswer(f)
        PROVE  \A g \in Fetches : phase[g] = "idle" => phase'[g] = "idle"
    BY <2>2 DEF TypeOK, DirectAnswer, Retry, ProxyAnswer, PrimaryDone, Goto
  <2>3. ASSUME phase' = phase PROVE \A g \in Fetches : phase[g] = "idle" => phase'[g] = "idle"
    BY <2>3
  <2> QED BY <2>1, <2>2, <2>3 DEF CtxEnds, Age, Expire, vars
<1>3. InFlight(u)' \subseteq InFlight(u)
  BY <1>1, <1>2 DEF InFlight
<1>4. entries'[u].attempts <= entries[u].attempts
  BY <1>1 DEF TypeOK
<1> QED BY <1>3, <1>4, RoomKept

\* Without renderers the retry tracker never records more failures of a URL than
\* maxAttempts - 1 plus the number of concurrent callers, although ShouldRetry and
\* RecordAttempt are separate critical sections.
THEOREM AttemptsBoundHolds == Spec => []AttemptsBound
<1>1. Init => AttemptsBound
  <2> SUFFICES ASSUME Init, NEW u \in URLs PROVE Room(u)
    BY DEF AttemptsBound, Room
  <2>1. InFlight(u) = {} /\ entries[u].attempts = 0
    BY DEF Init, InFlight, NoEntry
  <2>2. Cardinality(InFlight(u)) = 0
    BY <2>1, FS_EmptySet
  <2> QED BY <2>1, <2>2, InFlightFinite, LimitsAssumption DEF Room
<1>2. TypeOK /\ TypeOK' /\ AttemptsBound /\ [Next]_vars => AttemptsBound'
  <2> SUFFICES ASSUME TypeOK, TypeOK', AttemptsBound, [Next]_vars, ~hasFallback, NEW u \in URLs
               PROVE  Room(u)'
    BY DEF AttemptsBound, Room, hasFallback
  <2>1. Room(u)
    BY DEF AttemptsBound, Room
  <2> QED BY <2>1, StartRoom, RecordRoom, OtherRoom DEF Next, Step, BoundReached
<1> QED BY <1>1, <1>2, TypeCorrect, PTL DEF Spec

-----------------------------------------------------------------------------
\* A step of one call leaves the state of every other call alone.
LEMMA OthersKept ==
    ASSUME TypeOK, NEW f \in Fetches, NEW g \in Fetches, g # f,
           Step(f) \/ CtxEnds(f) \/ \E u \in URLs : Start(f, u)
    PROVE  /\ phase'[g] = phase[g] /\ url'[g] = url[g] /\ ctx'[g] = ctx[g]
           /\ attempt'[g] = attempt[g] /\ err'[g] = err[g]
           /\ seen'[g] = seen[g] /\ late'[g] = late[g]
<1> DEFINE Kept == /\ phase'[g] = phase[g] /\ url'[g] = url[g] /\ ctx'[g] = ctx[g]
                   /\ attempt'[g] = attempt[g] /\ err'[g] = err[g]
                   /\ seen'[g] = seen[g] /\ late'[g] = late[g]
<1>1. CASE Route(f) \/ Dial(f) \/ RenderOK(f) \/ Record(f) \/ CtxEnds(f)
  BY <1>1 DEF TypeOK, Route, Dial, RenderOK, Record, CtxEnds, Goto, Issue
<1>2. CASE DirectAnswer(f)
  BY <1>2 DEF TypeOK, DirectAnswer, PrimaryDone, Goto
<1>3. CASE Retry(f)
  BY <1>3 DEF TypeOK, Retry, PrimaryDone, Goto, Issue
<1>4. CASE ProxyAnswer(f)
  BY <1>4 DEF TypeOK, ProxyAnswer, PrimaryDone, Goto
<1>5. CASE Fallback(f)
  BY <1>5 DEF TypeOK, Fallback, Goto, Issue
<1>6. CASE RenderFails(f)
  BY <1>6 DEF TypeOK, RenderFails, Goto
<1>7. ASSUME NEW u \in URLs, Start(f, u) PROVE Kept
  BY <1>7 DEF TypeOK, Start, Goto
<1> QED BY <1>1, <1>2, <1>3, <1>4, <1>5, <1>6, <1>7 DEF Step

-----------------------------------------------------------------------------
(* WindsDown.  A bare bound on the late requests is not inductive: how many *)
(* a call may still issue depends on the tier it has reached.               *)

\* The requests issued late so far, tier by tier: none while the context is live
\* or before the direct request is out, one in the primary tier and when its
\* failure reaches the first renderer.
Drained(f) ==
    /\ ctx[f] = "live" => late[f] = 0
    /\ phase[f] \in {"route", "dial"} => late[f] = 0
    /\ phase[f] \in {"direct", "retry", "proxy"} => late[f] <= 1
    /\ (phase[f] = "fallback" /\ attempt[f] = 0) => late[f] <= 1
    /\ late[f] <= 1 + (IF hasFallback /\ Fallbacks[1] = "ox" THEN 1 ELSE 0)

\* ox-browser comes first or not at all.
LEMMA OnlyFirstIsOx ==
    \A k \in 1..Len(Fallbacks) : Fallbacks[k] = "ox" => k = 1
BY ConfigAssumption DEF Renderers

\* The primary tier hands over at most one late request.
LEMMA PrimaryDoneDrained ==
    ASSUME TypeOK, NEW f \in Fetches, NEW e, PrimaryDone(f, e), Drained(f),
           late' = late, ctx' = ctx, late[f] <= 1
    PROVE  Drained(f)'
<1>1. /\ phase'[f] \in {"fallback", "record"} /\ late[f] \in Nat
      /\ late'[f] = late[f] /\ ctx'[f] = ctx[f]
  BY DEF TypeOK, PrimaryDone, Goto
<1> QED BY <1>1 DEF Drained

\* A step of the call itself keeps its count.
LEMMA DrainedStep ==
    ASSUME TypeOK, NEW f \in Fetches, Drained(f),
           Step(f) \/ CtxEnds(f) \/ \E u \in URLs : Start(f, u)
    PROVE  Drained(f)'
<1>0. late[f] \in Nat
  BY DEF TypeOK
<1>1. ASSUME NEW u \in URLs, Start(f, u) PROVE Drained(f)'
  <2>1. late'[f] = 0
    BY <1>1 DEF TypeOK, Start
  <2> QED BY <2>1 DEF Drained
<1>2. CASE CtxEnds(f)
  <2>1. late'[f] = late[f] /\ phase' = phase /\ attempt' = attempt /\ ctx'[f] # "live"
    BY <1>2 DEF TypeOK, CtxEnds
  <2> QED BY <2>1 DEF Drained
<1>3. CASE Route(f)
  <2>1. late' = late /\ ctx' = ctx /\ phase'[f] \in {"retry", "dial"} /\ late[f] = 0
    BY <1>3 DEF TypeOK, Route, Goto, Drained
  <2> QED BY <2>1 DEF Drained
<1>4. CASE Dial(f)
  <2>1. /\ ctx' = ctx /\ phase'[f] = "direct" /\ late[f] = 0
        /\ late'[f] = IF ctx[f] = "live" THEN 0 ELSE 1
    BY <1>0, <1>4 DEF TypeOK, Dial, Goto, Issue, Drained
  <2> QED BY <2>1 DEF Drained
<1>5. CASE DirectAnswer(f)
  <2>1. late[f] <= 1 /\ late' = late /\ ctx' = ctx
    BY <1>5 DEF DirectAnswer, Drained
  <2>2. ASSUME NEW e, PrimaryDone(f, e) PROVE Drained(f)'
    BY <2>1, <2>2, PrimaryDoneDrained
  <2>3. CASE Goto(f, "retry")
    <3>1. phase'[f] = "retry"
      BY <2>3 DEF TypeOK, Goto
    <3> QED BY <2>1, <3>1 DEF Drained
  <2> QED BY <1>5, <2>2, <2>3 DEF DirectAnswer
<1>6. CASE Retry(f)
  <2>1. CASE ctx[f] = "live" /\ Goto(f, "proxy") /\ Issue(f)
    <3>1. late'[f] = 0 /\ phase'[f] = "proxy"
      BY <1>0, <2>1 DEF TypeOK, Goto, Issue, Drained
    <3> QED BY <3>1 DEF Drained
  <2>2. CASE PrimaryDone(f, "ctx") /\ UNCHANGED late
    <3>1. late[f] <= 1 /\ late' = late /\ ctx' = ctx
      BY <1>6, <2>2 DEF Retry, Drained
    <3> QED BY <2>2, <3>1, PrimaryDoneDrained
  <2> QED BY <1>6, <2>1, <2>2 DEF Retry
<1>7. CASE ProxyAnswer(f)
  <2>1. late[f] <= 1 /\ late' = late /\ ctx' = ctx
    BY <1>7 DEF ProxyAnswer, Drained
  <2>2. ASSUME NEW e, PrimaryDone(f, e) PROVE Drained(f)'
    BY <2>1, <2>2, PrimaryDoneDrained
  <2>3. CASE Goto(f, "retry")
    <3>1. phase'[f] = "retry"
      BY <2>3 DEF TypeOK, Goto
    <3> QED BY <2>1, <3>1 DEF Drained
  <2> QED BY <1>7, <2>2, <2>3 DEF ProxyAnswer
<1>8. CASE Fallback(f)
  <2>1. phase'[f] \in {"render", "record"} /\ ctx' = ctx
    BY <1>8 DEF TypeOK, Fallback, Goto
  <2>2. CASE late' = late
    BY <2>1, <2>2 DEF Drained
  <2>3. CASE Issue(f) /\ ctx[f] = "live"
    <3>1. late'[f] = late[f]
      BY <1>0, <2>3 DEF TypeOK, Issue
    <3> QED BY <2>1, <3>1 DEF Drained
  <2>4. CASE Issue(f) /\ ctx[f] # "live" /\ Fallbacks[attempt[f] + 1] = "ox"
    <3>1. attempt[f] \in Nat /\ attempt[f] < Len(Fallbacks)
      BY <1>8 DEF TypeOK, Fallback
    <3>2. attempt[f] + 1 \in 1..Len(Fallbacks) /\ hasFallback
      BY <3>1, FallbacksLen DEF hasFallback
    <3>3. attempt[f] = 0
      BY <2>4, <3>1, <3>2, OnlyFirstIsOx
    <3>4. late'[f] = late[f] + 1 /\ late[f] <= 1
      BY <1>0, <1>8, <2>4, <3>3 DEF TypeOK, Issue, Fallback, Drained
    <3>5. Fallbacks[1] = "ox"
      BY <2>4, <3>3
    <3> QED BY <1>0, <2>1, <2>4, <3>2, <3>4, <3>5 DEF Drained, hasFallback
  <2> QED BY <1>8, <2>2, <2>3, <2>4 DEF Fallback
<1>9. CASE RenderFails(f)
  <2>1. late' = late /\ ctx' = ctx /\ attempt[f] \in Nat
    BY <1>9 DEF TypeOK, RenderFails
  <2>2. phase'[f] = "record" \/ (phase'[f] = "fallback" /\ attempt'[f] = attempt[f] + 1)
    BY <1>9 DEF TypeOK, RenderFails, Goto
  <2> QED BY <2>1, <2>2 DEF Drained
<1>10. CASE RenderOK(f) \/ Record(f)
  <2>1. late' = late /\ ctx' = ctx /\ phase'[f] \in {"record", "idle"}
    BY <1>10 DEF TypeOK, RenderOK, Record, Goto
  <2> QED BY <2>1 DEF Drained
<1> QED BY <1>1, <1>2, <1>3, <1>4, <1>5, <1>6, <1>7, <1>8, <1>9, <1>10 DEF Step

\* Whatever retries and renderers are configured, a call whose context has ended
\* issues at most one direct and one ox-browser request more.
THEOREM WindsDownHolds == Spec => []WindsDown
<1> DEFINE Inv == \A f \in Fetches : Drained(f)
<1>1. Init => Inv
  BY DEF Init, Drained
<1>2. TypeOK /\ Inv /\ [Next]_vars => Inv'
  <2> SUFFICES ASSUME TypeOK, Inv, [Next]_vars, NEW g \in Fetches PROVE Drained(g)'
    OBVIOUS
  <2>1. ASSUME NEW f \in Fetches, Step(f) \/ CtxEnds(f) \/ \E u \in URLs : Start(f, u)
        PROVE  Drained(g)'
    <3>1. CASE f = g
      BY <2>1, <3>1, DrainedStep
    <3>2. CASE f # g
      BY <2>1, <3>2, OthersKept DEF Drained
    <3> QED BY <3>1, <3>2
  <2>2. ASSUME UNCHANGED <<phase, ctx, attempt, late>> PROVE Drained(g)'
    BY <2>2 DEF Drained
  <2> QED BY <2>1, <2>2 DEF Next, Age, Expire, BoundReached, vars
<1>3. Inv => WindsDown
  BY DEF Drained, WindsDown
<1> QED BY <1>1, <1>2, <1>3, TypeCorrect, PTL DEF Spec

-----------------------------------------------------------------------------
(* PermanentIsPrimary.                                                     *)

\* Once the primary tier is done its error and the last status the site answered
\* agree on permanence, unless a renderer has delivered the page.
Classified(f) ==
    (phase[f] \in {"fallback", "render", "record"} /\ ctx[f] = "live" /\ seen[f] # "0") =>
        (err[f] = "nil" \/ (err[f] \in PermanentStatus <=> seen[f] \in PermanentStatus))

\* Both tiers report a failed answer by its status.
LEMMA ResultClassifies ==
    ASSUME NEW r \in Response
    PROVE  /\ DirectResult(r) = "nil" \/ (DirectResult(r) \in PermanentStatus <=> r.status \in PermanentStatus)
           /\ NetResult(r) = "nil" \/ (NetResult(r) \in PermanentStatus <=> r.status \in PermanentStatus)
<1>1. CASE r.err # "nil"
  BY <1>1 DEF Response, DirectResult, NetResult, classifyBlock, PermanentStatus
<1>2. CASE r.err = "nil"
  BY <1>2 DEF Response, DirectResult, NetResult, classifyBlock, PermanentStatus
<1> QED BY <1>1, <1>2

\* While the context is live only the client's own answers come back.
LEMMA LiveAnswers ==
    ASSUME NEW f \in Fetches, NEW R \in SUBSET Response, NEW r \in Answers(f, R), ctx[f] = "live"
    PROVE  r \in Response
BY DEF Answers

\* A step of the call itself keeps the agreement.
LEMMA ClassifiedStep ==
    ASSUME TypeOK, NEW f \in Fetches, Classified(f),
           Step(f) \/ CtxEnds(f) \/ \E u \in URLs : Start(f, u)
    PROVE  Classified(f)'
<1>1. ASSUME NEW u \in URLs, Start(f, u) PROVE Classified(f)'
  BY <1>1 DEF TypeOK, Start, Classified
<1>2. CASE CtxEnds(f)
  BY <1>2 DEF TypeOK, CtxEnds, Classified
<1>3. CASE Route(f) \/ Dial(f)
  BY <1>3 DEF TypeOK, Route, Dial, Goto, Classified
<1>4. CASE DirectAnswer(f)
  <2> SUFFICES ASSUME ctx[f] = "live", phase'[f] # "retry" PROVE Classified(f)'
    BY <1>4 DEF DirectAnswer, Classified
  <2>1. PICK r \in Answers(f, DirectResponses) :
          seen' = [seen EXCEPT ![f] = r.status] /\ (Goto(f, "retry") \/ PrimaryDone(f, DirectResult(r)))
    BY <1>4 DEF DirectAnswer
  <2>2. r \in Response
    BY LiveAnswers, ResponsesAssumption
  <2>3. seen'[f] = r.status /\ err'[f] = DirectResult(r)
    BY <2>1 DEF TypeOK, Goto, PrimaryDone
  <2> QED BY <2>2, <2>3, ResultClassifies DEF Classified
<1>5. CASE Retry(f)
  <2>1. phase'[f] = "proxy" \/ ctx'[f] # "live"
    BY <1>5 DEF TypeOK, Retry, Goto
  <2> QED BY <2>1 DEF Classified
<1>6. CASE ProxyAnswer(f)
  <2> SUFFICES ASSUME ctx[f] = "live", phase'[f] # "retry" PROVE Classified(f)'
    BY <1>6 DEF ProxyAnswer, Classified
  <2>1. PICK r \in Answers(f, NetResponses) :
          seen' = [seen EXCEPT ![f] = r.status] /\ (Goto(f, "retry") \/ PrimaryDone(f, NetResult(r)))
    BY <1>6 DEF ProxyAnswer
  <2>2. r \in Response
    BY LiveAnswers, ResponsesAssumption
  <2>3. seen'[f] = r.status /\ err'[f] = NetResult(r)
    BY <2>1 DEF TypeOK, Goto, PrimaryDone
  <2> QED BY <2>2, <2>3, ResultClassifies DEF Classified
<1>7. CASE Fallback(f) \/ RenderFails(f)
  <2>1. UNCHANGED <<ctx, err, seen>> /\ phase[f] \in {"fallback", "render"}
    BY <1>7 DEF Fallback, RenderFails
  <2> QED BY <2>1 DEF Classified
<1>8. CASE RenderOK(f)
  <2>1. err'[f] = "nil"
    BY <1>8 DEF TypeOK, RenderOK
  <2> QED BY <2>1 DEF Classified
<1>9. CASE Record(f)
  <2>1. phase'[f] = "idle"
    BY <1>9 DEF TypeOK, Record, Goto
  <2> QED BY <2>1 DEF Classified
<1> QED BY <1>1, <1>2, <1>3, <1>4, <1>5, <1>6, <1>7, <1>8, <1>9 DEF Step

\* Only Record ends a call that has an outcome.
LEMMA OnlyRecordReturns ==
    ASSUME TypeOK, [Next]_vars, NEW g \in Fetches, phase[g] = "record", phase'[g] = "idle"
    PROVE  Record(g)
<1>1. ASSUME NEW f \in Fetches, Step(f) \/ CtxEnds(f) \/ \E u \in URLs : Start(f, u)
      PROVE  f = g /\ Record(g)
  <2>1. f = g
    BY <1>1, OthersKept
  <2> QED BY <1>1, <2>1 DEF Step, Route, Dial, DirectAnswer, Retry, ProxyAnswer, Fallback,
                            RenderFails, RenderOK, CtxEnds, Start
<1>2. phase' # phase
  OBVIOUS
<1> QED BY <1>1, <1>2 DEF Next, Age, Expire, BoundReached, vars

\* For every chain of renderers and every answer the clients can give, the retry
\* tracker marks a URL permanent exactly when the site's last answer was a
\* permanent status and no renderer delivered the page.
THEOREM PermanentIsPrimaryHolds == Spec => PermanentIsPrimary
<1> DEFINE Inv == \A f \in Fetches : Classified(f)
<1>1. Init => Inv
  BY DEF Init, Classified
<1>2. TypeOK /\ Inv /\ [Next]_vars => Inv'
  <2> SUFFICES ASSUME TypeOK, Inv, [Next]_vars, NEW g \in Fetches PROVE Classified(g)'
    OBVIOUS
  <2>1. ASSUME NEW f \in Fetches, Step(f) \/ CtxEnds(f) \/ \E u \in URLs : Start(f, u)
        PROVE  Classified(g)'
    <3>1. CASE f = g
      BY <2>1, <3>1, ClassifiedStep
    <3>2. CASE f # g
      BY <2>1, <3>2, OthersKept DEF Classified
    <3> QED BY <3>1, <3>2
  <2>2. ASSUME UNCHANGED <<phase, ctx, err, seen>> PROVE Classified(g)'
    BY <2>2 DEF Classified
  <2> QED BY <2>1, <2>2 DEF Next, Age, Expire, BoundReached, vars
<1>3. TypeOK /\ Inv /\ [Next]_vars =>
        \A f \in Fetches :
          (phase[f] = "record" /\ phase'[f] = "idle" /\ seen[f] # "0" /\ ctx[f] = "live") =>
              entries'[url[f]].permanent = (err[f] # "nil" /\ seen[f] \in PermanentStatus)
  <2> SUFFICES ASSUME TypeOK, Inv, [Next]_vars, NEW f \in Fetches, phase[f] = "record",
                      phase'[f] = "idle", seen[f] # "0", ctx[f] = "live"
               PROVE  entries'[url[f]].permanent = (err[f] # "nil" /\ seen[f] \in PermanentStatus)
    OBVIOUS
  <2>1. Record(f) /\ url[f] \in URLs
    BY OnlyRecordReturns DEF TypeOK
  <2>2. entries'[url[f]].permanent = (err[f] # "nil" /\ err[f] \in PermanentStatus)
    <3>1. CASE err[f] = "nil"
      <4>1. entries'[url[f]] = NoEntry
        BY <2>1, <3>1 DEF TypeOK, Record, RecordSuccess
      <4>2. entries'[url[f]].permanent = FALSE
        BY <4>1 DEF NoEntry
      <4>3. (err[f] # "nil" /\ err[f] \in PermanentStatus) = FALSE
        BY <3>1
      <4> QED BY <4>2, <4>3
    <3>2. CASE err[f] # "nil"
      <4>1. entries'[url[f]].permanent = isPermanentError(err[f])
        BY <2>1, <3>2 DEF TypeOK, Record, RecordAttempt
      <4> QED BY <3>2, <4>1 DEF isPermanentError
    <3> QED BY <3>1, <3>2
  <2>3. err[f] = "nil" \/ (err[f] \in PermanentStatus <=> seen[f] \in PermanentStatus)
    BY DEF Classified
  <2> QED BY <2>2, <2>3
<1> QED BY <1>1, <1>2, <1>3, TypeCorrect, PTL DEF Spec, PermanentIsPrimary

-----------------------------------------------------------------------------
(* The quarantines.                                                        *)

\* A call gets into flight only through Start.
LEMMA StepKeepsIdle ==
    ASSUME TypeOK, NEW f \in Fetches, Step(f) \/ CtxEnds(f)
    PROVE  phase[f] # "idle" /\ url' = url
BY DEF Step, Route, Dial, DirectAnswer, Retry, ProxyAnswer, Fallback, RenderFails, RenderOK,
       Record, CtxEnds

\* Without renderers the tracker turns every call to a permanent URL away.
LEMMA StartRefused ==
    ASSUME TypeOK, ~hasFallback, NEW f \in Fetches, NEW u \in URLs, Start(f, u), entries[u].permanent
    PROVE  phase' = phase /\ entries'[u] = entries[u]
<1>1. Evicted(u) = entries[u] /\ ~ShouldRetry(Evicted(u))
  BY DEF Evicted, ShouldRetry
<1> QED BY <1>1 DEF TypeOK, Start, Goto

\* Only the steps of the tracker touch an entry, and only Record clears the flag
\* of a permanent one.
LEMMA PermanentKept ==
    ASSUME TypeOK, [Next]_vars, ~hasFallback, NEW u \in URLs, entries[u].permanent
    PROVE  /\ InFlight(u)' \subseteq InFlight(u)
           /\ InFlight(u) = {} => entries'[u].permanent
<1> DEFINE Goal == /\ InFlight(u)' \subseteq InFlight(u)
                   /\ InFlight(u) = {} => entries'[u].permanent
<1>1. ASSUME NEW f \in Fetches, Step(f) \/ CtxEnds(f) PROVE Goal
  <2>1. phase[f] # "idle" /\ url' = url
    BY <1>1, StepKeepsIdle
  <2>2. \A g \in Fetches : g # f => phase'[g] = phase[g]
    BY <1>1, OthersKept
  <2>3. InFlight(u)' \subseteq InFlight(u)
    BY <2>1, <2>2 DEF InFlight
  <2>4. ASSUME InFlight(u) = {} PROVE entries'[u] = entries[u]
    <3>1. url[f] # u
      BY <2>1, <2>4 DEF InFlight
    <3>2. CASE Record(f)
      BY <3>1, <3>2 DEF TypeOK, Record, RecordSuccess, RecordAttempt
    <3>3. CASE ~Record(f)
      BY <1>1, <3>3 DEF Step, Route, Dial, DirectAnswer, Retry, ProxyAnswer, Fallback, RenderFails,
                        RenderOK, CtxEnds
    <3> QED BY <3>2, <3>3
  <2> QED BY <2>3, <2>4
<1>2. ASSUME NEW f \in Fetches, NEW v \in URLs, Start(f, v) PROVE Goal
  <2>1. CASE u = v
    <3>1. phase' = phase /\ entries'[u] = entries[u] /\ phase[f] = "idle"
      BY <1>2, <2>1, StartRefused DEF Start
    <3>2. \A g \in Fetches : g # f => url'[g] = url[g]
      BY <1>2 DEF TypeOK, Start
    <3> QED BY <3>1, <3>2 DEF InFlight
  <2>2. CASE u # v
    <3>1. entries'[u] = entries[u] /\ url'[f] = v
      BY <1>2, <2>2 DEF TypeOK, Start
    <3>2. \A g \in Fetches : g # f => url'[g] = url[g] /\ phase'[g] = phase[g]
      BY <1>2 DEF TypeOK, Start, Goto
    <3> QED BY <2>2, <3>1, <3>2 DEF InFlight
  <2> QED BY <2>1, <2>2
<1>3. ASSUME NEW v \in URLs, Age(v) PROVE Goal
  <2>1. entries'[u].permanent
    BY <1>3 DEF TypeOK, Age
  <2> QED BY <1>3, <2>1 DEF Age, InFlight
<1>4. ASSUME UNCHANGED <<entries, phase, url>> PROVE Goal
  BY <1>4 DEF InFlight
<1> QED BY <1>1, <1>2, <1>3, <1>4 DEF Next, Expire, BoundReached, vars

\* Without renderers a permanently failed URL stays out of reach, whatever the
\* number of callers: no call to it gets past ShouldRetry, and after the calls that
\* had passed already nothing lifts the flag, the TTL included.
THEOREM PermanentQuarantineHolds == Spec => PermanentQuarantine
<1>1. TypeOK /\ [Next]_vars =>
        \A u \in URLs : (~hasFallback /\ entries[u].permanent) =>
            /\ InFlight(u)' \subseteq InFlight(u)
            /\ InFlight(u) = {} => entries'[u].permanent
  BY PermanentKept
<1> QED BY <1>1, TypeCorrect, PTL DEF Spec, PermanentQuarantine

\* The calls about to dial a host are finitely many, and one that is elsewhere is
\* not among them.
LEMMA DialingFinite ==
    ASSUME NEW D \in SUBSET Fetches
    PROVE  /\ IsFiniteSet(D) /\ Cardinality(D) \in Nat /\ Cardinality(Fetches) \in Nat
           /\ \A f \in Fetches : f \notin D => Cardinality(D) <= Cardinality(Fetches) - 1
           /\ \A E \in SUBSET D : Cardinality(E) \in Nat /\ Cardinality(E) <= Cardinality(D)
<1>1. IsFiniteSet(D) /\ Cardinality(D) \in Nat /\ Cardinality(Fetches) \in Nat
  BY FetchesAssumption, FS_Subset, FS_CardinalityType
<1>2. ASSUME NEW f \in Fetches, f \notin D PROVE Cardinality(D) <= Cardinality(Fetches) - 1
  <2>1. IsFiniteSet(Fetches \ {f}) /\ Cardinality(Fetches \ {f}) = Cardinality(Fetches) - 1
    BY FetchesAssumption, FS_RemoveElement
  <2>2. D \subseteq Fetches \ {f}
    BY <1>2
  <2> QED BY <2>1, <2>2, FS_Subset
<1>3. ASSUME NEW E \in SUBSET D PROVE Cardinality(E) \in Nat /\ Cardinality(E) <= Cardinality(D)
  BY <1>1, FS_Subset, FS_CardinalityType
<1> QED BY <1>1, <1>2, <1>3

\* The strengthening: a host that is not Marked has no stray requests.
Strays(h) ==
    IF h \in blocked THEN stray[h] + Cardinality(Dialing(h)) <= Cardinality(Fetches) - 1
    ELSE stray[h] = 0

\* Only the block-cache lookup sends a call to dial, and only for a host that is
\* not Marked.
LEMMA OnlyRouteDials ==
    ASSUME TypeOK, NEW f \in Fetches, phase'[f] = "dial",
           Step(f) \/ CtxEnds(f) \/ \E u \in URLs : Start(f, u)
    PROVE  /\ url' = url
           /\ phase[f] = "dial" \/ (blocked' = blocked /\ HostOf[url[f]] \notin blocked)
<1>1. CASE Route(f)
  BY <1>1 DEF TypeOK, Route, Goto
<1>2. CASE CtxEnds(f)
  BY <1>2 DEF CtxEnds
<1>3. ~Dial(f) /\ ~DirectAnswer(f)
  BY DEF TypeOK, Dial, DirectAnswer, PrimaryDone, Goto
<1>4. ~Retry(f) /\ ~ProxyAnswer(f)
  BY DEF TypeOK, Retry, ProxyAnswer, PrimaryDone, Goto
<1>5. ~Fallback(f) /\ ~RenderFails(f) /\ ~RenderOK(f) /\ ~Record(f)
  BY DEF TypeOK, Fallback, RenderFails, RenderOK, Record, Goto
<1>6. ASSUME NEW u \in URLs, Start(f, u) PROVE FALSE
  BY <1>6 DEF TypeOK, Start, FirstTier, Goto
<1> QED BY <1>1, <1>2, <1>3, <1>4, <1>5, <1>6 DEF Step

\* While a host is Marked the calls about to dial it only become fewer.
LEMMA DialingShrinks ==
    ASSUME TypeOK, [Next]_vars, NEW h \in blocked
    PROVE  Dialing(h)' \subseteq Dialing(h)
<1> SUFFICES ASSUME NEW g \in Fetches, phase'[g] = "dial", HostOf[url'[g]] = h
             PROVE  phase[g] = "dial" /\ HostOf[url[g]] = h
  BY DEF Dialing
<1>1. ASSUME NEW f \in Fetches, Step(f) \/ CtxEnds(f) \/ \E u \in URLs : Start(f, u)
      PROVE  phase[g] = "dial" /\ HostOf[url[g]] = h
  <2>1. CASE f = g
    BY <1>1, <2>1, OnlyRouteDials
  <2>2. CASE f # g
    BY <1>1, <2>2, OthersKept
  <2> QED BY <2>1, <2>2
<1> QED BY <1>1 DEF Next, Age, Expire, BoundReached, vars

\* Every step keeps the count of every host.
LEMMA StraysStep ==
    ASSUME TypeOK, TypeOK', [Next]_vars, NEW h \in Hosts, Strays(h)
    PROVE  Strays(h)'
<1> DEFINE N == Cardinality(Fetches)
<1>0. /\ stray[h] \in Nat /\ N \in Nat
      /\ Dialing(h) \in SUBSET Fetches /\ Dialing(h)' \in SUBSET Fetches
  BY DialingFinite DEF TypeOK, Dialing
<1>1. ASSUME UNCHANGED <<blocked, stray>> PROVE Strays(h)'
  <2>1. CASE h \in blocked
    <3>1. /\ Cardinality(Dialing(h)') \in Nat /\ Cardinality(Dialing(h)) \in Nat
          /\ Cardinality(Dialing(h)') <= Cardinality(Dialing(h))
      BY <1>0, <2>1, DialingShrinks, DialingFinite
    <3> QED BY <1>0, <1>1, <2>1, <3>1 DEF Strays
  <2>2. CASE h \notin blocked
    BY <1>1, <2>2 DEF Strays
  <2> QED BY <2>1, <2>2
<1>2. ASSUME NEW f \in Fetches, Dial(f) PROVE Strays(h)'
  <2>0. HostOf[url[f]] \in Hosts /\ blocked' = blocked
    BY <1>2 DEF TypeOK, Hosts, Dial
  <2>1. CASE HostOf[url[f]] # h \/ h \notin blocked
    <3>1. stray'[h] = stray[h]
      BY <1>2, <2>0, <2>1 DEF TypeOK, Dial
    <3>2. CASE h \in blocked
      <4>1. /\ Cardinality(Dialing(h)') \in Nat /\ Cardinality(Dialing(h)) \in Nat
            /\ Cardinality(Dialing(h)') <= Cardinality(Dialing(h))
        BY <1>0, <3>2, DialingShrinks, DialingFinite
      <4> QED BY <1>0, <2>0, <3>1, <3>2, <4>1 DEF Strays
    <3>3. CASE h \notin blocked
      BY <2>0, <3>1, <3>3 DEF Strays
    <3> QED BY <3>2, <3>3
  <2>2. CASE HostOf[url[f]] = h /\ h \in blocked
    <3>1. stray'[h] = stray[h] + 1
      BY <1>2, <2>0, <2>2 DEF TypeOK, Dial
    <3>2. f \in Dialing(h) /\ Dialing(h)' = Dialing(h) \ {f}
      BY <1>2, <2>2 DEF TypeOK, Dial, Goto, Dialing
    <3>3. Cardinality(Dialing(h)') = Cardinality(Dialing(h)) - 1 /\ Cardinality(Dialing(h)) \in Nat
      BY <1>0, <3>2, DialingFinite, FS_RemoveElement
    <3> QED BY <1>0, <2>0, <2>2, <3>1, <3>3 DEF Strays
  <2> QED BY <2>1, <2>2
<1>3. ASSUME NEW f \in Fetches, DirectAnswer(f) PROVE Strays(h)'
  <2>1. /\ stray' = stray /\ url' = url /\ blocked \subseteq blocked'
        /\ h \in blocked' => (h \in blocked \/ h = HostOf[url[f]])
    BY <1>3 DEF DirectAnswer
  <2>2. CASE h \in blocked
    <3>1. /\ Cardinality(Dialing(h)') \in Nat /\ Cardinality(Dialing(h)) \in Nat
          /\ Cardinality(Dialing(h)') <= Cardinality(Dialing(h))
      BY <1>0, <2>2, DialingShrinks, DialingFinite
    <3> QED BY <1>0, <2>1, <2>2, <3>1 DEF Strays
  <2>3. CASE h \notin blocked /\ h \in blocked'
    <3>1. f \notin Dialing(h)'
      <4>1. phase'[f] # "dial"
        BY <1>3 DEF TypeOK, DirectAnswer, PrimaryDone, Goto
      <4> QED BY <4>1 DEF Dialing
    <3>2. Cardinality(Dialing(h)') \in Nat /\ Cardinality(Dialing(h)') <= N - 1
      BY <1>0, <3>1, DialingFinite
    <3>3. stray'[h] = 0
      BY <2>1, <2>3 DEF Strays
    <3> QED BY <1>0, <2>3, <3>2, <3>3 DEF Strays
  <2>4. CASE h \notin blocked /\ h \notin blocked'
    BY <2>1, <2>4 DEF Strays
  <2> QED BY <2>2, <2>3, <2>4
<1>4. ASSUME NEW k \in Hosts, Expire(k) PROVE Strays(h)'
  <2>1. CASE k = h
    BY <1>4, <2>1 DEF TypeOK, Expire, Strays
  <2>2. CASE k # h
    <3>1. stray'[h] = stray[h] /\ (h \in blocked' <=> h \in blocked) /\ Dialing(h)' = Dialing(h)
      BY <1>4, <2>2 DEF TypeOK, Expire, Dialing
    <3> QED BY <3>1 DEF Strays
  <2> QED BY <2>1, <2>2
<1>5. ASSUME NEW f \in Fetches, ~Dial(f), ~DirectAnswer(f),
             Step(f) \/ CtxEnds(f) \/ \E u \in URLs : Start(f, u)
      PROVE  UNCHANGED <<blocked, stray>>
  BY <1>5 DEF Step, Route, Retry, ProxyAnswer, Fallback, RenderFails, RenderOK, Record, CtxEnds, Start
<1> QED BY <1>1, <1>2, <1>3, <1>4, <1>5 DEF Next, Age, BoundReached, vars

\* For any number of concurrent calls, while a host stays Marked it gets at most one
\* direct request from every caller but the one that Marked it, although the lookup
\* of the block cache and the request are separate steps.
THEOREM StrayBoundHolds == Spec => []StrayBound
<1> DEFINE Inv == \A h \in Hosts : Strays(h)
<1>1. Init => Inv
  BY DEF Init, Strays
<1>2. TypeOK /\ TypeOK' /\ Inv /\ [Next]_vars => Inv'
  BY StraysStep
<1>3. TypeOK /\ Inv => StrayBound
  BY DEF TypeOK, Strays, StrayBound
<1> QED BY <1>1, <1>2, <1>3, TypeCorrect, PTL DEF Spec
=============================================================================
