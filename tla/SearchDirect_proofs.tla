------------------------ MODULE SearchDirect_proofs ------------------------
(***************************************************************************)
(* Proofs about SearchDirect, for every number of concurrent calls, every  *)
(* choice of engines, allowlist, answers, threshold and render slots; and  *)
(* about MarginaliaBudget, which its Marginalia legs draw on: the daily    *)
(* spend and the requests sent under it are bounded for every limit, every *)
(* set of callers and every number of days and restarts.                   *)
(***************************************************************************)
EXTENDS SearchDirect, MarginaliaBudget, FiniteSetTheorems, TLAPS

Ans == [err : Err, n : Nat]
Msg == [label : Engines, err : Err, n : Nat]
Outcomes == {"none", "shed", "empty", "ok", "captcha", "timeout", "blocked", "fail"}
Leg == [inner : {"none", "waiting", "requesting", "exited"},
        outer : {"none", "skipped", "select", "sent"},
        ctx : {"live", "PerSourceTimeout", "Canceled", "DeadlineExceeded"},
        done : Seq(Ans),
        outcome : Outcomes]
Stats == [Attempted : Nat, OK : Nat, Empty : Nat, Failed : Nat, Shed : Nat]

Typed ==
    /\ callerCtx \in [Calls -> {"live", "Canceled", "DeadlineExceeded"}]
    /\ phase \in [Calls -> {"idle", "launch", "collect", "escalate", "render", "done"}]
    /\ next \in [Calls -> Nat]
    /\ leg \in [Calls -> [Engines -> Leg]]
    /\ ch \in [Calls -> Seq(Msg)]
    /\ stats \in [Calls -> Stats]
    /\ cancelled \in [Calls -> BOOLEAN]
    /\ ox \in [Calls -> [Engines -> {"none", "rendering", "skipped", "ok", "none_delivered"}]]

\* The launch loop has not touched the jobs from next on, and nothing is
\* cancelled before the results are collected.
LaunchInv(c) ==
    /\ phase[c] = "idle" => next[c] = 1 /\ \A e \in Engines : leg[c][e] = LegInit
    /\ phase[c] = "launch" =>
         next[c] \in 1..Len(Jobs) /\ \A i \in next[c]..Len(Jobs) : leg[c][Jobs[i]] = LegInit
    /\ phase[c] \in {"idle", "launch"} => ~cancelled[c]
    /\ phase[c] = "collect" => next[c] = 1
    /\ phase[c] = "escalate" => next[c] \in 1..Len(OxEscalate)

\* Engines do not know the cause of a per-source timeout.
DoneOK(done) == \A k \in 1..Len(done) : done[k].err # "PerSourceTimeout" /\ (done[k].err # "nil" => done[k].n = 0)

\* A leg: its answer, the class it was counted with, and its context.
LegInv(c, e) ==
    /\ leg[c][e].inner # "none" => e \in Range(Jobs)
    /\ DoneOK(leg[c][e].done)
    /\ leg[c][e].outcome # "none" => leg[c][e].outer = "sent"
    /\ leg[c][e].outcome = "timeout" => leg[c][e].ctx = "PerSourceTimeout"
    /\ cancelled[c] /\ leg[c][e].outer = "select" => leg[c][e].ctx # "live"
    /\ leg[c][e].outer = "sent" =>
         leg[c][e].outcome # "none" \/ \E i \in 1..Len(ch[c]) : ch[c][i].label = e

\* The channel holds one message of each leg that has sent and is not counted.
ChannelInv(c) ==
    /\ \A i \in 1..Len(ch[c]) :
         /\ leg[c][ch[c][i].label].outer = "sent"
         /\ leg[c][ch[c][i].label].outcome = "none"
         /\ ch[c][i].err = "PerSourceTimeout" => leg[c][ch[c][i].label].ctx = "PerSourceTimeout"
    /\ \A i, j \in 1..Len(ch[c]) : ch[c][i].label = ch[c][j].label => i = j

Counted(c) == {e \in Engines : leg[c][e].outcome # "none"}
StatsInv(c) ==
    /\ stats[c].Attempted = stats[c].OK + stats[c].Empty + stats[c].Failed
    /\ stats[c].Attempted + stats[c].Shed = Cardinality(Counted(c))

DrainedInv(c) == Collected(c) => ch[c] = <<>> /\ \A e \in Engines : leg[c][e].outer # "select"

Rendering(c) == {e \in Engines : ox[c][e] = "rendering"}
RenderInv(c) == Cardinality(Rendering(c)) <= OxConcurrency

CallInv(c) ==
    /\ LaunchInv(c) /\ (\A e \in Engines : LegInv(c, e)) /\ ChannelInv(c)
    /\ StatsInv(c) /\ DrainedInv(c) /\ RenderInv(c)

Inv == Typed /\ \A c \in Calls : CallInv(c)

-----------------------------------------------------------------------------
\* The job list and the allowlist are non-empty sequences of engines.
LEMMA JobsFacts ==
    /\ Len(Jobs) \in Nat \ {0} /\ \A i \in 1..Len(Jobs) : Jobs[i] \in Range(Jobs) /\ Jobs[i] \in Engines
    /\ Len(OxEscalate) \in Nat \ {0} /\ \A i \in 1..Len(OxEscalate) : OxEscalate[i] \in Engines
BY JobsAssumption, OxAssumption DEF Range

\* Finitely many engines are configured.
LEMMA EnginesFinite == IsFiniteSet(Engines)
<1>1. ASSUME NEW S, NEW q \in Seq(S) PROVE IsFiniteSet(Range(q))
  <2>1. q \in Surjection(1..Len(q), Range(q))
    BY DEF Surjection, Range
  <2>2. IsFiniteSet(1..Len(q))
    BY FS_Interval
  <2> QED BY <2>1, <2>2, FS_Surjection
<1>2. IsFiniteSet(Range(Jobs)) /\ IsFiniteSet(Range(OxEscalate))
  BY <1>1, JobsAssumption, OxAssumption
<1> QED BY <1>2, FS_Union DEF Engines

\* Sets of engines can be counted.
LEMMA SubsetFinite == ASSUME NEW S \in SUBSET Engines PROVE IsFiniteSet(S) /\ Cardinality(S) \in Nat
BY EnginesFinite, FS_Subset, FS_CardinalityType

\* No call has started: the invariant holds initially.
LEMMA InitInv == Init => Inv
<1> SUFFICES ASSUME Init PROVE Inv
  OBVIOUS
<1>1. LegInit \in Leg
  BY DEF LegInit, Leg, Outcomes
<1>2. Typed
  BY <1>1 DEF Init, Typed, Stats
<1>3. ASSUME NEW c \in Calls PROVE CallInv(c)
  <2>1. /\ phase[c] = "idle" /\ next[c] = 1 /\ ch[c] = <<>> /\ ~cancelled[c]
        /\ \A e \in Engines : leg[c][e] = LegInit /\ ox[c][e] = "none"
        /\ stats[c] = [Attempted |-> 0, OK |-> 0, Empty |-> 0, Failed |-> 0, Shed |-> 0]
    BY DEF Init
  <2>2. LaunchInv(c) /\ DrainedInv(c)
    BY <2>1 DEF LaunchInv, DrainedInv, Collected
  <2>3. \A e \in Engines : LegInv(c, e)
    BY <2>1 DEF LegInv, LegInit, DoneOK
  <2>4. ChannelInv(c)
    BY <2>1 DEF ChannelInv
  <2>5. Counted(c) = {} /\ Rendering(c) = {}
    BY <2>1 DEF Counted, Rendering, LegInit
  <2>6. StatsInv(c) /\ RenderInv(c)
    BY <2>1, <2>5, FS_EmptySet, BoundsAssumption DEF StatsInv, RenderInv
  <2> QED BY <2>2, <2>3, <2>4, <2>6 DEF CallInv
<1> QED BY <1>2, <1>3 DEF Inv

-----------------------------------------------------------------------------
\* A step inside the legs: goroutines move, contexts end, answers arrive.
LegMove(l, m) ==
    /\ m.outer = l.outer /\ m.outcome = l.outcome
    /\ m.ctx = l.ctx \/ (l.ctx = "live" /\ m.ctx # "live")
    /\ m.inner # "none" => l.inner # "none"
    /\ m.done = l.done \/ DoneOK(m.done)
    /\ l = LegInit => m = LegInit


\* The labels in a channel are engines.
LEMMA Labels ==
  ASSUME Typed, NEW c \in Calls
  PROVE  /\ ch[c] \in Seq(Msg) /\ Len(ch[c]) \in Nat
         /\ \A i \in 1..Len(ch[c]) : ch[c][i] \in Msg /\ ch[c][i].label \in Engines
<1>1. ch[c] \in Seq(Msg)
  BY DEF Typed
<1> HIDE DEF Msg
<1>2. \A i \in 1..Len(ch[c]) : ch[c][i] \in Msg
  BY <1>1
<1> QED BY <1>1, <1>2 DEF Msg

\* The counters and the renders of a call depend on two sets only.
LEMMA SameCounts ==
  ASSUME Inv, NEW c \in Calls,
         \A e \in Engines : leg'[c][e].outcome = leg[c][e].outcome,
         stats'[c] = stats[c], ox'[c] = ox[c]
  PROVE  StatsInv(c)' /\ RenderInv(c)'
<1>1. Counted(c)' = Counted(c) /\ Rendering(c)' = Rendering(c)
  BY DEF Counted, Rendering
<1> QED BY <1>1 DEF Inv, CallInv, StatsInv, RenderInv

\* A call whose variables do not move keeps its invariant: a step of another
\* call is invisible to it.
LEMMA OtherCalls ==
  ASSUME Inv, NEW c \in Calls, Typed', CallInv(c)',
         \A d \in Calls \ {c} :
            /\ phase'[d] = phase[d] /\ next'[d] = next[d] /\ leg'[d] = leg[d] /\ ch'[d] = ch[d]
            /\ stats'[d] = stats[d] /\ cancelled'[d] = cancelled[d] /\ ox'[d] = ox[d]
  PROVE  Inv'
<1>1. ASSUME NEW d \in Calls, d # c PROVE CallInv(d)'
  <2>1. LaunchInv(d)'
    BY <1>1 DEF Inv, CallInv, LaunchInv
  <2>2. \A e \in Engines : LegInv(d, e)'
    BY <1>1 DEF Inv, CallInv, LegInv
  <2>3. ChannelInv(d)'
    BY <1>1 DEF Inv, CallInv, ChannelInv
  <2>4. StatsInv(d)' /\ RenderInv(d)'
    BY <1>1, SameCounts
  <2>5. DrainedInv(d)'
    BY <1>1 DEF Inv, CallInv, DrainedInv, Collected
  <2> QED BY <2>1, <2>2, <2>3, <2>4, <2>5 DEF CallInv
<1> QED BY <1>1 DEF Inv

\* Such a step keeps the invariant, whatever legs it moves.
LEMMA LegMoveInv ==
  ASSUME Inv, leg' \in [Calls -> [Engines -> Leg]],
         \A c \in Calls, e \in Engines : LegMove(leg[c][e], leg'[c][e]),
         callerCtx' \in [Calls -> {"live", "Canceled", "DeadlineExceeded"}],
         UNCHANGED <<phase, next, ch, stats, cancelled, ox>>
  PROVE  Inv'
<1>1. Typed'
  BY DEF Inv, Typed
<1>2. ASSUME NEW c \in Calls PROVE CallInv(c)'
  <2>1. LaunchInv(c)'
    <3>1. LaunchInv(c) /\ \A e \in Engines : LegMove(leg[c][e], leg'[c][e])
      BY Zenon DEF Inv, CallInv
    <3> QED BY <3>1, JobsFacts, SMTT(30) DEF LaunchInv, LegMove
  <2>2. ASSUME NEW e \in Engines PROVE LegInv(c, e)'
    <3>1. LegMove(leg[c][e], leg'[c][e]) /\ LegInv(c, e)
      BY DEF Inv, CallInv
    <3>2. DoneOK(leg'[c][e].done)
      <4>1. CASE leg'[c][e].done = leg[c][e].done
        BY <3>1, <4>1 DEF LegInv
      <4>2. CASE leg'[c][e].done # leg[c][e].done
        BY <3>1, <4>2 DEF LegMove
      <4> QED BY <4>1, <4>2
    <3>3. ch'[c] = ch[c] /\ cancelled'[c] = cancelled[c]
      OBVIOUS
    <3> QED BY <3>1, <3>2, <3>3 DEF LegInv, LegMove, DoneOK
  <2>3. ChannelInv(c)'
    <3>1. ChannelInv(c) /\ ch'[c] = ch[c]
      BY DEF Inv, CallInv
    <3>2. ASSUME NEW i \in 1..Len(ch[c])
          PROVE  /\ leg'[c][ch[c][i].label].outer = leg[c][ch[c][i].label].outer
                 /\ leg'[c][ch[c][i].label].outcome = leg[c][ch[c][i].label].outcome
                 /\ leg[c][ch[c][i].label].ctx # "live" => leg'[c][ch[c][i].label].ctx = leg[c][ch[c][i].label].ctx
      BY Labels DEF Inv, LegMove
    <3> QED BY <3>1, <3>2 DEF ChannelInv
  <2>4. StatsInv(c)' /\ RenderInv(c)'
    BY SameCounts DEF LegMove
  <2>5. DrainedInv(c)'
    BY DEF Inv, CallInv, DrainedInv, Collected, LegMove
  <2> QED BY <2>1, <2>2, <2>3, <2>4, <2>5 DEF CallInv
<1> QED BY <1>1, <1>2 DEF Inv

\* Replacing the leg of one engine by a moved one.
LEMMA OneLegMoves ==
  ASSUME Inv, NEW c \in Calls, NEW e \in Engines, NEW m \in Leg, LegMove(leg[c][e], m),
         leg' = [leg EXCEPT ![c][e] = m],
         UNCHANGED <<callerCtx, phase, next, ch, stats, cancelled, ox>>
  PROVE  Inv'
<1>1. leg \in [Calls -> [Engines -> Leg]]
  BY DEF Inv, Typed
<1>2. leg' \in [Calls -> [Engines -> Leg]]
  BY <1>1
<1>3. \A d \in Calls, g \in Engines : leg'[d][g] = IF d = c /\ g = e THEN m ELSE leg[d][g]
  BY <1>1
<1>4. \A d \in Calls, g \in Engines : LegMove(leg[d][g], leg'[d][g])
  BY <1>3 DEF LegMove
<1>5. callerCtx' \in [Calls -> {"live", "Canceled", "DeadlineExceeded"}]
  BY DEF Inv, Typed
<1> QED BY <1>2, <1>4, <1>5, LegMoveInv

\* A leg that has been launched is not in its first state.
LEMMA LegFields ==
  ASSUME Inv, NEW c \in Calls, NEW e \in Engines
  PROVE  leg[c][e] \in Leg /\ leg \in [Calls -> [Engines -> Leg]] /\ LegInv(c, e)
BY DEF Inv, Typed, CallInv

\* The inner goroutine and the per-source timer only move their own leg.
LEMMA InnerInv ==
  ASSUME Inv, NEW c \in Calls, NEW e \in Engines,
         \/ InnerProceed(c, e) \/ InnerShed(c, e) \/ InnerWaitFails(c, e) \/ InnerReturn(c, e)
         \/ PerSourceTimeout(c, e)
  PROVE  Inv'
<1>0. leg[c][e] \in Leg /\ leg \in [Calls -> [Engines -> Leg]] /\ LegInv(c, e)
  BY LegFields
<1>1. CASE InnerProceed(c, e)
  <2> DEFINE m == [leg[c][e] EXCEPT !.inner = "requesting"]
  <2>1. /\ m \in Leg /\ m.outer = leg[c][e].outer /\ m.outcome = leg[c][e].outcome
        /\ m.ctx = leg[c][e].ctx /\ m.done = leg[c][e].done /\ leg[c][e].inner = "waiting"
    BY <1>0, <1>1 DEF InnerProceed, Leg
  <2>2. LegMove(leg[c][e], m)
    BY <2>1 DEF LegMove, LegInit
  <2>3. leg' = [leg EXCEPT ![c][e] = m]
    BY <1>0, <1>1 DEF InnerProceed
  <2> HIDE DEF m
  <2> QED BY <1>1, <2>1, <2>2, <2>3, OneLegMoves DEF InnerProceed
<1>2. ASSUME NEW r \in Ans, DoneOK(<<r>>), leg[c][e].inner \in {"waiting", "requesting"},
             leg' = [leg EXCEPT ![c][e].inner = "exited", ![c][e].done = <<r>>],
             UNCHANGED <<callerCtx, phase, next, ch, stats, cancelled, ox>>
      PROVE  Inv'
  <2> DEFINE m == [leg[c][e] EXCEPT !.inner = "exited", !.done = <<r>>]
  <2>1. <<r>> \in Seq(Ans)
    OBVIOUS
  <2>2. m \in Leg
    BY <1>0, <2>1 DEF Leg
  <2>3. m.outer = leg[c][e].outer /\ m.outcome = leg[c][e].outcome /\ m.ctx = leg[c][e].ctx
        /\ m.done = <<r>> /\ leg[c][e].inner # "none"
    BY <1>0, <1>2 DEF Leg
  <2>4. LegMove(leg[c][e], m)
    BY <1>2, <2>3 DEF LegMove, LegInit
  <2>5. leg' = [leg EXCEPT ![c][e] = m]
    BY <1>0, <1>2
  <2> HIDE DEF m
  <2> QED BY <1>2, <2>2, <2>4, <2>5, OneLegMoves
<1>3. CASE InnerShed(c, e)
  <2>1. [err |-> "QuotaExhausted", n |-> 0] \in Ans /\ DoneOK(<<[err |-> "QuotaExhausted", n |-> 0]>>)
    BY DEF Ans, Err, DoneOK
  <2> QED BY <1>2, <1>3, <2>1 DEF InnerShed
<1>4. CASE InnerWaitFails(c, e)
  <2>1. [err |-> "nil", n |-> 0] \in Ans /\ DoneOK(<<[err |-> "nil", n |-> 0]>>)
    BY DEF Ans, Err, DoneOK
  <2> QED BY <1>2, <1>4, <2>1 DEF InnerWaitFails
<1>5. CASE InnerReturn(c, e)
  <2>1. PICK r \in Answers(c, e) :
           leg' = [leg EXCEPT ![c][e].inner = "exited", ![c][e].done = <<r>>]
    BY <1>5 DEF InnerReturn
  <2>2. e \in Range(Jobs)
    BY <1>0, <1>5 DEF InnerReturn, LegInv
  <2>3. r \in Ans /\ r.err # "PerSourceTimeout" /\ (r.err # "nil" => r.n = 0)
    <3>1. CASE r \in Returns[e]
      BY <2>2, <3>1, ReturnsAssumption DEF Ans
    <3>2. CASE r \notin Returns[e]
      <4>1. leg[c][e].ctx # "live" /\ r = [err |-> CtxErr(leg[c][e].ctx), n |-> 0]
        BY <3>2 DEF Answers
      <4>2. CtxErr(leg[c][e].ctx) \in Err \ {"PerSourceTimeout"}
        BY <1>0, <4>1 DEF CtxErr, Leg, Err
      <4> QED BY <4>1, <4>2 DEF Ans
    <3> QED BY <3>1, <3>2
  <2>4. DoneOK(<<r>>)
    BY <2>3 DEF DoneOK
  <2> QED BY <1>2, <1>5, <2>1, <2>3, <2>4 DEF InnerReturn
<1>6. CASE PerSourceTimeout(c, e)
  <2> DEFINE m == [leg[c][e] EXCEPT !.ctx = "PerSourceTimeout"]
  <2>1. /\ m \in Leg /\ m.outer = leg[c][e].outer /\ m.outcome = leg[c][e].outcome
        /\ m.ctx # "live" /\ m.done = leg[c][e].done /\ m.inner = leg[c][e].inner
        /\ leg[c][e].outer = "select" /\ leg[c][e].ctx = "live"
    BY <1>0, <1>6 DEF PerSourceTimeout, Leg
  <2>2. LegMove(leg[c][e], m)
    BY <2>1 DEF LegMove, LegInit
  <2>3. leg' = [leg EXCEPT ![c][e] = m]
    BY <1>0, <1>6 DEF PerSourceTimeout
  <2> HIDE DEF m
  <2> QED BY <1>6, <2>1, <2>2, <2>3, OneLegMoves DEF PerSourceTimeout
<1> QED BY <1>1, <1>3, <1>4, <1>5, <1>6

\* EndLegs touches contexts only, and leaves no live one under a select.
LEMMA EndLegsFacts ==
  ASSUME Inv, NEW c \in Calls, NEW cause \in {"Canceled", "DeadlineExceeded"}
  PROVE  /\ EndLegs(c, cause) \in [Calls -> [Engines -> Leg]]
         /\ \A d \in Calls \ {c} : EndLegs(c, cause)[d] = leg[d]
         /\ \A e \in Engines :
              /\ LegMove(leg[c][e], EndLegs(c, cause)[c][e])
              /\ EndLegs(c, cause)[c][e].done = leg[c][e].done
              /\ EndLegs(c, cause)[c][e].inner = leg[c][e].inner
              /\ leg[c][e].outer = "select" => EndLegs(c, cause)[c][e].ctx # "live"
<1>1. leg \in [Calls -> [Engines -> Leg]]
  BY DEF Inv, Typed
<1> DEFINE M(e) == IF leg[c][e].outer = "select" /\ leg[c][e].ctx = "live"
                   THEN [leg[c][e] EXCEPT !.ctx = cause] ELSE leg[c][e]
<1>2. ASSUME NEW e \in Engines
      PROVE  /\ M(e) \in Leg /\ LegMove(leg[c][e], M(e)) /\ M(e).done = leg[c][e].done
             /\ M(e).inner = leg[c][e].inner
             /\ leg[c][e].outer = "select" => M(e).ctx # "live"
  <2>1. leg[c][e] \in Leg
    BY <1>1
  <2> QED BY <2>1 DEF Leg, LegMove, LegInit
<1>3. EndLegs(c, cause) = [leg EXCEPT ![c] = [e \in Engines |-> M(e)]]
  BY DEF EndLegs
<1> HIDE DEF M
<1>4. [e \in Engines |-> M(e)] \in [Engines -> Leg]
  BY <1>2
<1>5. EndLegs(c, cause)[c] = [e \in Engines |-> M(e)]
  BY <1>1, <1>3
<1>6. \A e \in Engines : EndLegs(c, cause)[c][e] = M(e)
  BY <1>5
<1>7. EndLegs(c, cause) \in [Calls -> [Engines -> Leg]] /\ \A d \in Calls \ {c} : EndLegs(c, cause)[d] = leg[d]
  BY <1>1, <1>3, <1>4
<1> QED BY <1>2, <1>6, <1>7

\* The end of the caller's context ends the contexts of the running legs.
LEMMA CallerEndsInv == ASSUME Inv, NEW c \in Calls, CallerEnds(c) PROVE Inv'
<1>1. PICK cause \in {"Canceled", "DeadlineExceeded"} :
         callerCtx' = [callerCtx EXCEPT ![c] = cause] /\ leg' = EndLegs(c, cause)
  BY DEF CallerEnds
<1>2. callerCtx' \in [Calls -> {"live", "Canceled", "DeadlineExceeded"}]
  BY <1>1 DEF Inv, Typed
<1>3. leg' \in [Calls -> [Engines -> Leg]]
  BY <1>1, EndLegsFacts
<1>4. ASSUME NEW d \in Calls, NEW e \in Engines PROVE LegMove(leg[d][e], leg'[d][e])
  <2>1. CASE d = c
    BY <1>1, <2>1, EndLegsFacts
  <2>2. CASE d # c
    <3>1. leg'[d] = leg[d]
      BY <1>1, <2>2, EndLegsFacts
    <3> QED BY <3>1 DEF LegMove
  <2> QED BY <2>1, <2>2
<1> QED BY <1>2, <1>3, <1>4, LegMoveInv DEF CallerEnds

-----------------------------------------------------------------------------
\* A step of the call's own goroutine that leaves its legs and counters alone.
LEMMA PhaseInv ==
  ASSUME Inv, NEW c \in Calls, NEW p \in {"launch", "collect", "escalate", "render", "done"},
         NEW n \in Nat, phase' = [phase EXCEPT ![c] = p], next' = [next EXCEPT ![c] = n],
         UNCHANGED <<callerCtx, leg, ch, stats, cancelled>>,
         ox' \in [Calls -> [Engines -> {"none", "rendering", "skipped", "ok", "none_delivered"}]],
         \A d \in Calls \ {c} : ox'[d] = ox[d],
         LaunchInv(c)', DrainedInv(c)', RenderInv(c)'
  PROVE  Inv'
<1>1. Typed'
  BY DEF Inv, Typed
<1>2. Counted(c)' = Counted(c)
  BY DEF Counted
<1>3. StatsInv(c)'
  BY <1>2 DEF Inv, CallInv, StatsInv
<1>4. \A e \in Engines : LegInv(c, e)'
  BY DEF Inv, CallInv, LegInv
<1>5. ChannelInv(c)'
  BY DEF Inv, CallInv, ChannelInv
<1>6. CallInv(c)'
  BY <1>3, <1>4, <1>5 DEF CallInv
<1>7. phase \in [Calls -> {"idle", "launch", "collect", "escalate", "render", "done"}] /\ next \in [Calls -> Nat]
  BY DEF Inv, Typed
<1>8. \A d \in Calls \ {c} : phase'[d] = phase[d] /\ next'[d] = next[d]
  BY <1>7
<1> QED BY <1>1, <1>6, <1>8, OtherCalls

\* A call that starts has launched nothing yet.
LEMMA StartInv == ASSUME Inv, NEW c \in Calls, Start(c) PROVE Inv'
<1>1. phase[c] = "idle" /\ LaunchInv(c) /\ next \in [Calls -> Nat] /\ RenderInv(c)
      /\ phase \in [Calls -> {"idle", "launch", "collect", "escalate", "render", "done"}]
      /\ ox \in [Calls -> [Engines -> {"none", "rendering", "skipped", "ok", "none_delivered"}]]
  BY DEF Start, Inv, Typed, CallInv
<1>2. phase' = [phase EXCEPT ![c] = "launch"] /\ next' = [next EXCEPT ![c] = 1]
      /\ phase'[c] = "launch" /\ next'[c] = 1
  BY <1>1 DEF Start, LaunchInv
<1>3. LaunchInv(c)'
  BY <1>1, <1>2, JobsFacts DEF Start, LaunchInv
<1>4. DrainedInv(c)'
  BY <1>2 DEF DrainedInv, Collected
<1>5. RenderInv(c)'
  BY <1>1 DEF Start, RenderInv, Rendering
<1> QED BY <1>1, <1>2, <1>3, <1>4, <1>5, PhaseInv DEF Start

\* The collector stops only when no leg can send any more.
LEMMA CollectEndInv == ASSUME Inv, NEW c \in Calls, CollectEnd(c) PROVE Inv'
<1>1. phase[c] = "collect" /\ LaunchInv(c) /\ next \in [Calls -> Nat] /\ RenderInv(c)
      /\ phase \in [Calls -> {"idle", "launch", "collect", "escalate", "render", "done"}]
      /\ ox \in [Calls -> [Engines -> {"none", "rendering", "skipped", "ok", "none_delivered"}]]
  BY DEF CollectEnd, Inv, Typed, CallInv
<1>2. phase' = [phase EXCEPT ![c] = "escalate"] /\ next' = [next EXCEPT ![c] = 1]
      /\ phase'[c] = "escalate" /\ next'[c] = 1
  BY <1>1 DEF CollectEnd, LaunchInv
<1>3. LaunchInv(c)'
  BY <1>2, JobsFacts DEF LaunchInv
<1>4. DrainedInv(c)'
  BY <1>2 DEF CollectEnd, DrainedInv
<1>5. RenderInv(c)'
  BY <1>1 DEF CollectEnd, RenderInv, Rendering
<1> QED BY <1>1, <1>2, <1>3, <1>4, <1>5, PhaseInv DEF CollectEnd

\* After the collection only phase, next and ox move.
LEMMA AfterCollect ==
  ASSUME Inv, NEW c \in Calls, Collected(c), NEW p \in {"escalate", "render", "done"}, NEW n \in Nat,
         phase' = [phase EXCEPT ![c] = p], next' = [next EXCEPT ![c] = n],
         p = "escalate" => n \in 1..Len(OxEscalate),
         UNCHANGED <<callerCtx, leg, ch, stats, cancelled>>,
         ox' \in [Calls -> [Engines -> {"none", "rendering", "skipped", "ok", "none_delivered"}]],
         \A d \in Calls \ {c} : ox'[d] = ox[d], RenderInv(c)'
  PROVE  Inv'
<1>1. phase'[c] = p /\ next'[c] = n
  BY DEF Inv, Typed
<1>2. LaunchInv(c)'
  BY <1>1 DEF LaunchInv
<1>3. DrainedInv(c)'
  BY DEF Inv, CallInv, DrainedInv
<1> QED BY <1>2, <1>3, PhaseInv

\* A TryAcquire that succeeds leaves at most OxConcurrency renders.
LEMMA EscalateInv == ASSUME Inv, NEW c \in Calls, EscalateSkip(c) \/ EscalateCheck(c) \/ Finish(c) PROVE Inv'
<1>1. /\ Collected(c) /\ LaunchInv(c) /\ next \in [Calls -> Nat] /\ RenderInv(c)
      /\ phase \in [Calls -> {"idle", "launch", "collect", "escalate", "render", "done"}]
      /\ ox \in [Calls -> [Engines -> {"none", "rendering", "skipped", "ok", "none_delivered"}]]
  BY DEF EscalateSkip, EscalateCheck, Finish, Collected, Inv, Typed, CallInv
<1>2. CASE EscalateSkip(c) \/ Finish(c)
  <2>1. phase' = [phase EXCEPT ![c] = "done"] /\ next' = [next EXCEPT ![c] = next[c]] /\ next[c] \in Nat
        /\ ox' = ox /\ UNCHANGED <<callerCtx, leg, ch, stats, cancelled>>
    BY <1>1, <1>2 DEF EscalateSkip, Finish
  <2>2. RenderInv(c)'
    BY <1>1, <2>1 DEF RenderInv, Rendering
  <2> QED BY <1>1, <2>1, <2>2, AfterCollect
<1>3. CASE EscalateCheck(c)
  <2> DEFINE e == OxEscalate[next[c]]
             v == IF e \in blocked THEN Admit(c, e, Rendering(c)) ELSE "none"
  <2>1. phase[c] = "escalate" /\ next[c] \in 1..Len(OxEscalate) /\ e \in Engines
    BY <1>1, <1>3, JobsFacts DEF EscalateCheck, LaunchInv
  <2>2. ox' = [ox EXCEPT ![c][e] = v]
    BY <1>3 DEF EscalateCheck, Rendering
  <2>3. v \in {"none", "rendering", "skipped"}
    BY DEF Admit
  <2>4. v = "rendering" => Cardinality(Rendering(c)) < OxConcurrency
    BY DEF Admit
  <2> HIDE DEF e, v
  <2>5. /\ ox' \in [Calls -> [Engines -> {"none", "rendering", "skipped", "ok", "none_delivered"}]]
        /\ \A d \in Calls \ {c} : ox'[d] = ox[d]
        /\ \A g \in Engines : ox'[c][g] = IF g = e THEN v ELSE ox[c][g]
    BY <1>1, <2>1, <2>2, <2>3
  <2>6. RenderInv(c)'
    <3>1. Rendering(c) \in SUBSET Engines /\ Rendering(c)' \in SUBSET Engines
      BY DEF Rendering
    <3>2. IsFiniteSet(Rendering(c)) /\ Cardinality(Rendering(c)) \in Nat /\ Cardinality(Rendering(c)') \in Nat
      BY <3>1, SubsetFinite
    <3>3. CASE v = "rendering"
      <4>1. Rendering(c)' = Rendering(c) \cup {e}
        BY <2>1, <2>5, <3>3 DEF Rendering
      <4>2. Cardinality(Rendering(c)') <= Cardinality(Rendering(c)) + 1
        BY <3>2, <4>1, FS_AddElement
      <4> QED BY <2>4, <3>2, <3>3, <4>2, BoundsAssumption DEF RenderInv
    <3>4. CASE v # "rendering"
      <4>1. Rendering(c)' \subseteq Rendering(c)
        BY <2>5, <3>4 DEF Rendering
      <4>2. Cardinality(Rendering(c)') <= Cardinality(Rendering(c))
        BY <3>2, <4>1, FS_Subset
      <4> QED BY <1>1, <3>2, <4>2, BoundsAssumption DEF RenderInv
    <3> QED BY <3>3, <3>4
  <2>7. CASE next[c] < Len(OxEscalate)
    <3>1. phase' = [phase EXCEPT ![c] = "escalate"] /\ next' = [next EXCEPT ![c] = next[c] + 1]
      BY <1>1, <1>3, <2>1, <2>7 DEF EscalateCheck
    <3>2. next[c] + 1 \in Nat /\ next[c] + 1 \in 1..Len(OxEscalate)
      BY <2>1, <2>7, JobsFacts
    <3> QED BY <1>1, <1>3, <2>5, <2>6, <3>1, <3>2, AfterCollect DEF EscalateCheck
  <2>8. CASE ~(next[c] < Len(OxEscalate))
    <3>1. phase' = [phase EXCEPT ![c] = "render"] /\ next' = [next EXCEPT ![c] = 1]
      BY <1>3, <2>8 DEF EscalateCheck
    <3> QED BY <1>1, <1>3, <2>5, <2>6, <3>1, AfterCollect DEF EscalateCheck
  <2> QED BY <2>7, <2>8
<1> QED BY <1>2, <1>3

\* A render that ends gives its slot back.
LEMMA RenderStepInv ==
  ASSUME Inv, NEW c \in Calls, NEW e \in Engines, RenderOK(c, e) \/ RenderNone(c, e)
  PROVE  Inv'
<1>1. /\ Collected(c) /\ phase[c] = "render" /\ next \in [Calls -> Nat] /\ RenderInv(c)
      /\ phase \in [Calls -> {"idle", "launch", "collect", "escalate", "render", "done"}]
      /\ ox \in [Calls -> [Engines -> {"none", "rendering", "skipped", "ok", "none_delivered"}]]
  BY DEF RenderOK, RenderNone, Collected, Inv, Typed, CallInv
<1>2. PICK v \in {"ok", "none_delivered"} : ox' = [ox EXCEPT ![c][e] = v]
  BY DEF RenderOK, RenderNone
<1>3. /\ ox' \in [Calls -> [Engines -> {"none", "rendering", "skipped", "ok", "none_delivered"}]]
      /\ \A d \in Calls \ {c} : ox'[d] = ox[d]
      /\ \A g \in Engines : ox'[c][g] = IF g = e THEN v ELSE ox[c][g]
  BY <1>1, <1>2
<1>4. RenderInv(c)'
  <2>1. Rendering(c) \in SUBSET Engines /\ Rendering(c)' \in SUBSET Engines
    BY DEF Rendering
  <2>2. IsFiniteSet(Rendering(c)) /\ Cardinality(Rendering(c)) \in Nat /\ Cardinality(Rendering(c)') \in Nat
    BY <2>1, SubsetFinite
  <2>3. Rendering(c)' \subseteq Rendering(c)
    BY <1>3 DEF Rendering
  <2>4. Cardinality(Rendering(c)') <= Cardinality(Rendering(c))
    BY <2>2, <2>3, FS_Subset
  <2> QED BY <1>1, <2>2, <2>4, BoundsAssumption DEF RenderInv
<1>5. phase' = [phase EXCEPT ![c] = "render"] /\ next' = [next EXCEPT ![c] = next[c]] /\ next[c] \in Nat
      /\ UNCHANGED <<callerCtx, leg, ch, stats, cancelled>>
  BY <1>1 DEF RenderOK, RenderNone
<1> QED BY <1>1, <1>3, <1>4, <1>5, AfterCollect

-----------------------------------------------------------------------------
\* The launch loop touches the leg of the next job, which is in its first state.
LEMMA LaunchStepInv == ASSUME Inv, NEW c \in Calls, Launch(c) PROVE Inv'
<1> DEFINE e == Jobs[next[c]]
           m == IF e \in blocked THEN [leg[c][e] EXCEPT !.outer = "skipped"]
                ELSE [leg[c][e] EXCEPT !.outer = "select", !.inner = "waiting", !.ctx = callerCtx[c]]
<1>1. /\ leg \in [Calls -> [Engines -> Leg]] /\ callerCtx[c] \in {"live", "Canceled", "DeadlineExceeded"}
      /\ phase \in [Calls -> {"idle", "launch", "collect", "escalate", "render", "done"}]
      /\ next \in [Calls -> Nat] /\ cancelled \in [Calls -> BOOLEAN]
  BY DEF Inv, Typed
<1>2. /\ phase[c] = "launch" /\ ~cancelled[c] /\ next[c] \in 1..Len(Jobs) /\ e \in Engines /\ e \in Range(Jobs)
      /\ \A i \in next[c]..Len(Jobs) : leg[c][Jobs[i]] = LegInit
  BY JobsFacts DEF Launch, Inv, CallInv, LaunchInv
<1>3. leg[c][e] = LegInit
  BY <1>2, JobsFacts
<1>4. /\ m \in Leg /\ m.outcome = "none" /\ m.done = <<>> /\ m.outer # "sent"
      /\ m.ctx = "live" \/ m.ctx = callerCtx[c]
  <2>1. leg[c][e] \in Leg
    BY <1>1, <1>2
  <2>2. leg[c][e].inner = "none" /\ leg[c][e].done = <<>> /\ leg[c][e].outcome = "none" /\ leg[c][e].ctx = "live"
    BY <1>3 DEF LegInit
  <2>3. CASE e \in blocked
    BY <2>1, <2>2, <2>3 DEF Leg
  <2>4. CASE e \notin blocked
    <3> DEFINE k == callerCtx[c]
    <3>1. k \in {"live", "Canceled", "DeadlineExceeded"}
      BY <1>1
    <3> HIDE DEF k
    <3>2. m = [leg[c][e] EXCEPT !.outer = "select", !.inner = "waiting", !.ctx = k]
      BY <2>4 DEF k
    <3> HIDE DEF m
    <3>3. m \in Leg /\ m.outcome = "none" /\ m.done = <<>> /\ m.outer = "select" /\ m.ctx = k
      BY <2>1, <2>2, <3>1, <3>2 DEF Leg
    <3> QED BY <3>3 DEF k
  <2> QED BY <2>3, <2>4
<1>5. leg' = [leg EXCEPT ![c][e] = m]
  BY <1>1, <1>2 DEF Launch
<1> HIDE DEF m
<1>6. /\ leg' \in [Calls -> [Engines -> Leg]] /\ \A d \in Calls \ {c} : leg'[d] = leg[d]
      /\ \A g \in Engines : leg'[c][g] = IF g = e THEN m ELSE leg[c][g]
  BY <1>1, <1>2, <1>4, <1>5
<1>7. /\ phase'[c] \in {"launch", "collect"} /\ next'[c] \in Nat
      /\ phase'[c] = "launch" => next[c] < Len(Jobs) /\ next'[c] = next[c] + 1
      /\ phase'[c] = "collect" => next'[c] = 1
      /\ phase' \in [Calls -> {"idle", "launch", "collect", "escalate", "render", "done"}]
      /\ next' \in [Calls -> Nat]
      /\ \A d \in Calls \ {c} : phase'[d] = phase[d] /\ next'[d] = next[d]
  <2>1. CASE next[c] < Len(Jobs)
    <3>1. phase' = phase /\ next' = [next EXCEPT ![c] = next[c] + 1]
      BY <2>1 DEF Launch
    <3> QED BY <1>1, <1>2, <2>1, <3>1, JobsFacts
  <2>2. CASE ~(next[c] < Len(Jobs))
    <3>1. phase' = [phase EXCEPT ![c] = "collect"] /\ next' = [next EXCEPT ![c] = 1]
      BY <2>2 DEF Launch
    <3> QED BY <1>1, <3>1
  <2> QED BY <2>1, <2>2
<1>8. UNCHANGED <<callerCtx, ch, stats, cancelled, ox>>
  BY DEF Launch
<1>9. Typed'
  BY <1>6, <1>7, <1>8 DEF Inv, Typed
<1>10. LaunchInv(c)'
  <2>1. ASSUME NEW i \in next'[c]..Len(Jobs), phase'[c] = "launch" PROVE leg'[c][Jobs[i]] = LegInit
    <3>1. i \in 1..Len(Jobs) /\ i \in next[c]..Len(Jobs) /\ i # next[c]
      BY <1>2, <1>7, <2>1, JobsFacts
    <3>2. Jobs[i] # e /\ Jobs[i] \in Engines
      BY <1>2, <3>1, JobsFacts, JobsAssumption
    <3> QED BY <1>2, <1>6, <3>1, <3>2
  <2>2. phase'[c] = "launch" => next'[c] \in 1..Len(Jobs)
    BY <1>2, <1>7, JobsFacts
  <2> QED BY <1>2, <1>7, <1>8, <2>1, <2>2 DEF LaunchInv
<1>11. ASSUME NEW g \in Engines PROVE LegInv(c, g)'
  <2>1. CASE g = e
    <3>1. leg'[c][g] = m
      BY <1>6, <2>1
    <3> QED BY <1>2, <1>4, <1>8, <2>1, <3>1 DEF LegInv, DoneOK
  <2>2. CASE g # e
    <3>1. leg'[c][g] = leg[c][g] /\ LegInv(c, g)
      BY <1>6, <2>2, LegFields
    <3> QED BY <1>8, <3>1 DEF LegInv, DoneOK
  <2> QED BY <2>1, <2>2
<1>12. ChannelInv(c)'
  <2>1. ChannelInv(c) /\ Typed
    BY DEF Inv, CallInv
  <2>2. \A i \in 1..Len(ch[c]) : leg'[c][ch[c][i].label] = leg[c][ch[c][i].label]
    <3>1. leg[c][e].outer = "none"
      BY <1>3 DEF LegInit
    <3>2. \A i \in 1..Len(ch[c]) : ch[c][i].label \in Engines /\ ch[c][i].label # e
      BY <2>1, <3>1, Labels DEF ChannelInv
    <3> QED BY <1>6, <3>2
  <2> QED BY <1>8, <2>1, <2>2 DEF ChannelInv
<1>13. StatsInv(c)' /\ RenderInv(c)'
  BY <1>3, <1>4, <1>6, <1>8, SameCounts DEF LegInit
<1>14. DrainedInv(c)'
  BY <1>7 DEF DrainedInv, Collected
<1>15. CallInv(c)'
  BY <1>10, <1>11, <1>12, <1>13, <1>14 DEF CallInv
<1> QED BY <1>6, <1>7, <1>8, <1>9, <1>15, OtherCalls

\* A leg that leaves its select puts its only message on the channel.
LEMMA DeliverInv ==
  ASSUME Inv, NEW c \in Calls, NEW e \in Engines, NEW r \in Ans, leg[c][e].outer = "select",
         r.err = "PerSourceTimeout" => leg[c][e].ctx = "PerSourceTimeout", Deliver(c, e, r)
  PROVE  Inv'
<1> DEFINE w == [label |-> e, err |-> r.err, n |-> r.n]
           m == [leg[c][e] EXCEPT !.outer = "sent"]
<1>1. /\ leg \in [Calls -> [Engines -> Leg]] /\ leg[c][e] \in Leg /\ ch \in [Calls -> Seq(Msg)]
      /\ LegInv(c, e) /\ ChannelInv(c) /\ Typed /\ LaunchInv(c)
  BY DEF Inv, Typed, CallInv
<1>2. w \in Msg /\ w.label = e /\ w.err = r.err
  BY DEF Msg, Ans
<1>3. /\ m \in Leg /\ m.outer = "sent" /\ m.outcome = leg[c][e].outcome /\ m.ctx = leg[c][e].ctx
      /\ m.done = leg[c][e].done /\ m.inner = leg[c][e].inner
  BY <1>1 DEF Leg
<1>4. leg' = [leg EXCEPT ![c][e] = m] /\ ch' = [ch EXCEPT ![c] = Append(ch[c], w)]
      /\ UNCHANGED <<callerCtx, phase, next, stats, cancelled, ox>>
  BY <1>1 DEF Deliver
<1> HIDE DEF m, w, Msg
<1>5. /\ leg' \in [Calls -> [Engines -> Leg]] /\ \A d \in Calls \ {c} : leg'[d] = leg[d]
      /\ \A g \in Engines : leg'[c][g] = IF g = e THEN m ELSE leg[c][g]
  BY <1>1, <1>3, <1>4
<1>6. /\ ch' \in [Calls -> Seq(Msg)] /\ \A d \in Calls \ {c} : ch'[d] = ch[d]
      /\ Len(ch[c]) \in Nat /\ Len(ch'[c]) = Len(ch[c]) + 1
      /\ ch'[c][Len(ch[c]) + 1] = w /\ \A i \in 1..Len(ch[c]) : ch'[c][i] = ch[c][i]
  BY <1>1, <1>2, <1>4
<1>7. Typed'
  BY <1>4, <1>5, <1>6 DEF Inv, Typed
<1>8. leg[c][e] # LegInit
  BY DEF LegInit
<1>9. LaunchInv(c)'
  BY <1>1, <1>4, <1>5, <1>8, JobsFacts DEF LaunchInv
<1>10. leg[c][e].outcome = "none"
  BY <1>1 DEF LegInv
<1>11. ASSUME NEW g \in Engines PROVE LegInv(c, g)'
  <2>1. CASE g = e
    <3>1. leg'[c][g] = m /\ Len(ch[c]) + 1 \in 1..Len(ch'[c])
      BY <1>5, <1>6, <2>1
    <3>2. DoneOK(m.done)
      BY <1>1, <1>3 DEF LegInv, DoneOK
    <3>3. ch'[c][Len(ch[c]) + 1].label = e
      BY <1>2, <1>6
    <3>4. \E i \in 1..Len(ch'[c]) : ch'[c][i].label = e
      BY <3>1, <3>3
    <3> QED BY <1>1, <1>3, <1>4, <1>10, <2>1, <3>1, <3>2, <3>4 DEF LegInv, DoneOK
  <2>2. CASE g # e
    <3>1. leg'[c][g] = leg[c][g] /\ LegInv(c, g)
      BY <1>5, <2>2, LegFields
    <3>2. (\E i \in 1..Len(ch[c]) : ch[c][i].label = g) => (\E i \in 1..Len(ch'[c]) : ch'[c][i].label = g)
      BY <1>6
    <3> QED BY <1>4, <3>1, <3>2 DEF LegInv, DoneOK
  <2> QED BY <2>1, <2>2
<1>12. ChannelInv(c)'
  <2>1. ASSUME NEW i \in 1..Len(ch[c])
        PROVE  ch[c][i].label \in Engines /\ ch[c][i].label # e
               /\ leg'[c][ch[c][i].label] = leg[c][ch[c][i].label]
    BY <1>1, <1>5, Labels DEF ChannelInv
  <2>2. \A i \in 1..Len(ch'[c]) : i \in 1..Len(ch[c]) \/ i = Len(ch[c]) + 1
    BY <1>6
  <2>3. ASSUME NEW i \in 1..Len(ch'[c])
        PROVE  /\ leg'[c][ch'[c][i].label].outer = "sent"
               /\ leg'[c][ch'[c][i].label].outcome = "none"
               /\ ch'[c][i].err = "PerSourceTimeout" => leg'[c][ch'[c][i].label].ctx = "PerSourceTimeout"
    <3>1. CASE i \in 1..Len(ch[c])
      BY <1>1, <1>6, <2>1, <3>1 DEF ChannelInv
    <3>2. CASE i = Len(ch[c]) + 1
      BY <1>2, <1>3, <1>5, <1>6, <1>10, <3>2
    <3> QED BY <2>2, <3>1, <3>2
  <2>4. ASSUME NEW i \in 1..Len(ch'[c]), NEW j \in 1..Len(ch'[c]), ch'[c][i].label = ch'[c][j].label
        PROVE  i = j
    BY <1>1, <1>2, <1>6, <2>1, <2>2, <2>4 DEF ChannelInv
  <2> QED BY <2>3, <2>4 DEF ChannelInv
<1>13. StatsInv(c)' /\ RenderInv(c)'
  BY <1>3, <1>4, <1>5, SameCounts
<1>14. DrainedInv(c)'
  BY <1>4 DEF DrainedInv, Collected, Inv, CallInv
<1>15. CallInv(c)'
  BY <1>9, <1>11, <1>12, <1>13, <1>14 DEF CallInv
<1> QED BY <1>4, <1>5, <1>6, <1>7, <1>15, OtherCalls

\* Both branches of the select deliver a result whose cause the leg's context has.
LEMMA SelectInv ==
  ASSUME Inv, NEW c \in Calls, NEW e \in Engines, SelectDone(c, e) \/ SelectCtx(c, e)
  PROVE  Inv'
<1>1. leg[c][e] \in Leg /\ LegInv(c, e)
  BY LegFields
<1>2. CASE SelectDone(c, e)
  <2>1. leg[c][e].done \in Seq(Ans) /\ leg[c][e].done # <<>> /\ DoneOK(leg[c][e].done)
    BY <1>1, <1>2 DEF SelectDone, Leg, LegInv
  <2>2. leg[c][e].done[1] \in Ans /\ leg[c][e].done[1].err # "PerSourceTimeout"
    <3>1. 1 \in 1..Len(leg[c][e].done) /\ leg[c][e].done[1] \in Ans
      <4> HIDE DEF Ans
      <4> QED BY <2>1
    <3> QED BY <2>1, <3>1 DEF DoneOK
  <2>3. DoneResult(c, e) \in Ans /\ (DoneResult(c, e).err = "PerSourceTimeout" => leg[c][e].ctx = "PerSourceTimeout")
    BY <1>1, <2>2 DEF DoneResult, Reconcile, Ans, Err, Leg
  <2> QED BY <1>2, <2>3, DeliverInv DEF SelectDone
<1>3. CASE SelectCtx(c, e)
  <2>1. CtxResult(c, e) \in Ans /\ CtxResult(c, e).err = leg[c][e].ctx
    BY <1>1, <1>3 DEF SelectCtx, CtxResult, Ans, Err, Leg
  <2> QED BY <1>3, <2>1, DeliverInv DEF SelectCtx
<1> QED BY <1>2, <1>3

\* Every class of result counts for one.
LEMMA CountOne ==
  ASSUME NEW st \in Stats, NEW o \in Outcomes \ {"none"}, st.Attempted = st.OK + st.Empty + st.Failed
  PROVE  LET t == Count(st, o) IN
         /\ t \in Stats /\ t.Attempted = t.OK + t.Empty + t.Failed
         /\ t.Attempted + t.Shed = st.Attempted + st.Shed + 1
<1>1. st.Attempted \in Nat /\ st.OK \in Nat /\ st.Empty \in Nat /\ st.Failed \in Nat /\ st.Shed \in Nat
  BY DEF Stats
<1>2. CASE o = "shed"
  BY <1>1, <1>2 DEF Count, Stats
<1>3. CASE o = "empty"
  <2> DEFINE a == st.Attempted + 1
             b == st.Empty + 1
  <2>1. Count(st, o) = [st EXCEPT !.Attempted = a, !.Empty = b]
    BY <1>3 DEF Count
  <2>2. a \in Nat /\ b \in Nat
    BY <1>1
  <2> HIDE DEF a, b
  <2>3. /\ Count(st, o) \in Stats /\ Count(st, o).Attempted = a /\ Count(st, o).Empty = b
        /\ Count(st, o).OK = st.OK /\ Count(st, o).Failed = st.Failed /\ Count(st, o).Shed = st.Shed
    BY <2>1, <2>2 DEF Stats
  <2> QED BY <1>1, <2>3 DEF a, b
<1>4. CASE o = "ok"
  <2> DEFINE a == st.Attempted + 1
             b == st.OK + 1
  <2>1. Count(st, o) = [st EXCEPT !.Attempted = a, !.OK = b]
    BY <1>4 DEF Count
  <2>2. a \in Nat /\ b \in Nat
    BY <1>1
  <2> HIDE DEF a, b
  <2>3. /\ Count(st, o) \in Stats /\ Count(st, o).Attempted = a /\ Count(st, o).OK = b
        /\ Count(st, o).Empty = st.Empty /\ Count(st, o).Failed = st.Failed /\ Count(st, o).Shed = st.Shed
    BY <2>1, <2>2 DEF Stats
  <2> QED BY <1>1, <2>3 DEF a, b
<1>5. CASE o \notin {"shed", "empty", "ok"}
  <2> DEFINE a == st.Attempted + 1
             b == st.Failed + 1
  <2>1. Count(st, o) = [st EXCEPT !.Attempted = a, !.Failed = b]
    BY <1>5 DEF Count
  <2>2. a \in Nat /\ b \in Nat
    BY <1>1
  <2> HIDE DEF a, b
  <2>3. /\ Count(st, o) \in Stats /\ Count(st, o).Attempted = a /\ Count(st, o).Failed = b
        /\ Count(st, o).OK = st.OK /\ Count(st, o).Empty = st.Empty /\ Count(st, o).Shed = st.Shed
    BY <2>1, <2>2 DEF Stats
  <2> QED BY <1>1, <2>3 DEF a, b
<1> QED BY <1>2, <1>3, <1>4, <1>5

\* The collector takes one message and counts its leg, once.
LEMMA CollectInv == ASSUME Inv, NEW c \in Calls, Collect(c) PROVE Inv'
<1> DEFINE r == Head(ch[c])
           e == r.label
           o == Outcome(r)
           enough == o = "ok" /\ ~cancelled[c] /\ merged[c] + r.n >= EarlyReturnAt
           legs == IF enough THEN EndLegs(c, "Canceled") ELSE leg
           m == [legs[c][e] EXCEPT !.outcome = o]
<1>1. /\ leg \in [Calls -> [Engines -> Leg]] /\ ch \in [Calls -> Seq(Msg)] /\ cancelled \in [Calls -> BOOLEAN]
      /\ stats \in [Calls -> Stats] /\ Typed /\ ChannelInv(c) /\ LaunchInv(c) /\ StatsInv(c)
  BY DEF Inv, Typed, CallInv
<1>2. phase[c] = "collect" /\ ch[c] # <<>> /\ ch[c] \in Seq(Msg)
  BY <1>1 DEF Collect
<1>3. /\ r = ch[c][1] /\ Len(ch[c]) \in Nat \ {0} /\ 1 \in 1..Len(ch[c])
      /\ Tail(ch[c]) \in Seq(Msg) /\ Len(Tail(ch[c])) = Len(ch[c]) - 1
      /\ \A i \in 1..(Len(ch[c]) - 1) : Tail(ch[c])[i] = ch[c][i + 1]
  <2> HIDE DEF Msg
  <2> QED BY <1>2
<1>4. e \in Engines /\ leg[c][e].outer = "sent" /\ leg[c][e].outcome = "none"
      /\ (r.err = "PerSourceTimeout" => leg[c][e].ctx = "PerSourceTimeout")
  BY <1>1, <1>3, Labels DEF ChannelInv
<1>5. o \in Outcomes \ {"none"} /\ (o = "timeout" => r.err = "PerSourceTimeout")
  BY DEF Outcome, Outcomes
<1>6. /\ legs \in [Calls -> [Engines -> Leg]] /\ \A d \in Calls \ {c} : legs[d] = leg[d]
      /\ \A g \in Engines :
           /\ legs[c][g].outer = leg[c][g].outer /\ legs[c][g].outcome = leg[c][g].outcome
           /\ legs[c][g].done = leg[c][g].done /\ legs[c][g].inner = leg[c][g].inner
           /\ leg[c][g].ctx # "live" => legs[c][g].ctx = leg[c][g].ctx
           /\ enough /\ leg[c][g].outer = "select" => legs[c][g].ctx # "live"
  <2>1. CASE enough
    BY <2>1, EndLegsFacts DEF LegMove
  <2>2. CASE ~enough
    <3>1. legs = leg
      BY <2>2
    <3> HIDE DEF legs, enough
    <3> QED BY <1>1, <2>2, <3>1
  <2> QED BY <2>1, <2>2
<1>7. /\ ch' = [ch EXCEPT ![c] = Tail(ch[c])] /\ stats' = [stats EXCEPT ![c] = Count(stats[c], o)]
      /\ cancelled' = [cancelled EXCEPT ![c] = cancelled[c] \/ enough]
      /\ leg' = [legs EXCEPT ![c][e].outcome = o] /\ UNCHANGED <<callerCtx, phase, next, ox>>
  BY DEF Collect
<1>8. enough \in BOOLEAN
  OBVIOUS
<1> HIDE DEF r, o, e, enough, legs
<1>9. /\ m \in Leg /\ m.outcome = o /\ m.outer = "sent" /\ m.done = leg[c][e].done
      /\ m.inner = leg[c][e].inner /\ m.ctx = legs[c][e].ctx
  <2>1. legs[c][e] \in Leg
    BY <1>4, <1>6
  <2> QED BY <1>4, <1>5, <1>6, <2>1 DEF Leg
<1>10. leg' = [legs EXCEPT ![c][e] = m]
  BY <1>4, <1>6, <1>7
<1> HIDE DEF m
<1>11. /\ leg' \in [Calls -> [Engines -> Leg]] /\ \A d \in Calls \ {c} : leg'[d] = leg[d]
       /\ \A g \in Engines : leg'[c][g] = IF g = e THEN m ELSE legs[c][g]
  BY <1>4, <1>6, <1>9, <1>10
<1>12. /\ ch' \in [Calls -> Seq(Msg)] /\ ch'[c] = Tail(ch[c]) /\ \A d \in Calls \ {c} : ch'[d] = ch[d]
       /\ cancelled' \in [Calls -> BOOLEAN] /\ (cancelled'[c] <=> (cancelled[c] \/ enough))
       /\ \A d \in Calls \ {c} : cancelled'[d] = cancelled[d]
  BY <1>1, <1>3, <1>7, <1>8
<1>13. /\ stats' \in [Calls -> Stats] /\ stats'[c] = Count(stats[c], o)
       /\ \A d \in Calls \ {c} : stats'[d] = stats[d]
  <2>1. Count(stats[c], o) \in Stats
    BY <1>1, <1>5, CountOne DEF StatsInv
  <2> QED BY <1>1, <1>7, <2>1
<1>14. Typed'
  BY <1>7, <1>11, <1>12, <1>13 DEF Inv, Typed
<1>15. LaunchInv(c)'
  BY <1>1, <1>2, <1>7 DEF LaunchInv
<1>16. \A i \in 1..Len(ch'[c]) : i + 1 \in 1..Len(ch[c]) /\ i + 1 # 1 /\ ch'[c][i] = ch[c][i + 1]
  BY <1>3, <1>12
<1>17. ASSUME NEW i \in 1..Len(ch[c]), i # 1 PROVE ch[c][i].label \in Engines /\ ch[c][i].label # e
  <2>1. ch[c][i].label # ch[c][1].label /\ ch[c][i].label \in Engines
    BY <1>1, <1>3, <1>17, Labels DEF ChannelInv
  <2> QED BY <1>3, <2>1 DEF e
<1>18. ASSUME NEW g \in Engines PROVE LegInv(c, g)'
  <2>1. LegInv(c, g)
    BY LegFields
  <2>2. CASE g = e
    <3>1. leg'[c][g] = m
      BY <1>11, <2>2
    <3>2. DoneOK(m.done)
      BY <1>9, <2>1, <2>2 DEF LegInv, DoneOK
    <3>3. o = "timeout" => m.ctx = "PerSourceTimeout"
      BY <1>4, <1>5, <1>6, <1>9
    <3> QED BY <1>5, <1>9, <2>1, <2>2, <3>1, <3>2, <3>3 DEF LegInv, DoneOK, Outcomes
  <2>3. CASE g # e
    <3>1. leg'[c][g] = legs[c][g]
      BY <1>11, <2>3
    <3>2. ASSUME NEW i \in 1..Len(ch[c]), ch[c][i].label = g
          PROVE  \E j \in 1..Len(ch'[c]) : ch'[c][j].label = g
      <4>1. i # 1
        BY <1>3, <2>3, <3>2 DEF e
      <4>2. i - 1 \in 1..Len(ch'[c]) /\ ch'[c][i - 1] = ch[c][i]
        BY <1>3, <1>12, <4>1
      <4> QED BY <3>2, <4>2
    <3>3. cancelled'[c] /\ legs[c][g].outer = "select" => legs[c][g].ctx # "live"
      BY <1>6, <1>12, <2>1 DEF LegInv
    <3>4. DoneOK(legs[c][g].done)
      BY <1>6, <2>1 DEF LegInv, DoneOK
    <3>5. legs[c][g].outer = "sent" =>
            legs[c][g].outcome # "none" \/ \E j \in 1..Len(ch'[c]) : ch'[c][j].label = g
      BY <1>6, <2>1, <3>2 DEF LegInv
    <3>6. /\ legs[c][g].inner # "none" => g \in Range(Jobs)
          /\ legs[c][g].outcome # "none" => legs[c][g].outer = "sent"
          /\ legs[c][g].outcome = "timeout" => legs[c][g].ctx = "PerSourceTimeout"
      BY <1>6, <2>1 DEF LegInv
    <3> QED BY <3>1, <3>3, <3>4, <3>5, <3>6 DEF LegInv, DoneOK
  <2> QED BY <2>2, <2>3
<1>19. ChannelInv(c)'
  <2>1. ASSUME NEW i \in 1..Len(ch'[c])
        PROVE  /\ leg'[c][ch'[c][i].label].outer = "sent"
               /\ leg'[c][ch'[c][i].label].outcome = "none"
               /\ ch'[c][i].err = "PerSourceTimeout" => leg'[c][ch'[c][i].label].ctx = "PerSourceTimeout"
    <3>1. leg'[c][ch'[c][i].label] = legs[c][ch'[c][i].label] /\ ch'[c][i].label \in Engines
      BY <1>11, <1>16, <1>17
    <3>2. /\ leg[c][ch'[c][i].label].outer = "sent" /\ leg[c][ch'[c][i].label].outcome = "none"
          /\ ch'[c][i].err = "PerSourceTimeout" => leg[c][ch'[c][i].label].ctx = "PerSourceTimeout"
      <4>1. PICK k \in 1..Len(ch[c]) : ch'[c][i] = ch[c][k]
        BY <1>16
      <4> QED BY <1>1, <4>1 DEF ChannelInv
    <3> QED BY <1>6, <3>1, <3>2
  <2>2. ASSUME NEW i \in 1..Len(ch'[c]), NEW j \in 1..Len(ch'[c]), ch'[c][i].label = ch'[c][j].label
        PROVE  i = j
    <3>1. PICK k \in 1..Len(ch[c]) : k = i + 1 /\ ch'[c][i] = ch[c][k]
      BY <1>16
    <3>2. PICK l \in 1..Len(ch[c]) : l = j + 1 /\ ch'[c][j] = ch[c][l]
      BY <1>16
    <3>3. k = l
      BY <1>1, <2>2, <3>1, <3>2 DEF ChannelInv
    <3> QED BY <1>3, <1>12, <3>1, <3>2, <3>3
  <2> QED BY <2>1, <2>2 DEF ChannelInv
<1>20. StatsInv(c)'
  <2>1. Counted(c)' = Counted(c) \cup {e} /\ e \notin Counted(c)
    BY <1>4, <1>5, <1>6, <1>9, <1>11 DEF Counted
  <2>2. Counted(c) \in SUBSET Engines
    BY DEF Counted
  <2>3. Cardinality(Counted(c)') = Cardinality(Counted(c)) + 1
    BY <2>1, <2>2, SubsetFinite, FS_AddElement
  <2>4. stats[c] \in Stats
    BY <1>1
  <2> QED BY <1>1, <1>5, <1>13, <2>3, <2>4, CountOne DEF StatsInv
<1>21. RenderInv(c)'
  BY <1>7 DEF Inv, CallInv, RenderInv, Rendering
<1>22. DrainedInv(c)'
  BY <1>2, <1>7 DEF DrainedInv, Collected
<1>23. CallInv(c)'
  BY <1>15, <1>18, <1>19, <1>20, <1>21, <1>22 DEF CallInv
<1> QED BY <1>7, <1>11, <1>12, <1>13, <1>14, <1>23, OtherCalls

\* The invariant does not depend on the block cache.
LEMMA ExpireInv == ASSUME Inv, UNCHANGED <<callerCtx, phase, next, leg, ch, stats, cancelled, ox>> PROVE Inv'
<1>1. Typed'
  BY DEF Inv, Typed
<1>2. ASSUME NEW c \in Calls PROVE CallInv(c)'
  <2>1. Counted(c)' = Counted(c) /\ Rendering(c)' = Rendering(c)
    BY DEF Counted, Rendering
  <2>2. StatsInv(c)' /\ RenderInv(c)'
    BY <2>1 DEF Inv, CallInv, StatsInv, RenderInv
  <2>3. LaunchInv(c)' /\ ChannelInv(c)' /\ DrainedInv(c)'
    BY DEF Inv, CallInv, LaunchInv, ChannelInv, DrainedInv, Collected
  <2>4. \A e \in Engines : LegInv(c, e)'
    BY DEF Inv, CallInv, LegInv
  <2> QED BY <2>2, <2>3, <2>4 DEF CallInv
<1> QED BY <1>1, <1>2 DEF Inv

\* One case per action of the specification.
LEMMA NextInv == Inv /\ [Next]_vars => Inv'
<1> SUFFICES ASSUME Inv, [Next]_vars PROVE Inv'
  OBVIOUS
<1>1. ASSUME NEW c \in Calls, CallStep(c) PROVE Inv'
  BY <1>1, StartInv, LaunchStepInv, CallerEndsInv, CollectInv, CollectEndInv, EscalateInv DEF CallStep
<1>2. ASSUME NEW c \in Calls, NEW e \in Engines, LegStep(c, e) PROVE Inv'
  BY <1>2, InnerInv, SelectInv, RenderStepInv DEF LegStep
<1>3. ASSUME NEW e \in Engines, Expire(e) PROVE Inv'
  BY <1>3, ExpireInv DEF Expire
<1>4. CASE AllDone \/ UNCHANGED vars
  BY <1>4, ExpireInv DEF AllDone, vars
<1> QED BY <1>1, <1>2, <1>3, <1>4 DEF Next

\* The inductive invariant holds of every behaviour.
LEMMA SpecInv == Spec => []Inv
BY InitInv, NextInv, PTL DEF Spec

-----------------------------------------------------------------------------
\* Every launched leg of collectResults is counted exactly once, whether it
\* ended by an answer, its timeout, the early return or a shed.
THEOREM AccountingCorrect == Spec => []Accounting
<1>1. Inv => Accounting
  <2> SUFFICES ASSUME Inv, NEW c \in Calls, Collected(c)
               PROVE  /\ stats[c].Attempted = stats[c].OK + stats[c].Empty + stats[c].Failed
                      /\ stats[c].Attempted + stats[c].Shed = Cardinality(Launched(c))
                      /\ \A e \in Launched(c) : leg[c][e].outcome # "none"
    BY DEF Accounting
  <2>1. StatsInv(c) /\ DrainedInv(c) /\ \A e \in Engines : LegInv(c, e)
    BY DEF Inv, CallInv
  <2>2. ch[c] = <<>> /\ \A e \in Engines : leg[c][e].outer # "select"
    BY <2>1 DEF DrainedInv
  <2>3. \A e \in Engines : leg[c][e].outer = "sent" <=> leg[c][e].outcome # "none"
    BY <2>1, <2>2 DEF LegInv
  <2>4. Launched(c) = Counted(c)
    BY <2>2, <2>3 DEF Launched, Counted
  <2> QED BY <2>1, <2>4 DEF StatsInv, Counted
<1> QED BY <1>1, SpecInv, PTL

\* Only an engine's own timer has it classified as timed out, and the branch the
\* select of runSourceWithTimeout takes makes no difference to that.
THEOREM TimeoutsClassified == Spec => []TimeoutClassified
<1>1. Inv => TimeoutIsOwn
  BY DEF Inv, CallInv, LegInv, TimeoutIsOwn
<1>2. Inv => SelectRaceCollapsed
  <2> SUFFICES ASSUME Inv, NEW c \in Calls, NEW e \in Engines, leg[c][e].ctx # "live",
                      leg[c][e].done # <<>>, leg[c][e].done[1].err = CtxErr(leg[c][e].ctx)
               PROVE  DoneResult(c, e) = CtxResult(c, e)
    BY DEF SelectRaceCollapsed
  <2>1. leg[c][e].done \in Seq(Ans) /\ DoneOK(leg[c][e].done)
        /\ leg[c][e].ctx \in {"PerSourceTimeout", "Canceled", "DeadlineExceeded"}
    BY LegFields DEF Leg, LegInv
  <2>2. 1 \in 1..Len(leg[c][e].done) /\ leg[c][e].done[1] \in Ans
    <3> HIDE DEF Ans
    <3> QED BY <2>1
  <2>3. leg[c][e].done[1].n = 0
    BY <2>1, <2>2 DEF DoneOK, CtxErr
  <2> QED BY <2>1, <2>2, <2>3 DEF DoneResult, Reconcile, CtxResult, CtxErr, Ans
<1> QED BY <1>1, <1>2, SpecInv, PTL DEF TimeoutClassified

\* After the early return no select of the call can be left waiting.
THEOREM EarlyReturnCorrect == Spec => []EarlyReturnStopsLegs
<1>1. Inv => EarlyReturnStopsLegs
  BY DEF Inv, CallInv, LegInv, EarlyReturnStopsLegs
<1> QED BY <1>1, SpecInv, PTL

\* The render semaphore of runOxEscalation is never exceeded.
THEOREM RenderBoundCorrect == Spec => []RenderBound
<1>1. Inv => RenderBound
  <2>1. Inv => \A c \in Calls : RenderInv(c)
    BY DEF Inv, CallInv
  <2> QED BY <2>1 DEF RenderInv, Rendering, RenderBound
<1> QED BY <1>1, SpecInv, PTL

-----------------------------------------------------------------------------
(* OverlookedWasTried, on a cache whose Marks outlive the calls.           *)

\* Another call's render of e has delivered nothing.
Healed(c, e) == \E d \in Calls \ {c} : ox[d][e] = "none_delivered"

\* An engine this call has Marked stays Marked until the renders start, and the
\* labels the escalation has passed by have been admitted or skipped, unless
\* another call has healed them.
Promoted(c) ==
    /\ phase[c] \notin {"render", "done"} =>
         \A e \in Engines : leg[c][e].outcome \in Marking => e \in blocked \/ Healed(c, e)
    /\ phase[c] = "escalate" =>
         \A i \in 1..(next[c] - 1) :
             leg[c][OxEscalate[i]].outcome \in Marking
             => ox[c][OxEscalate[i]] # "none" \/ Healed(c, OxEscalate[i])
    /\ phase[c] = "render" =>
         \A i \in 1..Len(OxEscalate) :
             leg[c][OxEscalate[i]].outcome \in Marking
             => ox[c][OxEscalate[i]] # "none" \/ Healed(c, OxEscalate[i])

\* Renders end after the escalation has looked up its labels.
Unrendered(c) ==
    phase[c] \notin {"render", "done"} => \A e \in Engines : ox[c][e] # "none_delivered"

\* A step of d leaves the other calls where they are.
LEMMA OthersStay ==
  ASSUME Inv, NEW d \in Calls, CallStep(d) \/ \E e \in Engines : LegStep(d, e),
         NEW c \in Calls, c # d
  PROVE  phase'[c] = phase[c] /\ next'[c] = next[c] /\ leg'[c] = leg[c] /\ ox'[c] = ox[c]
<1>0. /\ phase \in [Calls -> {"idle", "launch", "collect", "escalate", "render", "done"}]
      /\ next \in [Calls -> Nat] /\ leg \in [Calls -> [Engines -> Leg]]
      /\ ox \in [Calls -> [Engines -> {"none", "rendering", "skipped", "ok", "none_delivered"}]]
  BY DEF Inv, Typed
<1>1. \A cause : EndLegs(d, cause)[c] = leg[c]
  BY <1>0 DEF EndLegs
<1>2. CASE Start(d) \/ CollectEnd(d) \/ EscalateSkip(d) \/ EscalateCheck(d) \/ Finish(d)
  BY <1>0, <1>2 DEF Start, CollectEnd, EscalateSkip, EscalateCheck, Finish
<1>3. CASE Launch(d)
  BY <1>0, <1>3 DEF Launch
<1>4. CASE CallerEnds(d)
  BY <1>1, <1>4 DEF CallerEnds
<1>5. CASE Collect(d)
  <2> DEFINE e == Head(ch[d]).label
             o == Outcome(Head(ch[d]))
             legs == IF o = "ok" /\ ~cancelled[d] /\ merged[d] + Head(ch[d]).n >= EarlyReturnAt
                     THEN EndLegs(d, "Canceled") ELSE leg
  <2>1. leg' = [legs EXCEPT ![d][e].outcome = o] /\ UNCHANGED <<phase, next, ox>>
    BY <1>5 DEF Collect
  <2>2. legs[c] = leg[c]
    BY <1>1
  <2> HIDE DEF e, o, legs
  <2> QED BY <2>1, <2>2
<1>6. ASSUME NEW e \in Engines, LegStep(d, e)
      PROVE  phase'[c] = phase[c] /\ next'[c] = next[c] /\ leg'[c] = leg[c] /\ ox'[c] = ox[c]
  BY <1>0, <1>6 DEF LegStep, InnerProceed, InnerShed, InnerWaitFails, InnerReturn, SelectDone, SelectCtx,
                    Deliver, PerSourceTimeout, RenderOK, RenderNone
<1> QED BY <1>2, <1>3, <1>4, <1>5, <1>6 DEF CallStep

\* A render that delivered nothing is not forgotten, and Marks go only with one.
LEMMA HealedKept ==
  ASSUME Inv, NEW d \in Calls, Unrendered(d), CallStep(d) \/ \E e \in Engines : LegStep(d, e)
  PROVE  /\ Unrendered(d)'
         /\ \A g \in Engines : ox[d][g] = "none_delivered" => ox'[d][g] = "none_delivered"
         /\ \A g \in blocked : g \in blocked' \/ (ox'[d][g] = "none_delivered" /\ phase[d] = "render")
<1>0. /\ phase \in [Calls -> {"idle", "launch", "collect", "escalate", "render", "done"}]
      /\ ox \in [Calls -> [Engines -> {"none", "rendering", "skipped", "ok", "none_delivered"}]]
  BY DEF Inv, Typed
<1>1. CASE Start(d) \/ Launch(d) \/ CallerEnds(d) \/ CollectEnd(d) \/ EscalateSkip(d) \/ Finish(d)
  <2>1. /\ UNCHANGED <<ox, blocked>>
        /\ phase[d] \in {"render", "done"} => phase'[d] \in {"render", "done"}
    BY <1>0, <1>1 DEF Start, Launch, CallerEnds, CollectEnd, EscalateSkip, Finish
  <2> QED BY <2>1 DEF Unrendered
<1>2. CASE Collect(d)
  <2>1. UNCHANGED <<ox, phase>> /\ blocked \subseteq blocked'
    BY <1>2 DEF Collect
  <2> QED BY <2>1 DEF Unrendered
<1>3. CASE EscalateCheck(d)
  <2> DEFINE e == OxEscalate[next[d]]
             v == IF e \in blocked THEN Admit(d, e, Rendering(d)) ELSE "none"
  <2>1. ox' = [ox EXCEPT ![d][e] = v] /\ blocked' = blocked /\ phase[d] = "escalate"
    BY <1>3 DEF EscalateCheck, Rendering
  <2>2. v # "none_delivered"
    BY DEF Admit
  <2> HIDE DEF e, v
  <2>3. \A g \in Engines : ox[d][g] # "none_delivered" /\ ox'[d][g] # "none_delivered"
    BY <1>0, <2>1, <2>2 DEF Unrendered
  <2> QED BY <2>1, <2>3 DEF Unrendered
<1>4. ASSUME NEW e \in Engines, RenderOK(d, e) \/ RenderNone(d, e)
      PROVE  /\ Unrendered(d)'
             /\ \A g \in Engines : ox[d][g] = "none_delivered" => ox'[d][g] = "none_delivered"
             /\ \A g \in blocked : g \in blocked' \/ (ox'[d][g] = "none_delivered" /\ phase[d] = "render")
  <2>1. phase' = phase /\ phase[d] = "render" /\ ox[d][e] = "rendering"
    BY <1>4 DEF RenderOK, RenderNone
  <2>2. CASE RenderOK(d, e)
    BY <1>0, <2>1, <2>2 DEF RenderOK, Unrendered
  <2>3. CASE RenderNone(d, e)
    BY <1>0, <2>1, <2>3 DEF RenderNone, Unrendered
  <2> QED BY <1>4, <2>2, <2>3
<1>5. ASSUME NEW e \in Engines, LegStep(d, e), ~RenderOK(d, e), ~RenderNone(d, e)
      PROVE  UNCHANGED <<ox, phase, blocked>>
  BY <1>5 DEF LegStep, InnerProceed, InnerShed, InnerWaitFails, InnerReturn, SelectDone, SelectCtx,
              Deliver, PerSourceTimeout
<1>6. ASSUME NEW e \in Engines, LegStep(d, e)
      PROVE  /\ Unrendered(d)'
             /\ \A g \in Engines : ox[d][g] = "none_delivered" => ox'[d][g] = "none_delivered"
             /\ \A g \in blocked : g \in blocked' \/ (ox'[d][g] = "none_delivered" /\ phase[d] = "render")
  BY <1>4, <1>5, <1>6 DEF Unrendered
<1> QED BY <1>1, <1>2, <1>3, <1>6 DEF CallStep

\* Only Collect gives a leg its outcome.
LEMMA OutcomeKept ==
  ASSUME Inv, NEW c \in Calls,
         \/ Launch(c) \/ CallerEnds(c)
         \/ \E e \in Engines : \/ InnerProceed(c, e) \/ InnerShed(c, e) \/ InnerWaitFails(c, e)
                               \/ InnerReturn(c, e) \/ SelectDone(c, e) \/ SelectCtx(c, e)
                               \/ PerSourceTimeout(c, e)
  PROVE  \A g \in Engines : leg'[c][g].outcome = leg[c][g].outcome
<1>0. leg \in [Calls -> [Engines -> Leg]]
  BY DEF Inv, Typed
<1>1. ASSUME NEW e \in Engines, NEW m \in Leg, m.outcome = leg[c][e].outcome,
             leg' = [leg EXCEPT ![c][e] = m]
      PROVE  \A g \in Engines : leg'[c][g].outcome = leg[c][g].outcome
  BY <1>0, <1>1
<1>2. CASE CallerEnds(c)
  BY <1>2, EndLegsFacts DEF CallerEnds, LegMove
<1>3. CASE Launch(c)
  <2> DEFINE e == Jobs[next[c]]
  <2>1. e \in Engines /\ callerCtx[c] \in {"live", "Canceled", "DeadlineExceeded"} /\ leg[c][e] \in Leg
    BY <1>0, <1>3, JobsFacts DEF Launch, Inv, CallInv, LaunchInv, Typed
  <2>2. \/ leg' = [leg EXCEPT ![c][e] = [leg[c][e] EXCEPT !.outer = "skipped"]]
        \/ leg' = [leg EXCEPT ![c][e] = [leg[c][e] EXCEPT !.outer = "select", !.inner = "waiting",
                                                         !.ctx = callerCtx[c]]]
    BY <1>3 DEF Launch
  <2> DEFINE m1 == [leg[c][e] EXCEPT !.outer = "skipped"]
             m2 == [leg[c][e] EXCEPT !.outer = "select", !.inner = "waiting", !.ctx = callerCtx[c]]
  <2> HIDE DEF e
  <2>3. m1 \in Leg /\ m2 \in Leg /\ m1.outcome = leg[c][e].outcome /\ m2.outcome = leg[c][e].outcome
    BY <2>1 DEF Leg
  <2>4. leg' = [leg EXCEPT ![c][e] = m1] \/ leg' = [leg EXCEPT ![c][e] = m2]
    BY <2>2
  <2> HIDE DEF m1, m2
  <2> QED BY <1>1, <2>1, <2>3, <2>4
<1>4. ASSUME NEW e \in Engines,
             \/ InnerProceed(c, e) \/ InnerShed(c, e) \/ InnerWaitFails(c, e) \/ InnerReturn(c, e)
             \/ SelectDone(c, e) \/ SelectCtx(c, e) \/ PerSourceTimeout(c, e)
      PROVE  \A g \in Engines : leg'[c][g].outcome = leg[c][g].outcome
  <2> SUFFICES ASSUME NEW g \in Engines PROVE leg'[c][g].outcome = leg[c][g].outcome
    OBVIOUS
  <2>1. leg[c][g] \in Leg /\ leg[c][e] \in Leg
    BY <1>0
  <2>2. CASE InnerProceed(c, e)
    BY <1>0, <2>1, <2>2 DEF InnerProceed, Leg
  <2>3. CASE InnerShed(c, e)
    BY <1>0, <2>1, <2>3 DEF InnerShed, Leg
  <2>4. CASE InnerWaitFails(c, e)
    BY <1>0, <2>1, <2>4 DEF InnerWaitFails, Leg
  <2>5. CASE InnerReturn(c, e)
    BY <1>0, <2>1, <2>5 DEF InnerReturn, Leg
  <2>6. CASE SelectDone(c, e) \/ SelectCtx(c, e)
    <3>1. leg' = [leg EXCEPT ![c][e].outer = "sent"]
      BY <2>6 DEF SelectDone, SelectCtx, Deliver
    <3> QED BY <1>0, <2>1, <3>1 DEF Leg
  <2>7. CASE PerSourceTimeout(c, e)
    BY <1>0, <2>1, <2>7 DEF PerSourceTimeout, Leg
  <2> QED BY <1>4, <2>2, <2>3, <2>4, <2>5, <2>6, <2>7
<1> QED BY <1>1, <1>2, <1>3, <1>4

\* An outcome that Marks comes with the Mark.
LEMMA CollectMarks ==
  ASSUME Inv, NEW c \in Calls, Collect(c), Promoted(c), \A g \in Engines : Healed(c, g)' <=> Healed(c, g)
  PROVE  Promoted(c)'
<1> DEFINE r == Head(ch[c])
           e == r.label
           o == Outcome(r)
           enough == o = "ok" /\ ~cancelled[c] /\ merged[c] + r.n >= EarlyReturnAt
           legs == IF enough THEN EndLegs(c, "Canceled") ELSE leg
<1>1. /\ leg \in [Calls -> [Engines -> Leg]] /\ Typed /\ phase[c] = "collect" /\ phase' = phase
      /\ ch[c] # <<>>
  BY DEF Inv, Typed, Collect
<1>2. e \in Engines
  <2>1. ch[c] \in Seq(Msg)
    BY <1>1 DEF Typed
  <2>2. r = ch[c][1] /\ 1 \in 1..Len(ch[c])
    <3> HIDE DEF Msg
    <3> QED BY <1>1, <2>1
  <2> QED BY <1>1, <2>2, Labels
<1>3. /\ legs \in [Calls -> [Engines -> Leg]]
      /\ \A g \in Engines : legs[c][g].outcome = leg[c][g].outcome
  <2>1. CASE enough
    BY <2>1, EndLegsFacts DEF LegMove
  <2>2. CASE ~enough
    <3>1. legs = leg
      BY <2>2
    <3> HIDE DEF legs, enough
    <3> QED BY <1>1, <3>1
  <2> QED BY <2>1, <2>2
<1>4. /\ leg' = [legs EXCEPT ![c][e].outcome = o]
      /\ blocked' = IF o \in Marking THEN blocked \cup {e} ELSE blocked
  BY DEF Collect
<1> HIDE DEF r, o, e, enough, legs
<1>5. \A g \in Engines : leg'[c][g].outcome = IF g = e THEN o ELSE leg[c][g].outcome
  <2> SUFFICES ASSUME NEW g \in Engines PROVE leg'[c][g].outcome = IF g = e THEN o ELSE leg[c][g].outcome
    OBVIOUS
  <2>1. legs[c][g] \in Leg /\ legs[c][e] \in Leg
    BY <1>2, <1>3
  <2> QED BY <1>2, <1>3, <1>4, <2>1 DEF Leg
<1>6. \A g \in Engines : leg'[c][g].outcome \in Marking => g \in blocked' \/ Healed(c, g)'
  BY <1>1, <1>2, <1>4, <1>5 DEF Promoted
<1> QED BY <1>1, <1>6 DEF Promoted

\* A label of the allowlist is looked up while its Mark is still there.
LEMMA EscalateMarks ==
  ASSUME Inv, NEW c \in Calls, EscalateCheck(c), Promoted(c),
         \A g \in Engines : Healed(c, g)' <=> Healed(c, g)
  PROVE  Promoted(c)'
<1> DEFINE e == OxEscalate[next[c]]
           v == IF e \in blocked THEN Admit(c, e, Rendering(c)) ELSE "none"
<1>1. /\ phase[c] = "escalate" /\ next[c] \in 1..Len(OxEscalate) /\ e \in Engines
      /\ Len(OxEscalate) \in Nat
      /\ phase \in [Calls -> {"idle", "launch", "collect", "escalate", "render", "done"}]
      /\ next \in [Calls -> Nat]
      /\ ox \in [Calls -> [Engines -> {"none", "rendering", "skipped", "ok", "none_delivered"}]]
  BY JobsFacts DEF EscalateCheck, Inv, CallInv, LaunchInv, Typed
<1>2. ox' = [ox EXCEPT ![c][e] = v] /\ leg' = leg /\ blocked' = blocked
  BY DEF EscalateCheck, Rendering
<1>3. e \in blocked => v # "none"
  BY DEF Admit
<1>4. \A i \in 1..Len(OxEscalate) : OxEscalate[i] \in Engines /\ (OxEscalate[i] = e => i = next[c])
  BY <1>1, OxAssumption, JobsFacts
<1> HIDE DEF e, v
<1>5. \A g \in Engines : ox'[c][g] = IF g = e THEN v ELSE ox[c][g]
  BY <1>1, <1>2
<1>6. \A i \in 1..next[c] : leg'[c][OxEscalate[i]].outcome \in Marking
                            => ox'[c][OxEscalate[i]] # "none" \/ Healed(c, OxEscalate[i])'
  <2> SUFFICES ASSUME NEW i \in 1..next[c], leg[c][OxEscalate[i]].outcome \in Marking
               PROVE  ox'[c][OxEscalate[i]] # "none" \/ Healed(c, OxEscalate[i])'
    BY <1>2
  <2>1. i \in 1..Len(OxEscalate)
    BY <1>1
  <2>2. CASE i = next[c]
    <3>1. e = OxEscalate[i]
      BY <2>2 DEF e
    <3>2. e \in blocked \/ Healed(c, e)
      BY <1>1, <3>1 DEF Promoted
    <3>3. OxEscalate[i] \in Engines
      BY <1>4, <2>1
    <3>4. Healed(c, OxEscalate[i])' <=> Healed(c, OxEscalate[i])
      BY <3>3
    <3> QED BY <1>1, <1>3, <1>5, <3>1, <3>2, <3>3, <3>4
  <2>3. CASE i # next[c]
    <3>1. i \in 1..(next[c] - 1) /\ OxEscalate[i] # e /\ OxEscalate[i] \in Engines
      <4>1. OxEscalate[i] # e /\ OxEscalate[i] \in Engines
        BY <1>4, <2>1, <2>3, Zenon
      <4>2. next[c] \in Nat
        BY <1>1
      <4>3. i \in 1..(next[c] - 1)
        BY <2>3, <4>2
      <4> QED BY <4>1, <4>3
    <3>2. Healed(c, OxEscalate[i])' <=> Healed(c, OxEscalate[i])
      BY <3>1
    <3> QED BY <1>1, <1>5, <3>1, <3>2 DEF Promoted
  <2> QED BY <2>2, <2>3
<1>7. CASE next[c] < Len(OxEscalate)
  <2>1. phase' = phase /\ next'[c] = next[c] + 1 /\ next'[c] - 1 = next[c]
    BY <1>1, <1>7 DEF EscalateCheck
  <2> QED BY <1>1, <1>2, <1>6, <2>1 DEF Promoted
<1>8. CASE ~(next[c] < Len(OxEscalate))
  <2>1. phase'[c] = "render" /\ next[c] = Len(OxEscalate)
    BY <1>1, <1>8 DEF EscalateCheck
  <2> QED BY <1>6, <2>1 DEF Promoted
<1> QED BY <1>7, <1>8

\* Every other step of the call moves no outcome and lifts no Mark before the
\* renders, and a render that ends has been admitted.
LEMMA PromotedStep ==
  ASSUME Inv, NEW c \in Calls, CallStep(c) \/ \E e \in Engines : LegStep(c, e), Promoted(c)
  PROVE  Promoted(c)'
<1>9. \A g \in Engines : Healed(c, g)' <=> Healed(c, g)
  <2>1. \A d \in Calls \ {c} : ox'[d] = ox[d]
    BY OthersStay
  <2> QED BY <2>1 DEF Healed
<1>0. /\ phase \in [Calls -> {"idle", "launch", "collect", "escalate", "render", "done"}]
      /\ next \in [Calls -> Nat] /\ LaunchInv(c) /\ Len(OxEscalate) \in Nat
      /\ ox \in [Calls -> [Engines -> {"none", "rendering", "skipped", "ok", "none_delivered"}]]
      /\ \A i \in 1..Len(OxEscalate) : OxEscalate[i] \in Engines
  BY JobsFacts DEF Inv, Typed, CallInv
<1>1. CASE Collect(c)
  BY <1>1, <1>9, CollectMarks
<1>2. CASE EscalateCheck(c)
  BY <1>2, <1>9, EscalateMarks
<1>3. CASE \/ CallerEnds(c)
           \/ \E e \in Engines : \/ InnerProceed(c, e) \/ InnerShed(c, e) \/ InnerWaitFails(c, e)
                                 \/ InnerReturn(c, e) \/ SelectDone(c, e) \/ SelectCtx(c, e)
                                 \/ PerSourceTimeout(c, e)
  <2>1. \A g \in Engines : leg'[c][g].outcome = leg[c][g].outcome
    BY <1>3, OutcomeKept
  <2>2. UNCHANGED <<blocked, phase, next, ox>>
    BY <1>3 DEF CallerEnds, InnerProceed, InnerShed, InnerWaitFails, InnerReturn, SelectDone, SelectCtx,
                Deliver, PerSourceTimeout
  <2>3. phase[c] = "escalate" => next[c] \in 1..Len(OxEscalate)
    BY <1>0 DEF LaunchInv
  <2>4. phase[c] = "escalate" => \A i \in 1..(next[c] - 1) : OxEscalate[i] \in Engines
    BY <1>0, <2>3
  <2> QED BY <1>0, <1>9, <2>1, <2>2, <2>4 DEF Promoted
<1>4. CASE Launch(c)
  <2>1. \A g \in Engines : leg'[c][g].outcome = leg[c][g].outcome
    BY <1>4, OutcomeKept
  <2>2. blocked' = blocked /\ phase[c] = "launch" /\ phase'[c] \in {"launch", "collect"}
    BY <1>0, <1>4 DEF Launch
  <2> QED BY <1>9, <2>1, <2>2 DEF Promoted
<1>5. CASE Start(c)
  <2>1. blocked' = blocked /\ leg' = leg /\ phase[c] = "idle" /\ phase'[c] = "launch"
    BY <1>0, <1>5 DEF Start
  <2> QED BY <1>9, <2>1 DEF Promoted
<1>6. CASE CollectEnd(c)
  <2>1. blocked' = blocked /\ leg' = leg /\ phase[c] = "collect" /\ phase'[c] = "escalate" /\ next' = next
    BY <1>0, <1>6 DEF CollectEnd
  <2>2. 1..(next'[c] - 1) = {}
    BY <1>0, <2>1 DEF LaunchInv
  <2> QED BY <1>9, <2>1, <2>2 DEF Promoted
<1>7. CASE EscalateSkip(c) \/ Finish(c)
  <2>1. phase'[c] = "done"
    BY <1>0, <1>7 DEF EscalateSkip, Finish
  <2> QED BY <2>1 DEF Promoted
<1>8. ASSUME NEW e \in Engines, RenderOK(c, e) \/ RenderNone(c, e) PROVE Promoted(c)'
  <2>1. /\ leg' = leg /\ phase' = phase /\ phase[c] = "render"
        /\ \A g \in Engines : ox'[c][g] \in {ox[c][g], "ok", "none_delivered"}
    BY <1>0, <1>8 DEF RenderOK, RenderNone
  <2> QED BY <1>0, <1>9, <2>1 DEF Promoted
<1> QED BY <1>1, <1>2, <1>3, <1>4, <1>5, <1>6, <1>7, <1>8 DEF CallStep, LegStep

\* A step of another call takes a Mark away only by healing.
LEMMA PromotedOthers ==
  ASSUME Inv, NEW d \in Calls, Unrendered(d), CallStep(d) \/ \E e \in Engines : LegStep(d, e),
         NEW c \in Calls, c # d, Promoted(c)
  PROVE  Promoted(c)'
<1>1. phase'[c] = phase[c] /\ next'[c] = next[c] /\ leg'[c] = leg[c] /\ ox'[c] = ox[c]
  BY OthersStay
<1>2. \A g \in Engines : Healed(c, g) => Healed(c, g)'
  <2> SUFFICES ASSUME NEW g \in Engines, Healed(c, g) PROVE Healed(c, g)'
    OBVIOUS
  <2>1. PICK a \in Calls \ {c} : ox[a][g] = "none_delivered"
    BY DEF Healed
  <2>2. ox'[a][g] = "none_delivered"
    <3>1. CASE a = d
      BY <2>1, <3>1, HealedKept
    <3>2. CASE a # d
      BY <2>1, <3>2, OthersStay
    <3> QED BY <3>1, <3>2
  <2> QED BY <2>2 DEF Healed
<1>3. \A g \in Engines : g \in blocked => g \in blocked' \/ Healed(c, g)'
  BY HealedKept DEF Healed
<1>4. /\ phase[c] = "escalate" => \A i \in 1..(next[c] - 1) : OxEscalate[i] \in Engines
      /\ \A i \in 1..Len(OxEscalate) : OxEscalate[i] \in Engines
  <2>1. phase[c] = "escalate" => next[c] \in 1..Len(OxEscalate)
    BY DEF Inv, CallInv, LaunchInv
  <2>2. \A i \in 1..Len(OxEscalate) : OxEscalate[i] \in Engines
    BY JobsFacts
  <2>3. Len(OxEscalate) \in Nat
    BY JobsFacts
  <2> QED BY <2>1, <2>2, <2>3
<1> QED BY <1>1, <1>2, <1>3, <1>4 DEF Promoted

\* For any number of calls, engines, allowlist and slots, on a block cache whose
\* Marks outlive the calls: the escalation of a call (runOxEscalation) overlooks
\* an engine the call has Marked only when another call's render of it delivered
\* nothing.
THEOREM OverlookedOnlyIfTried ==
    ASSUME ~TTLExpires
    PROVE  Spec => []OverlookedWasTried
<1> DEFINE P == \A c \in Calls : Promoted(c) /\ Unrendered(c)
<1>1. Init => P
  BY DEF Init, Promoted, Unrendered, LegInit, Marking
<1>2. Inv /\ P /\ [Next]_vars => P'
  <2> SUFFICES ASSUME Inv, P, [Next]_vars, NEW c \in Calls PROVE Promoted(c)' /\ Unrendered(c)'
    OBVIOUS
  <2>1. ASSUME NEW d \in Calls, CallStep(d) \/ \E e \in Engines : LegStep(d, e)
        PROVE  Promoted(c)' /\ Unrendered(c)'
    <3>1. CASE d = c
      BY <2>1, <3>1, PromotedStep, HealedKept
    <3>2. CASE d # c
      <4>1. Promoted(c)'
        BY <2>1, <3>2, PromotedOthers
      <4>2. phase'[c] = phase[c] /\ ox'[c] = ox[c]
        BY <2>1, <3>2, OthersStay
      <4> QED BY <4>1, <4>2 DEF Unrendered
    <3> QED BY <3>1, <3>2
  <2>2. CASE UNCHANGED vars
    BY <2>2 DEF vars, Promoted, Unrendered, Healed
  <2> QED BY <2>1, <2>2 DEF Next, AllDone, Expire
<1>3. Inv /\ P => OverlookedWasTried
  <2> SUFFICES ASSUME P, NEW c \in Calls, NEW e \in Engines, phase[c] = "render", ox[c][e] = "none",
                      leg[c][e].outcome \in {"captcha", "timeout", "blocked"}, Allowlisted(e)
               PROVE  Healed(c, e)
    BY DEF OverlookedWasTried, Healed
  <2>1. PICK i \in 1..Len(OxEscalate) : OxEscalate[i] = e
    BY OxAssumption DEF Allowlisted, Range
  <2> QED BY <2>1 DEF Promoted, Marking
<1> QED BY <1>1, <1>2, <1>3, SpecInv, PTL DEF Spec

-----------------------------------------------------------------------------
(* The daily query budget of runMarginalia.                                *)

\* One more process on a day is worth one more limit.
LEMMA OneMoreLimit == \A r \in Nat : Limit * (r + 1) = Limit * r + Limit /\ Limit * r \in Nat
BY LimitAssumption

\* Granting a call keeps the counter of its window exact.
LEMMA GrantInv == ASSUME NEW c \in Callers, BudgetConsistent, Grant(c) PROVE BudgetConsistent'
<1> USE LimitAssumption, BudgetBounds
<1>1. BudgetTypeOK'
  <2>1. SpentToday \in Nat /\ SpentToday < Limit
    BY DEF BudgetConsistent, BudgetTypeOK, Grant, SpentToday
  <2>2. spent' \in 0..Limit /\ gauge' \in 0..Limit
    BY <2>1 DEF Grant
  <2>3. pc' \in [Callers -> {"idle", "granted", "asked"}]
    BY DEF BudgetConsistent, BudgetTypeOK, Grant
  <2>4. granted' \in [Days -> Nat] /\ today' \in Days /\ day' \in Days
    BY DEF BudgetConsistent, BudgetTypeOK, Grant
  <2> QED BY <2>2, <2>3, <2>4 DEF BudgetConsistent, BudgetTypeOK, Grant
<1>2. restarts[today] \in Nat /\ granted[today] \in Nat /\ today \in Days
  BY DEF BudgetConsistent, BudgetTypeOK
<1>3. granted[today] <= Limit * restarts[today] + SpentToday
  <2>1. CASE today = day
    BY <2>1 DEF BudgetConsistent, Window, SpentToday
  <2>2. CASE today # day
    <3>1. granted[today] = 0
      BY <2>2, <1>2 DEF BudgetConsistent, BudgetTypeOK, Window, Days
    <3>2. Limit * restarts[today] \in Nat
      BY <1>2, OneMoreLimit
    <3> QED BY <2>2, <3>1, <3>2 DEF SpentToday
  <2> QED BY <2>1, <2>2
<1>4. granted'[today] = granted[today] + 1 /\ restarts' = restarts /\ today' = today
      /\ day' = today /\ spent' = SpentToday + 1 /\ SpentToday \in Nat /\ SpentToday < Limit
  BY <1>2 DEF BudgetConsistent, BudgetTypeOK, Grant, SpentToday
<1>5. \A d \in Days : d # today => granted'[d] = granted[d]
  BY DEF BudgetConsistent, BudgetTypeOK, Grant
<1>6. Limit * restarts[today] \in Nat /\ Limit * (restarts[today] + 1) = Limit * restarts[today] + Limit
  BY <1>2, OneMoreLimit
<1>7. Window'
  <2>1. \A d \in Days : d > today => granted'[d] = 0
    <3>1. SUFFICES ASSUME NEW d \in Days, d > today PROVE granted'[d] = 0
      OBVIOUS
    <3>2. today \in Int /\ day \in Int /\ d \in Int /\ day <= today
      BY <1>2 DEF BudgetConsistent, BudgetTypeOK, Window, Days
    <3>3. d > day /\ d # today
      BY <3>1, <3>2
    <3> QED BY <3>3, <1>5 DEF BudgetConsistent, Window
  <2>2. granted'[today] <= Limit * restarts[today] + (SpentToday + 1)
    BY <1>2, <1>3, <1>4, <1>6
  <2> QED BY <1>2, <1>4, <2>1, <2>2 DEF Window, Days
<1>8. DailySpend'
  <2>1. granted'[today] <= Limit * (restarts[today] + 1)
    BY <1>2, <1>3, <1>4, <1>6
  <2> QED BY <2>1, <1>4, <1>5 DEF BudgetConsistent, DailySpend
<1>9. GaugeNeverOverstates'
  BY <1>4 DEF Grant, GaugeNeverOverstates, SpentToday
<1> QED BY <1>1, <1>7, <1>8, <1>9 DEF BudgetConsistent

\* A call that sheds only moves the window to today.
LEMMA ShedInv == ASSUME NEW c \in Callers, BudgetConsistent, Shed(c) PROVE BudgetConsistent'
<1> USE LimitAssumption, BudgetBounds
<1>1. BudgetTypeOK'
  BY DEF BudgetConsistent, BudgetTypeOK, Shed, SpentToday
<1>2. today = day
  BY DEF BudgetConsistent, BudgetTypeOK, Shed, SpentToday
<1>3. UNCHANGED <<today, day, spent, restarts, granted>>
  BY <1>2 DEF Shed, SpentToday
<1>4. GaugeNeverOverstates'
  BY <1>1 DEF BudgetTypeOK, Shed, GaugeNeverOverstates, SpentToday
<1> QED BY <1>1, <1>3, <1>4 DEF BudgetConsistent, Window, DailySpend

\* A restart opens a fresh allowance and is counted as one.
LEMMA RestartInv == ASSUME BudgetConsistent, Restart PROVE BudgetConsistent'
<1> USE LimitAssumption, BudgetBounds
<1>1. BudgetTypeOK'
  BY DEF BudgetConsistent, BudgetTypeOK, Restart
<1>2. /\ today \in Days /\ today' = today /\ day' = today /\ spent' = 0 /\ granted' = granted
      /\ restarts[today] \in Nat /\ restarts'[today] = restarts[today] + 1
      /\ \A d \in Days : d # today => restarts'[d] = restarts[d]
  BY DEF BudgetConsistent, BudgetTypeOK, Restart
<1>3. Limit * (restarts[today] + 1) \in Nat /\ Limit * (restarts[today] + 1 + 1) = Limit * (restarts[today] + 1) + Limit
  <2>1. restarts[today] + 1 \in Nat
    BY <1>2
  <2> QED BY <2>1, OneMoreLimit
<1>4. granted[today] \in Nat /\ granted[today] <= Limit * (restarts[today] + 1)
  BY <1>2 DEF BudgetConsistent, BudgetTypeOK, DailySpend
<1>5. Window'
  <2>1. \A d \in Days : d > today => granted[d] = 0
    BY <1>2 DEF BudgetConsistent, BudgetTypeOK, Window, Days
  <2>2. granted[today] <= Limit * (restarts[today] + 1) + 0
    BY <1>3, <1>4
  <2> QED BY <1>2, <2>1, <2>2 DEF Window, Days
<1>6. DailySpend'
  <2>1. granted[today] <= Limit * (restarts[today] + 1 + 1)
    BY <1>3, <1>4
  <2> QED BY <1>2, <2>1 DEF BudgetConsistent, DailySpend
<1>7. GaugeNeverOverstates'
  BY <1>2 DEF Restart, GaugeNeverOverstates, SpentToday
<1> QED BY <1>1, <1>5, <1>6, <1>7 DEF BudgetConsistent

\* The counter of the window, the restarts and the grants stay consistent: the
\* inductive invariant behind DailySpendHolds.
THEOREM BudgetInv == BudgetSpec => []BudgetConsistent
<1>1. BudgetInit => BudgetConsistent
  <2> SUFFICES ASSUME BudgetInit PROVE BudgetConsistent
    OBVIOUS
  <2>1. BudgetTypeOK
    BY LimitAssumption, BudgetBounds DEF BudgetInit, BudgetTypeOK, Days
  <2>2. Limit * 0 = 0 /\ Limit * (0 + 1) = Limit
    BY LimitAssumption
  <2>3. Window /\ DailySpend
    BY <2>2, LimitAssumption, BudgetBounds DEF BudgetInit, Window, DailySpend, Days
  <2>4. GaugeNeverOverstates
    BY LimitAssumption DEF BudgetInit, GaugeNeverOverstates, SpentToday
  <2> QED BY <2>1, <2>3, <2>4 DEF BudgetConsistent
<1>2. BudgetConsistent /\ [BudgetNext]_budgetVars => BudgetConsistent'
  <2> SUFFICES ASSUME BudgetConsistent, [BudgetNext]_budgetVars PROVE BudgetConsistent'
    OBVIOUS
  <2>1. ASSUME NEW c \in Callers, Send(c) \/ GiveUp(c) \/ Answered(c) \/ Fallback(c)
        PROVE  BudgetConsistent'
    <3>1. UNCHANGED <<today, day, spent, gauge, restarts, granted>>
      BY <2>1 DEF Send, GiveUp, Answered, Fallback
    <3>2. BudgetTypeOK'
      BY <2>1 DEF BudgetConsistent, BudgetTypeOK, Send, GiveUp, Answered, Fallback
    <3> QED BY <3>1, <3>2 DEF BudgetConsistent, Window, DailySpend, GaugeNeverOverstates, SpentToday
  <2>2. CASE Midnight
    <3>1. BudgetTypeOK'
      BY <2>2, BudgetBounds DEF BudgetConsistent, BudgetTypeOK, Midnight, Days
    <3>2. Window'
      BY <2>2, BudgetBounds DEF BudgetConsistent, BudgetTypeOK, Window, Midnight, Days
    <3>3. DailySpend'
      BY <2>2 DEF BudgetConsistent, DailySpend, Midnight
    <3>4. GaugeNeverOverstates'
      BY <2>2, <3>2, LimitAssumption DEF BudgetConsistent, BudgetTypeOK, Window, Days, Midnight, GaugeNeverOverstates, SpentToday
    <3> QED BY <3>1, <3>2, <3>3, <3>4 DEF BudgetConsistent
  <2>3. CASE UNCHANGED budgetVars
    BY <2>3 DEF BudgetConsistent, BudgetTypeOK, Window, DailySpend, GaugeNeverOverstates, SpentToday, budgetVars
  <2> QED BY <2>1, <2>2, <2>3, GrantInv, ShedInv, RestartInv DEF BudgetNext
<1> QED BY <1>1, <1>2, PTL DEF BudgetSpec

\* MarginaliaBudget.Acquire never grants more than limit x (restarts+1) calls on
\* one UTC day, whatever the interleaving of callers, midnights and restarts.
THEOREM DailySpendHolds == BudgetSpec => []DailySpend
BY BudgetInv, PTL DEF BudgetConsistent

-----------------------------------------------------------------------------
(* DailyRequests.  It is not inductive: the requests of a grant of         *)
(* yesterday are sent today, so the ones still to be sent belong to the    *)
(* bound.                                                                  *)

Pending == {c \in Callers : pc[c] = "granted"}
Open == {c \in Callers : pc[c] # "idle"}

\* A granted caller may send two requests, one that has asked another one.
Owed == Cardinality(Pending) + Cardinality(Open)

\* The requests of today, sent or still to be sent, are covered by the grants of
\* today and by what midnight found pending; no request is sent ahead of its day.
Requests ==
    /\ \A d \in Days : d > today => sent[d] = 0
    /\ sent[today] + Owed <= 2 * (granted[today] + Cardinality(Callers))
    /\ DailyRequests

\* A caller is counted at most once in either set.
LEMMA PendingBound ==
    /\ IsFiniteSet(Pending) /\ Cardinality(Pending) \in Nat
    /\ IsFiniteSet(Open) /\ Cardinality(Open) \in Nat
    /\ Cardinality(Callers) \in Nat
    /\ Cardinality(Pending) <= Cardinality(Callers) /\ Cardinality(Open) <= Cardinality(Callers)
<1>1. Pending \subseteq Callers /\ Open \subseteq Callers
  BY DEF Pending, Open
<1>2. Cardinality(Callers) \in Nat
  BY CallersAssumption, FS_CardinalityType
<1>3. IsFiniteSet(Pending) /\ Cardinality(Pending) \in Nat /\ Cardinality(Pending) <= Cardinality(Callers)
  BY <1>1, CallersAssumption, FS_Subset, FS_CardinalityType
<1>4. IsFiniteSet(Open) /\ Cardinality(Open) \in Nat /\ Cardinality(Open) <= Cardinality(Callers)
  BY <1>1, CallersAssumption, FS_Subset, FS_CardinalityType
<1> QED BY <1>2, <1>3, <1>4

\* A grant is two more requests owed and one more grant of the day.
LEMMA GrantRequests == ASSUME NEW c \in Callers, BudgetTypeOK, Requests, Grant(c) PROVE Requests'
<1>1. Pending' = Pending \cup {c} /\ c \notin Pending /\ Open' = Open \cup {c} /\ c \notin Open
  BY DEF BudgetTypeOK, Grant, Pending, Open
<1>2. Cardinality(Pending') = Cardinality(Pending) + 1 /\ Cardinality(Open') = Cardinality(Open) + 1
  BY <1>1, PendingBound, FS_AddElement
<1>3. /\ today' = today /\ sent' = sent /\ today \in Days
      /\ granted[today] \in Nat /\ sent[today] \in Nat /\ granted'[today] = granted[today] + 1
  BY DEF BudgetTypeOK, Grant
<1>4. \A d \in Days : sent[d] \in Nat /\ granted[d] \in Nat /\ granted'[d] \in Nat /\ granted'[d] >= granted[d]
  BY DEF BudgetTypeOK, Grant
<1>5. DailyRequests'
  BY <1>3, <1>4, PendingBound DEF Requests, DailyRequests
<1> QED BY <1>2, <1>3, <1>5, PendingBound DEF Requests, Owed

\* A request that leaves was owed; an answer or a grant given up owes no more.
LEMMA SendRequests ==
    ASSUME NEW c \in Callers, BudgetTypeOK, Requests,
           Send(c) \/ GiveUp(c) \/ Answered(c) \/ Fallback(c)
    PROVE  Requests'
<1>1. Cardinality(Pending') \in Nat /\ Cardinality(Open') \in Nat
  <2>1. Pending' \subseteq Pending /\ Open' \subseteq Open
    BY DEF BudgetTypeOK, Send, GiveUp, Answered, Fallback, Pending, Open
  <2> QED BY <2>1, PendingBound, FS_Subset, FS_CardinalityType
<1>2. sent'[today] + Owed' <= sent[today] + Owed
  <2>0. sent[today] \in Nat /\ today \in Days
    BY DEF BudgetTypeOK
  <2>1. CASE Send(c)
    <3>1. Pending' = Pending \ {c} /\ c \in Pending /\ Open' = Open
      BY <2>1 DEF BudgetTypeOK, Send, Pending, Open
    <3>2. Cardinality(Pending') = Cardinality(Pending) - 1
      BY <3>1, PendingBound, FS_RemoveElement
    <3>3. sent'[today] = sent[today] + 1
      BY <2>1 DEF BudgetTypeOK, Send
    <3> QED BY <2>0, <3>1, <3>2, <3>3, PendingBound DEF Owed
  <2>2. CASE Answered(c) \/ Fallback(c)
    <3>1. Open' = Open \ {c} /\ c \in Open /\ Pending' = Pending
      BY <2>2 DEF BudgetTypeOK, Answered, Fallback, Pending, Open
    <3>2. Cardinality(Open') = Cardinality(Open) - 1
      BY <3>1, PendingBound, FS_RemoveElement
    <3>3. sent'[today] \in {sent[today], sent[today] + 1}
      BY <2>2 DEF BudgetTypeOK, Answered, Fallback
    <3> QED BY <2>0, <3>1, <3>2, <3>3, PendingBound DEF Owed
  <2>3. CASE GiveUp(c)
    <3>1. Pending' = Pending \ {c} /\ c \in Pending /\ Open' = Open \ {c} /\ c \in Open
      BY <2>3 DEF BudgetTypeOK, GiveUp, Pending, Open
    <3>2. Cardinality(Pending') = Cardinality(Pending) - 1 /\ Cardinality(Open') = Cardinality(Open) - 1
      BY <3>1, PendingBound, FS_RemoveElement
    <3>3. sent'[today] = sent[today]
      BY <2>3 DEF GiveUp
    <3> QED BY <2>0, <3>1, <3>2, <3>3, PendingBound DEF Owed
  <2> QED BY <2>1, <2>2, <2>3
<1>3. /\ today' = today /\ granted' = granted /\ today \in Days
      /\ granted[today] \in Nat /\ sent[today] \in Nat /\ sent'[today] \in Nat
      /\ \A d \in Days : d # today => sent'[d] = sent[d]
  BY DEF BudgetTypeOK, Send, GiveUp, Answered, Fallback
<1>4. Owed \in Nat /\ Owed' \in Nat
  BY <1>1, PendingBound DEF Owed
<1>5. sent'[today] + Owed' <= 2 * (granted[today] + Cardinality(Callers))
  BY <1>2, <1>3, <1>4, PendingBound DEF Requests
<1>6. DailyRequests'
  <2>1. sent'[today] <= 2 * (granted[today] + Cardinality(Callers))
    BY <1>3, <1>4, <1>5, PendingBound
  <2> QED BY <1>3, <2>1 DEF Requests, DailyRequests
<1>7. \A d \in Days : d > today' => sent'[d] = 0
  BY <1>3 DEF Requests, Days
<1> QED BY <1>3, <1>5, <1>6, <1>7 DEF Requests

\* Midnight carries over at most two requests per caller.
LEMMA MidnightRequests == ASSUME BudgetTypeOK, Requests, Midnight PROVE Requests'
<1>1. /\ today \in Nat /\ today' = today + 1 /\ today' \in Days
      /\ sent' = sent /\ granted' = granted /\ Owed' = Owed
  BY BudgetBounds DEF BudgetTypeOK, Midnight, Days, Pending, Open, Owed
<1>2. sent[today'] = 0 /\ granted[today'] \in Nat
  BY <1>1 DEF BudgetTypeOK, Requests
<1>3. \A d \in Days : d > today' => sent'[d] = 0
  BY <1>1 DEF Requests, Days
<1>4. Owed \in Nat /\ Owed <= 2 * Cardinality(Callers)
  BY PendingBound DEF Owed
<1> QED BY <1>1, <1>2, <1>3, <1>4, PendingBound DEF Requests, DailyRequests

\* A restart drops what was owed; a shed call changes none of it.
LEMMA RestartRequests ==
    ASSUME BudgetTypeOK, Requests, Restart \/ (\E c \in Callers : Shed(c)) \/ UNCHANGED budgetVars
    PROVE  Requests'
<1>1. UNCHANGED <<today, sent, granted>>
  BY DEF Restart, Shed, budgetVars
<1>2. Owed' <= Owed /\ Owed' \in Nat /\ Owed \in Nat
  <2>1. Pending' \subseteq Pending /\ Open' \subseteq Open
    BY DEF Restart, Shed, budgetVars, Pending, Open
  <2>2. Cardinality(Pending') \in Nat /\ Cardinality(Pending') <= Cardinality(Pending)
    BY <2>1, PendingBound, FS_Subset, FS_CardinalityType
  <2>3. Cardinality(Open') \in Nat /\ Cardinality(Open') <= Cardinality(Open)
    BY <2>1, PendingBound, FS_Subset, FS_CardinalityType
  <2> QED BY <2>2, <2>3, PendingBound DEF Owed
<1>3. sent[today] \in Nat /\ granted[today] \in Nat
  BY DEF BudgetTypeOK
<1> QED BY <1>1, <1>2, <1>3, PendingBound DEF Requests, DailyRequests

\* On no day do more requests leave for Marginalia than two for each grant of
\* Acquire on that day and two for each caller whose requests midnight overtook:
\* dualBrowser repeats a request at most once under its grant.
THEOREM DailyRequestsHolds == BudgetSpec => []DailyRequests
<1>1. BudgetInit => Requests
  <2> SUFFICES ASSUME BudgetInit PROVE Requests
    OBVIOUS
  <2>1. Pending = {} /\ Open = {} /\ today \in Days
    BY BudgetBounds DEF BudgetInit, Pending, Open, Days
  <2>2. Owed = 0
    BY <2>1, FS_EmptySet DEF Owed
  <2> QED BY <2>1, <2>2, PendingBound DEF BudgetInit, Requests, DailyRequests
<1>2. BudgetTypeOK /\ Requests /\ [BudgetNext]_budgetVars => Requests'
  BY GrantRequests, SendRequests, MidnightRequests, RestartRequests DEF BudgetNext
<1>3. BudgetConsistent => BudgetTypeOK
  BY DEF BudgetConsistent
<1>4. Requests => DailyRequests
  BY DEF Requests
<1> QED BY <1>1, <1>2, <1>3, <1>4, BudgetInv, PTL DEF BudgetSpec
=============================================================================
