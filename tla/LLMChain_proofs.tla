-------------------------- MODULE LLMChain_proofs --------------------------
(***************************************************************************)
(* Proofs about LLMChain for any number of calls, any chain of endpoints   *)
(* and any durations.                                                      *)
(***************************************************************************)
EXTENDS LLMChain, TLAPS

Endpoint == [url : STRING, key : STRING, model : ModelID]

Label == {"idle", "scan", "scanLock", "loop", "loopLock", "start", "inflight",
          "lastResort", "classify", "key", "done"}
Value == Errors \cup {"none", "nil", "resp"}

\* What the proofs need to know about the cooldown's state.
CoolType ==
    /\ now \in Nat \ {0}
    /\ client.dflt \in Nat \ {0} /\ eps \in Seq(Endpoint)
    /\ until \in [ModelID -> Nat] /\ fails \in [ModelID -> Nat]
    /\ entries \in [ModelID -> Nat] /\ recoveries \in [ModelID -> Nat]

\* An attempt inside a window: its position, its model and the window.
Hops == Nat \X ModelID \X Nat

\* Where a call is, and which endpoint it is at.
CallType ==
    /\ pc \in [Calls -> Label] /\ pos \in [Calls -> Nat \ {0}]
    /\ skip \in [Calls -> BOOLEAN] /\ attempted \in [Calls -> BOOLEAN]
    /\ lastErr \in [Calls -> Value] /\ ret \in [Calls -> Value]
    /\ attemptedAt \in [Calls -> SUBSET Nat] /\ skippedAt \in [Calls -> SUBSET Nat]
    /\ cooledAt \in [Calls -> SUBSET Hops]
    /\ \A c \in Calls :
          /\ pc[c] \in {"scan", "scanLock", "loopLock", "start", "inflight", "classify", "lastResort"}
             => pos[c] \in 1..Len(eps)
          /\ pc[c] = "loop" => Len(eps) > 0
          /\ pc[c] \in {"loopLock", "start"} => skip[c]

\* The attempted flag, lastErr and the history agree.
AttemptInv(c) ==
    /\ pc[c] \in {"idle", "scan", "scanLock", "key"} => ~attempted[c]
    /\ pc[c] \in {"loop", "loopLock", "start"} /\ attempted[c] => lastErr[c] # "nil"
    /\ pc[c] = "classify" => lastErr[c] # "nil"
    /\ pc[c] = "loop" /\ ~skip[c] /\ attempted[c] => pos[c] > 1
    /\ ~attempted[c] => attemptedAt[c] = {} /\ cooledAt[c] = {}

CoolInv == CooledHasFailed /\ WindowBounded /\ EventsPaired
CallInv == NeverNilNil /\ \A c \in Calls : AttemptInv(c)
TypeInv == CoolType /\ CallType
Inv == TypeInv /\ CoolInv /\ CallInv

LEMMA InitInv == Init => Inv
<1> SUFFICES ASSUME Init PROVE Inv
  OBVIOUS
<1>1. PICK cfg \in Configs, live \in Lives :
          client = [disabled |-> Disabled(cfg), endpoints |-> Endpoints(cfg, live),
                    keys |-> Keys(cfg),
                    dflt |-> resolveCooldownDuration(cfg.cooldownDuration,
                                                     EnvSeconds, BuiltinDefault)]
  BY DEF Init
<1>2. client.dflt \in Nat \ {0}
  BY <1>1, ConfigAssumption, CooldownAssumption DEF resolveCooldownDuration
<1>3. eps \in Seq(Endpoint)
  BY <1>1, ConfigAssumption DEF eps, Endpoint
<1>4. CoolType
  BY <1>2, <1>3 DEF Init, CoolType
<1>5. CallType
  <2>1. /\ attemptedAt \in [Calls -> SUBSET Nat] /\ skippedAt \in [Calls -> SUBSET Nat]
        /\ cooledAt \in [Calls -> SUBSET Hops]
    BY DEF Init
  <2>2. pc \in [Calls -> Label] /\ lastErr \in [Calls -> Value] /\ ret \in [Calls -> Value]
    BY DEF Init, Label, Value
  <2>3. /\ pos \in [Calls -> Nat \ {0}] /\ skip \in [Calls -> BOOLEAN]
        /\ attempted \in [Calls -> BOOLEAN]
    BY DEF Init
  <2>4. \A c \in Calls : pc[c] = "idle"
    BY DEF Init
  <2> QED
    BY <2>1, <2>2, <2>3, <2>4 DEF CallType
<1>6. CoolInv
  BY CooldownAssumption DEF Init, CoolInv, CooledHasFailed, WindowBounded, EventsPaired
<1>7. CallInv
  BY DEF Init, CallInv, NeverNilNil, AttemptInv
<1> QED
  BY <1>4, <1>5, <1>6, <1>7 DEF Inv, TypeInv

-----------------------------------------------------------------------------
\* The cooldown's half of the invariant.

\* A sweep or a success takes both entries of m away and says so.
LEMMA ClearCool ==
    ASSUME CoolType, CoolInv, NEW m \in ModelID, Clear(m),
           UNCHANGED <<client, now>>
    PROVE  CoolType' /\ CoolInv'
BY CooldownAssumption
   DEF CoolType, CoolInv, CooledHasFailed, WindowBounded, EventsPaired, Clear, eps

\* A step that leaves the two maps and the clock alone.
LEMMA SameCool ==
    ASSUME CoolType, CoolInv, UNCHANGED <<client, now, cool>>
    PROVE  CoolType' /\ CoolInv'
BY DEF CoolType, CoolInv, CooledHasFailed, WindowBounded, EventsPaired, cool, eps

\* A quota failure opens or prolongs a window of at most CooldownMax.
LEMMA FailureCool ==
    ASSUME CoolType, CoolInv, NEW m \in ModelID, NEW ra \in RetryAfters,
           recordFailure(m, ra), UNCHANGED <<client, now>>
    PROVE  CoolType' /\ CoolInv'
<1>1. Window(ra) \in Nat /\ Window(ra) <= CooldownMax
  BY CooldownAssumption DEF Window, LeastOf, CoolType
<1> DEFINE w == Window(ra)
<1>2. w \in Nat /\ w <= CooldownMax
  BY <1>1
<1>3. /\ fails' = [fails EXCEPT ![m] = @ + 1]
      /\ until' = [until EXCEPT ![m] = IF fails[m] + 1 >= FailThreshold THEN now + w ELSE @]
      /\ entries' = [entries EXCEPT ![m] = IF fails[m] + 1 >= FailThreshold /\ until[m] <= now
                                           THEN @ + 1 ELSE @]
      /\ recoveries' = recoveries
  BY DEF recordFailure, Failed
<1> HIDE DEF w
<1>4. CoolType'
  BY <1>2, <1>3, CooldownAssumption DEF CoolType, eps
<1>5. CooledHasFailed'
  BY <1>2, <1>3, CooldownAssumption DEF CoolType, CoolInv, CooledHasFailed
<1>6. WindowBounded'
  BY <1>2, <1>3, CooldownAssumption DEF CoolType, CoolInv, WindowBounded
<1>7. EventsPaired'
  <2> DEFINE Paired(u, e, q) == /\ q + (IF u > 0 THEN 1 ELSE 0) <= e
                                /\ u = 0 /\ e > 0 => q > 0
  <2> SUFFICES ASSUME NEW n \in ModelID PROVE Paired(until'[n], entries'[n], recoveries'[n])
    BY DEF EventsPaired
  <2>0. /\ Paired(until[n], entries[n], recoveries[n]) /\ until[n] \in Nat
        /\ entries[n] \in Nat /\ recoveries[n] \in Nat /\ now \in Nat \ {0}
    BY DEF CoolType, CoolInv, EventsPaired
  <2>1. CASE n # m
    <3>1. until'[n] = until[n] /\ entries'[n] = entries[n] /\ recoveries'[n] = recoveries[n]
      BY <2>1, <1>3 DEF CoolType
    <3> QED BY <2>0, <3>1
  <2>2. CASE n = m /\ ~(fails[m] + 1 >= FailThreshold)
    <3>1. until'[n] = until[n] /\ entries'[n] = entries[n] /\ recoveries'[n] = recoveries[n]
      BY <2>2, <1>3 DEF CoolType
    <3> QED BY <2>0, <3>1
  <2>3. CASE n = m /\ fails[m] + 1 >= FailThreshold
    <3>1. until'[n] = now + w /\ recoveries'[n] = recoveries[n]
          /\ entries'[n] = IF until[n] <= now THEN entries[n] + 1 ELSE entries[n]
      BY <2>3, <1>3 DEF CoolType
    <3> QED BY <2>0, <1>2, <3>1
  <2> QED
    BY <2>1, <2>2, <2>3
<1> QED
  BY <1>4, <1>5, <1>6, <1>7 DEF CoolInv

\* The end of an attempt.
LEMMA OutcomeCool ==
    ASSUME CoolType, CoolInv, NEW c \in Calls, NEW m \in ModelID, NEW o,
           Outcome(c, m, o), UNCHANGED <<client, now>>
    PROVE  CoolType' /\ CoolInv'
<1>1. CASE recordSuccess(m)
  BY <1>1, ClearCool DEF recordSuccess
<1>2. CASE \E ra \in RetryAfters : recordFailure(m, ra)
  BY <1>2, FailureCool
<1>3. CASE UNCHANGED cool
  BY <1>3, SameCool
<1> QED
  BY <1>1, <1>2, <1>3 DEF Outcome

\* The endpoint a call is at has a model of the chain.
LEMMA AskedType ==
    ASSUME TypeInv, NEW c \in Calls, pos[c] \in 1..Len(eps)
    PROVE  Asked(c) \in ModelID
<1>1. eps[pos[c]] \in Endpoint
  BY DEF TypeInv, CoolType
<1> QED
  BY <1>1 DEF Asked, Endpoint

LEMMA CoolStep == ASSUME Inv, [Next]_vars PROVE CoolType' /\ CoolInv'
<1> USE DEF Inv, TypeInv
<1>1. CASE UNCHANGED vars
  BY <1>1, SameCool DEF vars
<1>2. CASE Tick
  BY <1>2, CooldownAssumption
     DEF Tick, CoolType, CoolInv, CooledHasFailed, WindowBounded, EventsPaired, cool, eps
<1>3. ASSUME NEW c \in Calls, Step(c) \/ Cancel(c) PROVE CoolType' /\ CoolInv'
  <2>1. CASE Cancel(c) \/ Complete(c) \/ CoolingRead(c) \/ Probe(c) \/ Begin(c) \/ Exhausted(c) \/ Classify(c)
    BY <2>1, SameCool DEF Cancel, Complete, CoolingRead, Probe, Begin, Exhausted, Classify
  <2>2. CASE CoolingLock(c)
    <3>1. Asked(c) \in ModelID
      BY <2>2, AskedType DEF CoolingLock, CallType
    <3>2. CASE UNCHANGED cool
      BY <2>2, <3>2, SameCool DEF CoolingLock
    <3>3. CASE Clear(Asked(c))
      BY <2>2, <3>1, <3>3, ClearCool DEF CoolingLock
    <3> QED
      BY <2>2, <3>2, <3>3 DEF CoolingLock
  <2>3. ASSUME NEW o \in Outcomes, AttemptEnds(c, o) \/ LastResortEnds(c, o) \/ KeyEnds(c, o)
        PROVE  CoolType' /\ CoolInv'
    <3>1. CASE KeyEnds(c, o)
      BY <3>1, SameCool DEF KeyEnds
    <3>2. CASE AttemptEnds(c, o) \/ LastResortEnds(c, o)
      <4>1. Asked(c) \in ModelID
        BY <3>2, AskedType DEF AttemptEnds, LastResortEnds, CallType
      <4> QED
        BY <3>2, <4>1, OutcomeCool DEF AttemptEnds, LastResortEnds
    <3> QED
      BY <2>3, <3>1, <3>2
  <2> QED
    BY <1>3, <2>1, <2>2, <2>3 DEF Step
<1> QED
  BY <1>1, <1>2, <1>3 DEF Next

-----------------------------------------------------------------------------
\* The calls' half of the invariant.

\* What one call's own facts look like, so that they can be moved across steps.
Local(c) ==
    /\ pc[c] \in {"scan", "scanLock", "loopLock", "start", "inflight", "classify", "lastResort"}
       => pos[c] \in 1..Len(eps)
    /\ pc[c] = "loop" => Len(eps) > 0
    /\ pc[c] \in {"loopLock", "start"} => skip[c]
    /\ ret[c] # "nil"
    /\ AttemptInv(c)

Types ==
    /\ pc \in [Calls -> Label] /\ pos \in [Calls -> Nat \ {0}]
    /\ skip \in [Calls -> BOOLEAN] /\ attempted \in [Calls -> BOOLEAN]
    /\ lastErr \in [Calls -> Value] /\ ret \in [Calls -> Value]
    /\ attemptedAt \in [Calls -> SUBSET Nat] /\ skippedAt \in [Calls -> SUBSET Nat]
    /\ cooledAt \in [Calls -> SUBSET Hops]

LEMMA LocalInv == (CallType /\ CallInv) <=> (Types /\ \A c \in Calls : Local(c))
BY DEF CallType, CallInv, Types, Local, NeverNilNil

\* A step of c leaves every other call where it is.
LEMMA OthersLocal ==
    ASSUME Types, NEW c \in Calls, NEW d \in Calls, c # d, Local(d), UNCHANGED client,
           pc'[d] = pc[d], pos'[d] = pos[d], skip'[d] = skip[d], attempted'[d] = attempted[d],
           lastErr'[d] = lastErr[d], ret'[d] = ret[d], attemptedAt'[d] = attemptedAt[d],
           cooledAt'[d] = cooledAt[d]
    PROVE  Local(d)'
BY DEF Local, AttemptInv, eps

CallsInv == Types /\ \A c \in Calls : Local(c)

LEMMA SameCalls ==
    ASSUME CallsInv, UNCHANGED <<client, local, tried>>
    PROVE  CallsInv'
BY DEF CallsInv, Types, Local, AttemptInv, local, eps, tried

LEMMA ReturnCalls ==
    ASSUME CallsInv, NEW c \in Calls, NEW r \in Value, r # "nil",
           Return(c, r), UNCHANGED <<client, lastErr, tried>>
    PROVE  CallsInv'
<1>1. Types'
  BY DEF CallsInv, Types, Return, tried, Label
<1>2. Local(c)'
  <2>1. pc'[c] = "done" /\ ret'[c] = r /\ attempted'[c] = attempted[c]
        /\ attemptedAt'[c] = attemptedAt[c] /\ cooledAt'[c] = cooledAt[c]
    BY DEF CallsInv, Types, Return, tried
  <2>2. AttemptInv(c)'
    BY <2>1 DEF CallsInv, Local, AttemptInv
  <2> QED
    BY <2>1, <2>2 DEF Local
<1>3. \A d \in Calls \ {c} : Local(d)'
  BY OthersLocal DEF CallsInv, Types, Return, tried
<1> QED
  BY <1>1, <1>2, <1>3 DEF CallsInv

\* Going on to label l at position i, when the facts of l hold there.
LEMMA GotoCalls ==
    ASSUME CallsInv, NEW c \in Calls, NEW l \in Label, NEW i \in Nat \ {0},
           Goto(c, l, i), UNCHANGED <<client, attempted, tried>>,
           lastErr' = lastErr \/ \E o \in Value : lastErr' = [lastErr EXCEPT ![c] = o],
           skip' = skip \/ \E b \in BOOLEAN : skip' = [skip EXCEPT ![c] = b],
           Local(c)'
    PROVE  CallsInv'
<1>1. Types'
  BY DEF CallsInv, Types, Goto, tried
<1>3. \A d \in Calls \ {c} : Local(d)'
  BY OthersLocal DEF CallsInv, Types, Goto, tried
<1> QED
  BY <1>1, <1>3 DEF CallsInv

\* What Hop records.
LEMMA HopType ==
    ASSUME CoolType, NEW i \in 1..Len(eps)
    PROVE  /\ Hop(i) \subseteq {<<i, eps[i].model, entries[eps[i].model]>>}
           /\ Hop(i) # {} => until[eps[i].model] > now
           /\ Hop(i) \subseteq Hops /\ eps[i].model \in ModelID
<1>1. eps[i] \in Endpoint /\ i \in Nat
  BY DEF CoolType
<1>2. eps[i].model \in ModelID
  BY <1>1 DEF Endpoint
<1>3. entries[eps[i].model] \in Nat
  BY <1>2 DEF CoolType
<1>4. <<i, eps[i].model, entries[eps[i].model]>> \in Hops
  BY <1>1, <1>2, <1>3 DEF Hops
<1>5. Hop(i) \subseteq {<<i, eps[i].model, entries[eps[i].model]>>}
  BY DEF Hop
<1>6. Hop(i) # {} => until[eps[i].model] > now
  BY DEF Hop
<1> QED BY <1>2, <1>4, <1>5, <1>6

\* An attempt begins at endpoint p.
LEMMA AttemptCalls ==
    ASSUME CallsInv, CoolType, NEW c \in Calls, NEW l \in {"inflight", "lastResort"},
           NEW p \in 1..Len(eps), Attempt(c, p, l), UNCHANGED <<client, lastErr>>
    PROVE  CallsInv'
<1> DEFINE cld == Hop(p)
<1>1. /\ pc' = [pc EXCEPT ![c] = l] /\ pos' = [pos EXCEPT ![c] = p]
      /\ attempted' = [attempted EXCEPT ![c] = TRUE]
      /\ attemptedAt' = [attemptedAt EXCEPT ![c] = @ \cup {p}]
      /\ cooledAt' = [cooledAt EXCEPT ![c] = @ \cup cld]
      /\ skip' = skip /\ ret' = ret /\ skippedAt' = skippedAt
  BY DEF Attempt
<1>2. cld \subseteq Hops /\ p \in Nat \ {0}
  BY HopType
<1> HIDE DEF cld
<1>3. Types'
  <2>1. cooledAt' \in [Calls -> SUBSET Hops]
    BY <1>1, <1>2 DEF CallsInv, Types
  <2> QED BY <1>1, <1>2, <2>1 DEF CallsInv, Types, Label
<1>4. Local(c)'
  <2>1. /\ pc'[c] = l /\ pos'[c] = p /\ attempted'[c] = TRUE /\ skip'[c] = skip[c]
        /\ ret'[c] = ret[c]
    BY <1>1 DEF CallsInv, Types
  <2>2. AttemptInv(c)'
    BY <2>1 DEF AttemptInv
  <2> QED
    BY <2>1, <2>2 DEF Local, CallsInv, eps
<1>5. \A d \in Calls \ {c} : Local(d)'
  BY <1>1, OthersLocal DEF CallsInv, Types
<1> QED
  BY <1>3, <1>4, <1>5 DEF CallsInv

\* The answer of cooling() is used.
LEMMA SeesCalls ==
    ASSUME CallsInv, CoolType, NEW c \in Calls, NEW b \in BOOLEAN,
           pc[c] = "scan" \/ pc[c] = "scanLock" \/ pc[c] = "loopLock"
           \/ (InLoop(c) /\ skip[c]),
           Sees(c, b), UNCHANGED <<client, lastErr>>
    PROVE  CallsInv'
<1>1. pos[c] \in 1..Len(eps) /\ Len(eps) \in Nat
  <2>1. Len(eps) \in Nat
    BY DEF CoolType
  <2>2. CASE InLoop(c) /\ skip[c]
    BY <2>1, <2>2 DEF InLoop, Candidates, CallsInv, Types
  <2> QED
    BY <2>1, <2>2 DEF CallsInv, Local
<1>2. CASE ScanSees(c, b) /\ pc[c] \in {"scan", "scanLock"}
  <2>1. ~attempted[c] /\ cooledAt[c] = {}
    BY <1>2 DEF CallsInv, Local, AttemptInv
  <2>2. UNCHANGED <<attempted, tried>>
    BY <1>2 DEF ScanSees
  <2>3. skip' = skip \/ \E x \in BOOLEAN : skip' = [skip EXCEPT ![c] = x]
    BY <1>2 DEF ScanSees
  <2>4. CASE Goto(c, "loop", 1)
    <3>1. pc'[c] = "loop" /\ pos'[c] = 1 /\ ret'[c] = ret[c]
      BY <2>4 DEF Goto, CallsInv, Types
    <3>2. Local(c)'
      BY <1>1, <2>1, <2>2, <3>1 DEF CallsInv, Local, AttemptInv, eps, tried
    <3> QED
      BY <2>2, <2>3, <2>4, <3>2, GotoCalls DEF Label
  <2>5. CASE pos[c] < Len(eps) /\ Goto(c, "scan", pos[c] + 1)
    <3>1. pc'[c] = "scan" /\ pos'[c] = pos[c] + 1 /\ ret'[c] = ret[c]
      BY <2>5 DEF Goto, CallsInv, Types
    <3>2. Local(c)'
      BY <1>1, <2>1, <2>2, <2>5, <3>1 DEF CallsInv, Local, AttemptInv, eps, tried
    <3>3. pos[c] + 1 \in Nat \ {0}
      BY <1>1
    <3> QED
      BY <2>2, <2>3, <2>5, <3>2, <3>3, GotoCalls DEF Label
  <2> QED
    BY <1>2, <2>4, <2>5 DEF ScanSees
<1>3. CASE LoopSees(c, b) /\ pc[c] \in {"loop", "loopLock"}
  <2>1. skip[c]
    BY <1>3 DEF CallsInv, Local
  <2>2. CASE b
    <3>1. /\ Goto(c, "loop", pos[c] + 1) /\ UNCHANGED <<skip, attempted>>
          /\ skippedAt' = [skippedAt EXCEPT ![c] = @ \cup {pos[c]}]
          /\ UNCHANGED <<attemptedAt, cooledAt>>
      BY <1>3, <2>2 DEF LoopSees
    <3>2. /\ pc'[c] = "loop" /\ pos'[c] = pos[c] + 1 /\ ret'[c] = ret[c]
          /\ cooledAt'[c] = cooledAt[c] /\ attemptedAt'[c] = attemptedAt[c]
      BY <3>1 DEF Goto, CallsInv, Types
    <3>3. Types'
      BY <1>1, <3>1 DEF Goto, CallsInv, Types, Label
    <3>4. Local(c)'
      BY <1>1, <1>3, <2>1, <3>1, <3>2 DEF CallsInv, Local, AttemptInv, eps
    <3>5. \A d \in Calls \ {c} : Local(d)'
      BY <3>1, OthersLocal DEF CallsInv, Types, Goto, tried
    <3> QED
      BY <3>3, <3>4, <3>5 DEF CallsInv
  <2>3. CASE ~b
    <3>1. Goto(c, "start", pos[c]) /\ UNCHANGED <<skip, attempted, tried>>
      BY <1>3, <2>3 DEF LoopSees
    <3>2. pc'[c] = "start" /\ pos'[c] = pos[c] /\ ret'[c] = ret[c]
      BY <3>1 DEF Goto, CallsInv, Types
    <3>3. Local(c)'
      BY <1>1, <1>3, <2>1, <3>1, <3>2 DEF CallsInv, Local, AttemptInv, eps, tried
    <3> QED
      BY <1>1, <3>1, <3>3, GotoCalls DEF Label
  <2> QED
    BY <2>2, <2>3
<1> QED
  BY <1>2, <1>3 DEF Sees

LEMMA CallsStep == ASSUME Inv, [Next]_vars PROVE CallsInv'
<1>1. CallsInv /\ CoolType
  BY LocalInv DEF Inv, TypeInv, CallsInv
<1>2. CASE UNCHANGED vars \/ Tick
  BY <1>1, <1>2, SameCalls DEF vars, Tick
<1>3. ASSUME NEW c \in Calls, Step(c) \/ Cancel(c) PROVE CallsInv'
  <2>0. Len(eps) \in Nat /\ pos[c] \in Nat \ {0}
    BY <1>1 DEF CoolType, CallsInv, Types
  <2>1. CASE Cancel(c)
    BY <1>1, <2>1, SameCalls DEF Cancel
  <2>2. CASE Complete(c)
    <3>1. CASE Return(c, "unavailable") \/ Return(c, "noKey")
      BY <1>1, <2>2, <3>1, ReturnCalls DEF Complete, Value, Errors
    <3>2. CASE Goto(c, "scan", 1) /\ eps # <<>> /\ UNCHANGED <<skip, attempted>>
      <4>1. pc'[c] = "scan" /\ pos'[c] = 1 /\ ret'[c] = ret[c]
        BY <1>1, <3>2 DEF Goto, CallsInv, Types
      <4>2. Len(eps) > 0
        BY <1>1, <3>2 DEF CoolType
      <4>3. UNCHANGED <<client, lastErr, tried>>
        BY <2>2 DEF Complete
      <4>4. Local(c)'
        <5>1. ~attempted[c] /\ cooledAt[c] = {} /\ attemptedAt[c] = {}
          BY <1>1, <2>2 DEF Complete, CallsInv, Local, AttemptInv
        <5>2. eps' = eps /\ 1 \in 1..Len(eps)
          BY <2>0, <4>2, <4>3 DEF eps
        <5>3. /\ attempted'[c] = attempted[c] /\ cooledAt'[c] = cooledAt[c]
              /\ attemptedAt'[c] = attemptedAt[c]
          BY <3>2, <4>3 DEF tried
        <5> QED
          BY <1>1, <4>1, <5>1, <5>2, <5>3 DEF CallsInv, Local, AttemptInv
      <4> QED
        BY <1>1, <3>2, <4>3, <4>4, GotoCalls DEF Label
    <3>3. CASE Goto(c, "key", 1) /\ UNCHANGED <<skip, attempted>>
      <4>1. pc'[c] = "key" /\ pos'[c] = 1 /\ ret'[c] = ret[c]
        BY <1>1, <3>3 DEF Goto, CallsInv, Types
      <4>3. UNCHANGED <<client, lastErr, tried>>
        BY <2>2 DEF Complete
      <4>4. Local(c)'
        BY <1>1, <2>2, <3>3, <4>1, <4>3
           DEF Complete, CallsInv, Local, AttemptInv, eps, tried
      <4> QED
        BY <1>1, <3>3, <4>3, <4>4, GotoCalls DEF Label
    <3> QED
      BY <2>2, <3>1, <3>2, <3>3 DEF Complete
  <2>3. CASE CoolingRead(c)
    <3>1. CASE Sees(c, FALSE)
      BY <1>1, <2>3, <3>1, SeesCalls DEF CoolingRead
    <3>2. CASE Sees(c, TRUE)
      BY <1>1, <2>3, <3>2, SeesCalls DEF CoolingRead
    <3>3. CASE /\ Goto(c, IF pc[c] = "scan" THEN "scanLock" ELSE "loopLock", pos[c])
               /\ UNCHANGED <<skip, attempted, tried>>
      <4> DEFINE l == IF pc[c] = "scan" THEN "scanLock" ELSE "loopLock"
      <4>1. pc'[c] = l /\ pos'[c] = pos[c] /\ ret'[c] = ret[c]
        BY <1>1, <3>3 DEF Goto, CallsInv, Types
      <4>2. pos[c] \in 1..Len(eps)
        BY <1>1, <2>0, <2>3 DEF CoolingRead, InLoop, Candidates, CallsInv, Local
      <4>3. UNCHANGED <<client, lastErr>>
        BY <2>3 DEF CoolingRead
      <4>4. Local(c)'
        <5>1. CASE pc[c] = "scan"
          BY <1>1, <3>3, <4>1, <4>2, <4>3, <5>1
             DEF CallsInv, Local, AttemptInv, eps, tried
        <5>2. CASE pc[c] = "loop" /\ skip[c]
          BY <1>1, <3>3, <4>1, <4>2, <4>3, <5>2
             DEF CallsInv, Local, AttemptInv, eps, tried
        <5> QED
          BY <2>3, <5>1, <5>2 DEF CoolingRead, InLoop
      <4>5. l \in Label
        BY DEF Label
      <4> QED
        BY <1>1, <2>0, <3>3, <4>3, <4>4, <4>5, GotoCalls
    <3> QED
      BY <2>3, <3>1, <3>2, <3>3 DEF CoolingRead
  <2>4. CASE CoolingLock(c)
    <3>1. CASE Sees(c, TRUE)
      BY <1>1, <2>4, <3>1, SeesCalls DEF CoolingLock
    <3>2. CASE Sees(c, FALSE)
      BY <1>1, <2>4, <3>2, SeesCalls DEF CoolingLock
    <3> QED
      BY <2>4, <3>1, <3>2 DEF CoolingLock
  <2>5. CASE Probe(c)
    <3>1. pos[c] \in 1..Len(eps)
      BY <1>1, <2>0, <2>5 DEF Probe, InLoop, Candidates, CallsInv, Local
    <3> QED
      BY <1>1, <2>5, <3>1, AttemptCalls DEF Probe
  <2>9. CASE Begin(c)
    <3>1. pos[c] \in 1..Len(eps)
      BY <1>1, <2>9 DEF Begin, CallsInv, Local
    <3> QED
      BY <1>1, <2>9, <3>1, AttemptCalls DEF Begin
  <2>6. CASE Exhausted(c)
    <3>1. pc[c] = "loop" /\ Len(eps) > 0
      BY <1>1, <2>6 DEF Exhausted, CallsInv, Local
    <3>2. CASE attempted[c] /\ Return(c, lastErr[c]) /\ UNCHANGED tried
      <4>1. lastErr[c] # "nil" /\ lastErr[c] \in Value
        BY <1>1, <3>1, <3>2 DEF CallsInv, Types, Local, AttemptInv
      <4> QED
        BY <1>1, <2>6, <3>2, <4>1, ReturnCalls DEF Exhausted
    <3>3. CASE Attempt(c, 1, "lastResort")
      <4>1. 1 \in 1..Len(eps) /\ UNCHANGED <<client, lastErr>>
        BY <2>0, <2>6, <3>1 DEF Exhausted
      <4> QED
        BY <1>1, <3>3, <4>1, AttemptCalls
    <3> QED
      BY <2>6, <3>2, <3>3 DEF Exhausted
  <2>7. CASE Classify(c)
    <3>1. lastErr[c] # "nil" /\ lastErr[c] \in Value
      BY <1>1, <2>7 DEF Classify, CallsInv, Types, Local, AttemptInv
    <3>2. CASE Return(c, lastErr[c])
      BY <1>1, <2>7, <3>1, <3>2, ReturnCalls DEF Classify
    <3>3. CASE Goto(c, "loop", pos[c] + 1) /\ UNCHANGED <<skip, attempted>>
      <4>1. pc'[c] = "loop" /\ pos'[c] = pos[c] + 1 /\ ret'[c] = ret[c]
        BY <1>1, <3>3 DEF Goto, CallsInv, Types
      <4>2. UNCHANGED <<client, lastErr, tried>>
        BY <2>7 DEF Classify
      <4>3. pos[c] + 1 > 1 /\ Len(eps) > 0 /\ pos[c] + 1 \in Nat \ {0}
        BY <1>1, <2>0, <2>7 DEF Classify, CallsInv, Local
      <4>4. Local(c)'
        BY <1>1, <2>7, <3>1, <3>3, <4>1, <4>2, <4>3
           DEF Classify, CallsInv, Local, AttemptInv, eps, tried
      <4> QED
        BY <1>1, <3>3, <4>2, <4>3, <4>4, GotoCalls DEF Label
    <3> QED
      BY <2>7, <3>2, <3>3 DEF Classify
  <2>8. ASSUME NEW o \in Outcomes, AttemptEnds(c, o) \/ LastResortEnds(c, o) \/ KeyEnds(c, o)
        PROVE  CallsInv'
    <3>1. o \in Value /\ o # "nil"
      BY DEF Outcomes, Value, Errors, Failures, Retryable
    <3>2. CASE Return(c, o) /\ UNCHANGED lastErr
      BY <1>1, <2>8, <3>1, <3>2, ReturnCalls DEF AttemptEnds, LastResortEnds, KeyEnds
    <3>3. CASE AttemptEnds(c, o) /\ o # "resp"
      <4>1. /\ Goto(c, "classify", pos[c]) /\ lastErr' = [lastErr EXCEPT ![c] = o]
            /\ UNCHANGED <<client, skip, attempted, tried>> /\ pc[c] = "inflight"
        BY <3>3 DEF AttemptEnds
      <4>2. pc'[c] = "classify" /\ pos'[c] = pos[c] /\ ret'[c] = ret[c] /\ lastErr'[c] = o
        BY <1>1, <4>1 DEF Goto, CallsInv, Types
      <4>3. Local(c)'
        BY <1>1, <3>1, <4>1, <4>2 DEF CallsInv, Local, AttemptInv, eps, tried
      <4> QED
        BY <1>1, <2>0, <3>1, <4>1, <4>3, GotoCalls DEF Label
    <3>4. CASE KeyEnds(c, o) /\ ~Return(c, o)
      <4>1. /\ Goto(c, "key", pos[c] + 1) /\ pc[c] = "key"
            /\ UNCHANGED <<client, skip, attempted, lastErr, tried>>
        BY <3>4 DEF KeyEnds
      <4>2. pc'[c] = "key" /\ pos'[c] = pos[c] + 1 /\ ret'[c] = ret[c]
        BY <1>1, <4>1 DEF Goto, CallsInv, Types
      <4>3. Local(c)'
        BY <1>1, <4>1, <4>2 DEF CallsInv, Local, AttemptInv, eps, tried
      <4>4. pos[c] + 1 \in Nat \ {0}
        BY <2>0
      <4> QED
        BY <1>1, <4>1, <4>3, <4>4, GotoCalls DEF Label
    <3> QED
      BY <2>8, <3>2, <3>3, <3>4 DEF AttemptEnds, LastResortEnds, KeyEnds
  <2> QED
    BY <1>3, <2>1, <2>2, <2>3, <2>4, <2>5, <2>6, <2>7, <2>8, <2>9 DEF Step
<1> QED
  BY <1>2, <1>3 DEF Next

LEMMA InvStep == Inv /\ [Next]_vars => Inv'
<1> SUFFICES ASSUME Inv, [Next]_vars PROVE Inv'
  OBVIOUS
<1>1. CoolType' /\ CoolInv'
  BY CoolStep
<1>2. CallsInv'
  BY CallsStep
<1>3. (CallType /\ CallInv)'
  BY <1>2, LocalInv, PTL DEF CallsInv
<1> QED
  BY <1>1, <1>3 DEF Inv, TypeInv

LEMMA Invariance == Spec => []Inv
BY InitInv, InvStep, PTL DEF Spec

-----------------------------------------------------------------------------
\* The two maps and the events stay consistent: a model in the map has failed
\* FailThreshold times, no window is longer than Max, and every recovery event
\* is paired with an entry event of its own, in whatever order they arrive
\* (recordFailure, recordSuccess, cooling).
THEOREM CooldownConsistent == Spec => []CooldownSound
<1>1. Inv => CooldownSound
  BY DEF CooldownSound, Inv, CoolInv
<1> QED
  BY <1>1, Invariance, PTL

\* A live window ends by time or by a success of its model only: the clean-up
\* of an expired window never takes a fresh one with it (the second look of
\* cooling() under the write lock).
THEOREM WindowKept == Spec => WindowEndsByTimeOrSuccess
<1> DEFINE Kept == \A m \in ModelID :
         until[m] > now /\ until'[m] <= now'
         => \/ now' # now
            \/ \E c \in Calls : pc[c] \in {"inflight", "lastResort"} /\ Asked(c) = m
                                /\ ret'[c] = "resp"
<1>1. ASSUME Inv, [Next]_vars PROVE Kept
  <2> SUFFICES ASSUME NEW m \in ModelID, until[m] > now, until'[m] <= now', now' = now
               PROVE  \E c \in Calls : pc[c] \in {"inflight", "lastResort"} /\ Asked(c) = m
                                       /\ ret'[c] = "resp"
    OBVIOUS
  <2>0. CoolType /\ CallType /\ TypeInv /\ until[m] \in Nat /\ now \in Nat
    BY <1>1 DEF Inv, TypeInv, CoolType
  <2>1. until' # until
    BY <2>0
  <2>2. PICK c \in Calls : Step(c)
    BY <1>1, <2>1 DEF Next, vars, cool, Tick, Cancel
  <2>3. CASE CoolingLock(c)
    <3>1. Asked(c) \in ModelID
      BY <2>0, <2>3, AskedType DEF CoolingLock, CallType
    <3>2. until[Asked(c)] \in 1..now /\ until' = [until EXCEPT ![Asked(c)] = 0]
      BY <2>1, <2>3 DEF CoolingLock, Clear, cool
    <3>3. Asked(c) # m
      BY <2>0, <3>2
    <3> QED
      BY <2>0, <3>2, <3>3 DEF CoolType
  <2>4. ASSUME NEW o \in Outcomes, AttemptEnds(c, o) \/ LastResortEnds(c, o)
        PROVE  pc[c] \in {"inflight", "lastResort"} /\ Asked(c) = m /\ ret'[c] = "resp"
    <3>1. pc[c] \in {"inflight", "lastResort"} /\ Outcome(c, Asked(c), o) /\ Asked(c) \in ModelID
      BY <2>0, <2>4, AskedType DEF AttemptEnds, LastResortEnds, CallType
    <3>2. ASSUME NEW ra \in RetryAfters, recordFailure(Asked(c), ra) PROVE FALSE
      <4>1. Window(ra) \in Nat
        BY <2>0, CooldownAssumption DEF Window, LeastOf, CoolType
      <4>2. until'[m] = until[m] \/ until'[m] = now + Window(ra)
        BY <2>0, <3>1, <3>2 DEF recordFailure, Failed, CoolType
      <4>3. CASE Window(ra) > 0
        BY <2>0, <4>1, <4>2, <4>3
      <4>4. Window(ra) > 0
        BY CooldownAssumption, <2>0 DEF Window, LeastOf, CoolType
      <4> QED
        BY <4>3, <4>4
    <3>3. o = "resp" /\ recordSuccess(Asked(c))
      BY <2>1, <3>1, <3>2 DEF Outcome, cool
    <3>4. Asked(c) = m
      BY <2>0, <3>1, <3>3 DEF recordSuccess, Clear, CoolType
    <3>5. ret'[c] = "resp"
      BY <2>0, <2>4, <3>3 DEF AttemptEnds, LastResortEnds, Return, CallType
    <3> QED
      BY <3>1, <3>4, <3>5
  <2> QED
    BY <2>1, <2>2, <2>3, <2>4
       DEF Step, Complete, CoolingRead, Probe, Begin, Exhausted, Classify, KeyEnds, cool
<1>2. Inv /\ [Next]_vars => [Kept]_vars
  BY <1>1
<1> QED
  BY <1>2, Invariance, PTL DEF Spec, WindowEndsByTimeOrSuccess

\* What a step does to the number of entry events of a model.
LEMMA EntryStep ==
    ASSUME Inv, [Next]_vars, NEW m \in ModelID
    PROVE  entries'[m] - entries[m] = IF until[m] <= now /\ until'[m] > now' THEN 1 ELSE 0
<1>0. CoolType /\ CallType /\ TypeInv /\ until[m] \in Nat /\ now \in Nat /\ entries[m] \in Nat
  BY DEF Inv, TypeInv, CoolType
<1>1. CASE UNCHANGED <<until, entries>> /\ now' \in Nat /\ now <= now'
  BY <1>0, <1>1
<1>2. ASSUME NEW a \in ModelID, Clear(a), now' = now
      PROVE  entries'[m] - entries[m] = IF until[m] <= now /\ until'[m] > now' THEN 1 ELSE 0
  <2>1. entries' = entries /\ until'[m] \in {0, until[m]}
    BY <1>0, <1>2 DEF Clear, CoolType
  <2> QED
    BY <1>0, <1>2, <2>1
<1>3. ASSUME NEW a \in ModelID, NEW ra \in RetryAfters, recordFailure(a, ra), now' = now
      PROVE  entries'[m] - entries[m] = IF until[m] <= now /\ until'[m] > now' THEN 1 ELSE 0
  <2>1. Window(ra) \in Nat /\ Window(ra) > 0
    BY <1>0, CooldownAssumption DEF Window, LeastOf, CoolType
  <2>2. CASE a # m
    <3>1. entries'[m] = entries[m] /\ until'[m] = until[m]
      BY <1>0, <1>3, <2>2 DEF recordFailure, Failed, CoolType
    <3> QED
      BY <1>0, <1>3, <3>1
  <2>3. CASE a = m
    <3>1. /\ entries'[m] = IF fails[m] + 1 >= FailThreshold /\ until[m] <= now THEN entries[m] + 1 ELSE entries[m]
          /\ until'[m] = IF fails[m] + 1 >= FailThreshold THEN now + Window(ra) ELSE until[m]
      BY <1>0, <1>3, <2>3 DEF recordFailure, Failed, CoolType
    <3> QED
      BY <1>0, <1>3, <2>1, <3>1
  <2> QED
    BY <2>2, <2>3
<1>4. CASE Tick \/ (\E c \in Calls : Cancel(c)) \/ UNCHANGED vars
  BY <1>0, <1>1, <1>4 DEF Tick, Cancel, vars, cool
<1>5. ASSUME NEW c \in Calls, Step(c)
      PROVE  entries'[m] - entries[m] = IF until[m] <= now /\ until'[m] > now' THEN 1 ELSE 0
  <2>1. now' = now
    BY <1>5 DEF Step, Complete, CoolingRead, CoolingLock, Probe, Begin, Exhausted, Classify,
                AttemptEnds, LastResortEnds, KeyEnds
  <2>2. CASE UNCHANGED cool
    BY <1>0, <1>1, <2>1, <2>2 DEF cool
  <2>3. CASE CoolingLock(c)
    <3>1. Asked(c) \in ModelID
      BY <1>0, <2>3, AskedType DEF CoolingLock, CallType
    <3> QED
      BY <2>1, <2>2, <2>3, <3>1, <1>2 DEF CoolingLock
  <2>4. ASSUME NEW o \in Outcomes, AttemptEnds(c, o) \/ LastResortEnds(c, o)
        PROVE  entries'[m] - entries[m] = IF until[m] <= now /\ until'[m] > now' THEN 1 ELSE 0
    <3>1. Outcome(c, Asked(c), o) /\ Asked(c) \in ModelID
      BY <1>0, <2>4, AskedType DEF AttemptEnds, LastResortEnds, CallType
    <3> QED
      BY <1>2, <1>3, <2>1, <2>2, <3>1 DEF Outcome, recordSuccess
  <2> QED
    BY <1>5, <2>2, <2>3, <2>4 DEF Step, Complete, CoolingRead, Probe, Begin, Exhausted, Classify, KeyEnds
<1> QED
  BY <1>4, <1>5 DEF Next

\* The entry event is sent once per window: when a failure opens one, also over
\* an expired entry that nobody swept, and not when a live one is prolonged.
THEOREM EventPerWindow == Spec => EntryPerWindow
<1> DEFINE Once == \A m \in ModelID :
         entries'[m] - entries[m] = IF until[m] <= now /\ until'[m] > now' THEN 1 ELSE 0
<1>1. Inv /\ [Next]_vars => [Once]_vars
  BY EntryStep
<1> QED
  BY <1>1, Invariance, PTL DEF Spec, EntryPerWindow

\* A cooldown window opens with one event and is closed by time or by a success
\* only, whatever the interleaving of failures, successes, lookups and sweeps of
\* modelCooldown.
THEOREM WindowsCorrect == Spec => WindowsKept
BY WindowKept, EventPerWindow DEF WindowsKept

-----------------------------------------------------------------------------
(* OneHopPerWindow.                                                        *)

\* Nothing about call d changes.
Same(d) ==
    /\ client' = client /\ pc'[d] = pc[d] /\ ret'[d] = ret[d] /\ skip'[d] = skip[d]
    /\ pos'[d] = pos[d] /\ ctxDone'[d] = ctxDone[d] /\ cooledAt'[d] = cooledAt[d]
    /\ attemptedAt'[d] = attemptedAt[d] /\ skippedAt'[d] = skippedAt[d]

\* A step of one call leaves the others where they are.
LEMMA OthersSame ==
    ASSUME Types, ctxDone \in [Calls -> BOOLEAN], NEW c \in Calls, NEW d \in Calls, c # d,
           Step(c) \/ Cancel(c)
    PROVE  Same(d)
<1> USE DEF Types, Same
<1>1. CASE Cancel(c)
  <2>1. ctxDone'[d] = ctxDone[d]
    BY <1>1 DEF Cancel
  <2> QED BY <1>1, <2>1 DEF Cancel, local, tried
<1>2. CASE Complete(c)
  BY <1>2 DEF Complete, Return, Goto, tried
<1>3. ASSUME NEW b, Sees(c, b), UNCHANGED <<client, ctxDone>> PROVE Same(d)
  BY <1>3 DEF Sees, ScanSees, LoopSees, Goto, tried
<1>4. CASE CoolingRead(c)
  BY <1>3, <1>4 DEF CoolingRead, Goto, tried
<1>5. CASE CoolingLock(c)
  BY <1>3, <1>5 DEF CoolingLock
<1>6. CASE Probe(c) \/ Begin(c) \/ Exhausted(c)
  <2>1. ASSUME NEW i, NEW l, Attempt(c, i, l), UNCHANGED <<client, ctxDone>> PROVE Same(d)
    BY <2>1 DEF Attempt
  <2>2. CASE Exhausted(c) /\ Return(c, lastErr[c]) /\ UNCHANGED tried
    BY <2>2 DEF Exhausted, Return, tried
  <2> QED BY <1>6, <2>1, <2>2 DEF Probe, Begin, Exhausted
<1>7. CASE Classify(c)
  BY <1>7 DEF Classify, Goto, Return, tried
<1>8. ASSUME NEW o, AttemptEnds(c, o) \/ LastResortEnds(c, o) \/ KeyEnds(c, o) PROVE Same(d)
  BY <1>8 DEF AttemptEnds, LastResortEnds, KeyEnds, Goto, Return, tried
<1> QED BY <1>1, <1>2, <1>4, <1>5, <1>6, <1>7, <1>8 DEF Step

\* The windows that call c's attempts met have been opened, no two of the
\* attempts met the same one, and the model a call is about to attempt is in none
\* of them: cooling() has just seen their last one closed, and a window opened
\* since then is a new one.
HopInv(c) ==
    /\ \A x \in cooledAt[c] : x[3] <= entries[x[2]]
    /\ \A x, y \in cooledAt[c] : x[2] = y[2] /\ x[3] = y[3] => x[1] = y[1]
    /\ pc[c] = "start" => \A x \in cooledAt[c] :
          x[2] = Asked(c) => x[3] < entries[Asked(c)] \/ until[Asked(c)] <= now

\* Entry events are never taken back, and a closed window reopens as a new one.
LEMMA WindowNumbers ==
    ASSUME Inv, [Next]_vars, NEW m \in ModelID
    PROVE  /\ entries[m] \in Nat /\ entries'[m] \in Nat /\ entries[m] <= entries'[m]
           /\ until[m] <= now => until'[m] <= now' \/ entries[m] < entries'[m]
<1>1. /\ entries[m] \in Nat /\ entries'[m] \in Nat /\ until[m] \in Nat /\ until'[m] \in Nat
      /\ now \in Nat /\ now' \in Nat
  BY CoolStep DEF Inv, TypeInv, CoolType
<1>2. entries'[m] - entries[m] = IF until[m] <= now /\ until'[m] > now' THEN 1 ELSE 0
  BY EntryStep
<1> QED BY <1>1, <1>2

\* A step that adds no attempt of d.
LEMMA HopKept ==
    ASSUME Inv, [Next]_vars, NEW d \in Calls, HopInv(d), client' = client,
           cooledAt'[d] = cooledAt[d],
           pc'[d] = "start" =>
               \/ pc[d] = "start" /\ pos'[d] = pos[d]
               \/ pos'[d] \in 1..Len(eps) /\ until'[Asked(d)'] <= now'
    PROVE  HopInv(d)'
<1>1. \A x \in cooledAt[d] : x[2] \in ModelID /\ x[3] \in Nat
  BY DEF Inv, TypeInv, CallType, Hops
<1>2. \A x \in cooledAt[d] : x[3] <= entries'[x[2]]
  BY <1>1, WindowNumbers DEF HopInv
<1>3. ASSUME pc'[d] = "start", NEW x \in cooledAt[d], x[2] = Asked(d)'
      PROVE  x[3] < entries'[Asked(d)'] \/ until'[Asked(d)'] <= now'
  <2>1. CASE pc[d] = "start" /\ pos'[d] = pos[d]
    <3>1. Asked(d)' = Asked(d) /\ Asked(d) \in ModelID
      BY <1>1, <1>3, <2>1 DEF Asked, eps
    <3>2. x[3] < entries[Asked(d)] \/ until[Asked(d)] <= now
      BY <1>3, <2>1, <3>1 DEF HopInv
    <3>3. x[3] <= entries[Asked(d)] /\ x[3] \in Nat
      BY <1>1, <1>3, <3>1 DEF HopInv
    <3> QED BY <3>1, <3>2, <3>3, WindowNumbers
  <2> QED BY <1>3, <2>1
<1> QED BY <1>2, <1>3 DEF HopInv

\* An attempt of d at endpoint p whose last window, if d has met it, is closed.
LEMMA HopAttempt ==
    ASSUME Inv, NEW d \in Calls, HopInv(d), NEW p \in 1..Len(eps), NEW l \in Label \ {"start"},
           Attempt(d, p, l), UNCHANGED <<client, now, cool>>,
           \A x \in cooledAt[d] : x[2] = eps[p].model
               => x[3] < entries[eps[p].model] \/ until[eps[p].model] <= now
    PROVE  HopInv(d)'
<1> DEFINE m == eps[p].model
           new == <<p, m, entries[m]>>
<1>1. Hop(p) \subseteq {new} /\ (Hop(p) # {} => until[m] > now) /\ m \in ModelID
  BY HopType DEF Inv, TypeInv
<1>2. new[1] = p /\ new[2] = m /\ new[3] = entries[m] /\ entries[m] \in Nat /\ until[m] \in Nat
      /\ now \in Nat
  BY <1>1 DEF Inv, TypeInv, CoolType
<1>3. pc'[d] # "start" /\ cooledAt'[d] = cooledAt[d] \cup Hop(p) /\ entries' = entries
  BY DEF Attempt, Inv, TypeInv, CallType, cool
<1>4. \A x \in cooledAt[d] : x[3] \in Nat
  BY DEF Inv, TypeInv, CallType, Hops
<1> HIDE DEF m, new
<1>5. \A x \in cooledAt[d] : Hop(p) # {} /\ x[2] = m => x[3] # new[3]
  <2> SUFFICES ASSUME NEW x \in cooledAt[d], Hop(p) # {}, x[2] = m PROVE x[3] < entries[m]
    BY <1>2, <1>4
  <2>1. x[3] < entries[m] \/ until[m] <= now
    BY DEF m
  <2> QED BY <1>1, <1>2, <2>1
<1>6. \A x \in cooledAt'[d] : x[3] <= entries'[x[2]]
  BY <1>1, <1>2, <1>3 DEF HopInv
<1>7. ASSUME NEW x \in cooledAt'[d], NEW y \in cooledAt'[d], x[2] = y[2], x[3] = y[3]
      PROVE  x[1] = y[1]
  BY <1>1, <1>2, <1>3, <1>5, <1>7 DEF HopInv
<1> QED BY <1>3, <1>6, <1>7 DEF HopInv

\* A step of d itself.
LEMMA HopStep ==
    ASSUME Inv, [Next]_vars, NEW d \in Calls, HopInv(d), Step(d) \/ Cancel(d)
    PROVE  HopInv(d)'
<1>0. /\ CallsInv /\ CoolType /\ Types /\ Len(eps) \in Nat /\ pos[d] \in Nat \ {0}
      /\ now \in Nat \ {0}
  BY LocalInv DEF Inv, TypeInv, CallsInv, CoolType, Types
<1>1. CASE Cancel(d)
  BY <1>1, HopKept DEF Cancel, local, tried
<1>2. CASE Complete(d)
  <2>1. client' = client /\ cooledAt' = cooledAt /\ pc'[d] \in {"done", "scan", "key"}
    BY <1>0, <1>2 DEF Complete, Return, Goto, tried, Types
  <2> QED BY <2>1, HopKept
<1>3. CASE Classify(d)
  <2>1. client' = client /\ cooledAt' = cooledAt /\ pc'[d] \in {"done", "loop"}
    BY <1>0, <1>3 DEF Classify, Return, Goto, tried, Types
  <2> QED BY <2>1, HopKept
<1>4. ASSUME NEW o, AttemptEnds(d, o) \/ LastResortEnds(d, o) \/ KeyEnds(d, o) PROVE HopInv(d)'
  <2>1. client' = client /\ cooledAt' = cooledAt /\ pc'[d] \in {"done", "classify", "key"}
    BY <1>0, <1>4 DEF AttemptEnds, LastResortEnds, KeyEnds, Return, Goto, tried, Types
  <2> QED BY <2>1, HopKept
<1>5. CASE CoolingRead(d)
  <2>1. client' = client /\ until' = until /\ now' = now
    BY <1>5 DEF CoolingRead, cool
  <2>2. cooledAt' = cooledAt
    BY <1>5 DEF CoolingRead, Sees, ScanSees, LoopSees, tried
  <2>3. ASSUME pc'[d] = "start" PROVE pos'[d] = pos[d] /\ until[Asked(d)] = 0 /\ InLoop(d) /\ skip[d]
    BY <1>0, <1>5, <2>3 DEF CoolingRead, Sees, ScanSees, LoopSees, Goto, Types
  <2>4. InLoop(d) /\ skip[d] => pos[d] \in 1..Len(eps)
    BY <1>0 DEF InLoop, Candidates
  <2>5. pos'[d] = pos[d] => Asked(d)' = Asked(d)
    BY <2>1 DEF Asked, eps
  <2> QED BY <1>0, <2>1, <2>2, <2>3, <2>4, <2>5, HopKept
<1>6. CASE CoolingLock(d)
  <2>1. client' = client /\ now' = now /\ pos[d] \in 1..Len(eps) /\ Asked(d) \in ModelID
    BY <1>0, <1>6, AskedType DEF CoolingLock, CallsInv, Local, Inv
  <2>2. cooledAt' = cooledAt
    BY <1>6 DEF CoolingLock, Sees, ScanSees, LoopSees, tried
  <2>3. ASSUME pc'[d] = "start" PROVE pos'[d] = pos[d] /\ until'[Asked(d)] = 0
    <3>1. CASE Sees(d, TRUE)
      BY <1>0, <2>3, <3>1 DEF Sees, ScanSees, LoopSees, Goto, Types
    <3>2. CASE Sees(d, FALSE) /\ ~Sees(d, TRUE)
      <4>1. pos'[d] = pos[d]
        BY <1>0, <2>3, <3>2 DEF Sees, ScanSees, LoopSees, Goto, Types
      <4>2. until'[Asked(d)] = 0
        BY <1>0, <1>6, <2>1, <3>2 DEF CoolingLock, Clear, cool, CoolType
      <4> QED BY <4>1, <4>2
    <3> QED BY <1>6, <3>1, <3>2 DEF CoolingLock
  <2>4. pos'[d] = pos[d] => Asked(d)' = Asked(d)
    BY <2>1 DEF Asked, eps
  <2> QED BY <1>0, <2>1, <2>2, <2>3, <2>4, HopKept
<1>7. CASE Begin(d)
  <2>1. /\ pos[d] \in 1..Len(eps) /\ Attempt(d, pos[d], "inflight") /\ pc[d] = "start"
        /\ UNCHANGED <<client, now, cool>>
    BY <1>0, <1>7 DEF Begin, CallsInv, Local
  <2>2. \A x \in cooledAt[d] : x[2] = eps[pos[d]].model
            => x[3] < entries[eps[pos[d]].model] \/ until[eps[pos[d]].model] <= now
    BY <2>1 DEF HopInv, Asked
  <2> QED BY <2>1, <2>2, HopAttempt DEF Label
<1>8. CASE Probe(d)
  <2>1. /\ pos[d] \in 1..Len(eps) /\ Attempt(d, pos[d], "inflight") /\ pos[d] <= 1 /\ ~skip[d]
        /\ UNCHANGED <<client, now, cool>> /\ pc[d] = "loop"
    BY <1>0, <1>8 DEF Probe, InLoop, Candidates, CallsInv, Local
  <2>2. cooledAt[d] = {}
    BY <1>0, <2>1 DEF CallsInv, Local, AttemptInv
  <2> QED BY <2>1, <2>2, HopAttempt DEF Label
<1>9. CASE Exhausted(d)
  <2>1. CASE Return(d, lastErr[d]) /\ UNCHANGED tried
    <3>1. client' = client /\ cooledAt' = cooledAt /\ pc'[d] = "done"
      BY <1>0, <1>9, <2>1 DEF Exhausted, Return, tried, Types
    <3> QED BY <3>1, HopKept
  <2>2. CASE ~attempted[d] /\ Attempt(d, 1, "lastResort")
    <3>1. 1 \in 1..Len(eps) /\ UNCHANGED <<client, now, cool>>
      BY <1>0, <1>9 DEF Exhausted, CallsInv, Local
    <3>2. cooledAt[d] = {}
      BY <1>0, <2>2 DEF CallsInv, Local, AttemptInv
    <3> QED BY <2>2, <3>1, <3>2, HopAttempt DEF Label
  <2> QED BY <1>9, <2>1, <2>2 DEF Exhausted
<1> QED BY <1>1, <1>2, <1>3, <1>4, <1>5, <1>6, <1>7, <1>8, <1>9 DEF Step

\* No call returns (nil, nil), and no call attempts a model twice in one of its
\* cooldown windows: for any number of concurrent calls, any chain, and every
\* interleaving of the cooldown's critical sections with the attempts
\* (executeInner, cooldownCandidates, the race guard).
THEOREM AlwaysAnswers == Spec => []AnswerSound
<1> DEFINE H == ctxDone \in [Calls -> BOOLEAN] /\ \A c \in Calls : HopInv(c)
<1>1. Init => H
  BY DEF Init, HopInv
<1>2. Inv /\ H /\ [Next]_vars => H'
  <2>0. H /\ [Next]_vars => ctxDone' \in [Calls -> BOOLEAN]
    BY DEF Next, vars, Tick, Step, Cancel, Complete, CoolingRead, CoolingLock, Probe, Begin, Exhausted,
           Classify, AttemptEnds, LastResortEnds, KeyEnds
  <2> SUFFICES ASSUME Inv, H, [Next]_vars, NEW d \in Calls PROVE HopInv(d)'
    BY <2>0
  <2>1. Types
    BY LocalInv DEF Inv, TypeInv
  <2>2. CASE UNCHANGED vars \/ Tick
    <3>1. client' = client /\ pc' = pc /\ pos' = pos /\ cooledAt' = cooledAt
      BY <2>2 DEF vars, Tick, local, tried
    <3> QED BY <3>1, HopKept
  <2>3. ASSUME NEW c \in Calls, Step(c) \/ Cancel(c) PROVE HopInv(d)'
    <3>1. CASE c = d
      BY <2>3, <3>1, HopStep
    <3>2. CASE c # d
      <4>1. Same(d)
        BY <2>1, <2>3, <3>2, OthersSame
      <4> QED BY <4>1, HopKept DEF Same
    <3> QED BY <3>1, <3>2
  <2> QED BY <2>2, <2>3 DEF Next
<1>3. Inv /\ H => AnswerSound
  BY DEF Inv, CallInv, AnswerSound, OneHopPerWindow, HopInv
<1> QED BY <1>1, <1>2, <1>3, Invariance, PTL DEF Spec

-----------------------------------------------------------------------------
(* ChainExhausted.                                                         *)

\* The endpoints a call has looked at.
Looked(c) == attemptedAt[c] \cup skippedAt[c]

\* What a call that may skip cooled models has looked at, by where it is: every
\* endpoint before the index of the loop, the one in flight included, and the
\* whole chain once the loop has run out.
Walked(c) ==
    /\ pc[c] # "done" => ret[c] = "none"
    /\ pc[c] \in {"idle", "key", "scan", "scanLock"} => ~skip[c] /\ Looked(c) = {}
    /\ pc[c] \in {"loop", "loopLock", "start"} /\ skip[c]
       => Looked(c) = 1..(pos[c] - 1) /\ pos[c] <= Len(eps) + 1
    /\ pc[c] \in {"inflight", "classify"} /\ skip[c] => Looked(c) = 1..pos[c]
    /\ pc[c] = "lastResort" /\ skip[c] => Looked(c) = 1..Len(eps)
    /\ /\ skip[c]
       /\ ret[c] \in Retryable \cup {"failover"} \/ (ret[c] = "deadline" /\ ~ctxDone[c])
       => Looked(c) = 1..Len(eps)

\* What the call does with an answer of cooling(): an endpoint is attempted or
\* skipped, and the index moves past it.
LEMMA SeesWalked ==
    ASSUME CallsInv, CoolType, NEW c \in Calls, NEW b \in BOOLEAN, Walked(c),
           pc[c] = "scan" \/ pc[c] = "scanLock" \/ pc[c] = "loopLock"
           \/ (InLoop(c) /\ skip[c]),
           Sees(c, b), UNCHANGED <<client, ctxDone>>
    PROVE  Walked(c)'
<1>0. Len(eps) \in Nat /\ pos[c] \in Nat \ {0} /\ eps' = eps /\ ret[c] = "none"
  BY DEF CoolType, CallsInv, Types, Walked, InLoop, eps
<1>1. CASE pc[c] \in {"scan", "scanLock"}
  <2>1. ScanSees(c, b) /\ ~skip[c] /\ Looked(c) = {}
    BY <1>1 DEF Sees, Walked
  <2>2. Looked(c)' = {} /\ ret'[c] = "none"
    BY <1>0, <2>1 DEF ScanSees, Goto, tried, Looked
  <2>3. (pc'[c] = "loop" /\ pos'[c] = 1) \/ (pc'[c] = "scan" /\ skip'[c] = skip[c])
    BY <2>1 DEF ScanSees, Goto, CallsInv, Types
  <2>4. 1..0 = {} /\ 1 - 1 = 0
    OBVIOUS
  <2> QED BY <1>0, <2>1, <2>2, <2>3, <2>4 DEF Walked, Retryable
<1>2. CASE pc[c] \in {"loop", "loopLock"}
  <2>1. LoopSees(c, b) /\ skip[c] /\ pos[c] <= Len(eps)
    BY <1>0, <1>2 DEF Sees, InLoop, Candidates, CallsInv, Local
  <2>2. Looked(c) = 1..(pos[c] - 1)
    BY <1>2, <2>1 DEF Walked
  <2>3. CASE Goto(c, "loop", pos[c] + 1) /\ skippedAt' = [skippedAt EXCEPT ![c] = @ \cup {pos[c]}]
             /\ UNCHANGED <<skip, attemptedAt>>
    <3>1. Looked(c)' = Looked(c) \cup {pos[c]}
      BY <2>3 DEF Looked, CallsInv, Types
    <3>2. Looked(c)' = 1..pos[c]
      BY <1>0, <2>2, <3>1
    <3>3. skip' = skip /\ ret' = ret /\ pc'[c] = "loop" /\ pos'[c] = pos[c] + 1
      BY <2>3 DEF Goto, CallsInv, Types
    <3> QED BY <1>0, <2>1, <3>2, <3>3 DEF Walked, Retryable
  <2>4. CASE Goto(c, "start", pos[c]) /\ UNCHANGED <<skip, attempted, tried>>
    <3>1. skip' = skip /\ ret' = ret /\ pc'[c] = "start" /\ pos'[c] = pos[c]
          /\ Looked(c)' = Looked(c)
      BY <2>4 DEF Goto, CallsInv, Types, tried, Looked
    <3> QED BY <1>0, <2>1, <2>2, <3>1 DEF Walked, Retryable
  <2> QED BY <2>1, <2>3, <2>4 DEF LoopSees
<1> QED BY <1>1, <1>2 DEF InLoop

\* A call that returns r keeps what it has looked at.
LEMMA ReturnWalked ==
    ASSUME Types, NEW c \in Calls, NEW r, Return(c, r), UNCHANGED <<client, ctxDone, tried>>,
           /\ skip[c]
           /\ r \in Retryable \cup {"failover"} \/ (r = "deadline" /\ ~ctxDone[c])
           => Looked(c) = 1..Len(eps)
    PROVE  Walked(c)'
<1>1. pc'[c] = "done" /\ ret'[c] = r /\ skip' = skip /\ Looked(c)' = Looked(c) /\ eps' = eps
  BY DEF Types, Return, tried, Looked, eps
<1> QED BY <1>1 DEF Walked

\* A step of the call itself keeps the account of its walk.
LEMMA WalkedStep ==
    ASSUME CallsInv, CoolType, NEW c \in Calls, Walked(c), Step(c) \/ Cancel(c)
    PROVE  Walked(c)'
<1>0. Types /\ Len(eps) \in Nat /\ pos[c] \in Nat \ {0}
  BY DEF CoolType, CallsInv, Types
<1>1. CASE Cancel(c)
  <2>1. /\ ret' = ret /\ pc' = pc /\ pos' = pos /\ skip' = skip /\ ret[c] = "none"
        /\ Looked(c)' = Looked(c) /\ eps' = eps
    BY <1>1 DEF Cancel, local, tried, Looked, eps, Walked
  <2> QED BY <2>1 DEF Walked, Retryable
<1>2. CASE Complete(c)
  <2>0. UNCHANGED <<client, ctxDone, tried>> /\ ~skip[c] /\ Looked(c) = {} /\ ret[c] = "none"
    BY <1>2 DEF Complete, Walked
  <2>1. CASE Return(c, "unavailable") \/ Return(c, "noKey")
    BY <1>0, <2>0, <2>1, ReturnWalked
  <2>2. CASE (Goto(c, "scan", 1) \/ Goto(c, "key", 1)) /\ UNCHANGED skip
    <3>1. pc'[c] \in {"scan", "key"} /\ ret'[c] = "none" /\ skip' = skip /\ Looked(c)' = {}
      BY <1>0, <2>0, <2>2 DEF Types, Goto, tried, Looked
    <3> QED BY <2>0, <3>1 DEF Walked, Retryable
  <2> QED BY <1>2, <2>1, <2>2 DEF Complete
<1>3. CASE CoolingRead(c)
  <2>1. ASSUME NEW b \in BOOLEAN, Sees(c, b) PROVE Walked(c)'
    BY <1>3, <2>1, SeesWalked DEF CoolingRead
  <2>2. CASE Goto(c, IF pc[c] = "scan" THEN "scanLock" ELSE "loopLock", pos[c])
             /\ UNCHANGED <<skip, attempted, tried>>
    <3>1. /\ eps' = eps /\ skip' = skip /\ ret' = ret /\ Looked(c)' = Looked(c)
          /\ pos'[c] = pos[c] /\ ctxDone' = ctxDone
          /\ (pc[c] = "scan" /\ pc'[c] = "scanLock") \/ (pc[c] = "loop" /\ pc'[c] = "loopLock")
      BY <1>0, <1>3, <2>2 DEF CoolingRead, InLoop, Types, Goto, tried, Looked, eps
    <3> QED BY <3>1 DEF Walked
  <2> QED BY <1>3, <2>1, <2>2 DEF CoolingRead
<1>4. CASE CoolingLock(c)
  <2>1. ASSUME NEW b \in BOOLEAN, Sees(c, b) PROVE Walked(c)'
    BY <1>4, <2>1, SeesWalked DEF CoolingLock
  <2> QED BY <1>4, <2>1 DEF CoolingLock
<1>5. CASE Probe(c)
  <2>1. ~skip'[c] /\ pc'[c] = "inflight" /\ ret'[c] = "none"
    BY <1>0, <1>5 DEF Probe, InLoop, Attempt, Types, Walked
  <2> QED BY <2>1 DEF Walked
<1>6. CASE Exhausted(c)
  <2>1. skip[c] => Looked(c) = 1..Len(eps)
    BY <1>0, <1>6 DEF Exhausted, Candidates, Walked
  <2>2. CASE attempted[c] /\ Return(c, lastErr[c]) /\ UNCHANGED tried
    BY <1>0, <1>6, <2>1, <2>2, ReturnWalked DEF Exhausted
  <2>3. CASE Attempt(c, 1, "lastResort")
    <3>1. Looked(c)' = Looked(c) \cup {1}
      BY <1>0, <2>3 DEF Attempt, Types, Looked
    <3>2. Len(eps) > 0
      BY <1>6 DEF Exhausted, CallsInv, Local
    <3>3. /\ pc'[c] = "lastResort" /\ ret'[c] = "none" /\ skip' = skip /\ eps' = eps
      BY <1>0, <1>6, <2>3 DEF Exhausted, Attempt, Types, Walked, eps
    <3>4. skip[c] => Looked(c)' = 1..Len(eps)
      BY <1>0, <2>1, <3>1, <3>2
    <3> QED BY <3>3, <3>4 DEF Walked
  <2> QED BY <1>6, <2>2, <2>3 DEF Exhausted
<1>11. CASE Begin(c)
  <2>1. pos[c] \in 1..Len(eps) /\ skip[c] /\ Looked(c) = 1..(pos[c] - 1) /\ ret[c] = "none"
    BY <1>11 DEF Begin, CallsInv, Local, Walked
  <2>2. Looked(c)' = Looked(c) \cup {pos[c]}
    BY <1>0, <1>11 DEF Begin, Attempt, Types, Looked
  <2>3. Looked(c)' = 1..pos[c]
    BY <1>0, <2>1, <2>2
  <2>4. pc'[c] = "inflight" /\ ret'[c] = "none" /\ skip' = skip /\ eps' = eps /\ pos'[c] = pos[c]
    BY <1>0, <1>11, <2>1 DEF Begin, Attempt, Types, eps
  <2> QED BY <2>3, <2>4 DEF Walked, Retryable
<1>7. CASE Classify(c)
  <2>0. /\ UNCHANGED <<client, ctxDone, tried>> /\ pos[c] \in 1..Len(eps)
        /\ skip[c] => Looked(c) = 1..pos[c]
    BY <1>7 DEF Classify, Walked, CallsInv, Local
  <2>1. CASE ~Advances(c, lastErr[c]) /\ Return(c, lastErr[c])
    BY <1>0, <2>0, <2>1, ReturnWalked DEF Advances
  <2>2. CASE Goto(c, "loop", pos[c] + 1) /\ UNCHANGED <<skip, attempted>>
    <3>1. /\ pc'[c] = "loop" /\ pos'[c] = pos[c] + 1 /\ ret'[c] = "none" /\ skip' = skip
          /\ Looked(c)' = Looked(c) /\ eps' = eps
      BY <1>0, <1>7, <2>0, <2>2 DEF Classify, Goto, Types, Walked, tried, Looked, eps
    <3>2. (pos[c] + 1) - 1 = pos[c] /\ pos[c] + 1 <= Len(eps) + 1
      BY <1>0, <2>0
    <3> QED BY <2>0, <3>1, <3>2 DEF Walked, Retryable
  <2> QED BY <1>7, <2>1, <2>2 DEF Classify
<1>8. ASSUME NEW o \in Outcomes, AttemptEnds(c, o) PROVE Walked(c)'
  <2>0. UNCHANGED <<client, ctxDone, tried>>
    BY <1>8 DEF AttemptEnds
  <2>1. CASE o = "resp" /\ Return(c, o)
    BY <1>0, <2>0, <2>1, ReturnWalked DEF Retryable
  <2>2. CASE Goto(c, "classify", pos[c]) /\ UNCHANGED <<skip, attempted>>
    <3>1. /\ pc'[c] = "classify" /\ pos'[c] = pos[c] /\ ret'[c] = "none" /\ skip' = skip
          /\ Looked(c)' = Looked(c) /\ eps' = eps
      BY <1>0, <1>8, <2>0, <2>2 DEF AttemptEnds, Goto, Types, Walked, tried, Looked, eps
    <3> QED BY <1>8, <3>1 DEF AttemptEnds, Walked, Retryable
  <2> QED BY <1>8, <2>1, <2>2 DEF AttemptEnds
<1>9. ASSUME NEW o \in Outcomes, LastResortEnds(c, o) PROVE Walked(c)'
  <2>1. UNCHANGED <<client, ctxDone, tried>> /\ Return(c, o) /\ (skip[c] => Looked(c) = 1..Len(eps))
    BY <1>9 DEF LastResortEnds, Walked
  <2> QED BY <1>0, <2>1, ReturnWalked
<1>10. ASSUME NEW o \in Outcomes, KeyEnds(c, o) PROVE Walked(c)'
  <2>0. UNCHANGED <<client, ctxDone, tried>> /\ ~skip[c] /\ Looked(c) = {} /\ ret[c] = "none"
    BY <1>10 DEF KeyEnds, Walked
  <2>1. CASE Return(c, o)
    BY <1>0, <2>0, <2>1, ReturnWalked
  <2>2. CASE Goto(c, "key", pos[c] + 1) /\ UNCHANGED <<skip, attempted>>
    <3>1. pc'[c] = "key" /\ ret'[c] = "none" /\ skip' = skip /\ Looked(c)' = {}
      BY <1>0, <2>0, <2>2 DEF Types, Goto, tried, Looked
    <3> QED BY <2>0, <3>1 DEF Walked, Retryable
  <2> QED BY <1>10, <2>1, <2>2 DEF KeyEnds
<1> QED BY <1>1, <1>2, <1>3, <1>4, <1>5, <1>6, <1>7, <1>8, <1>9, <1>10, <1>11 DEF Step

\* For any chain and any number of concurrent calls, a call that ends with an
\* error the next model might not have has attempted every endpoint or skipped it
\* because its model was cooling.
THEOREM ChainWalked == Spec => []ChainExhausted
<1> DEFINE W == ctxDone \in [Calls -> BOOLEAN] /\ \A c \in Calls : Walked(c)
<1>1. Init => W
  BY DEF Init, Walked, Looked, Retryable
<1>2. Inv /\ W /\ [Next]_vars => W'
  <2>0. W /\ [Next]_vars => ctxDone' \in [Calls -> BOOLEAN]
    BY DEF Next, vars, Tick, Step, Cancel, Complete, CoolingRead, CoolingLock, Probe, Begin, Exhausted,
           Classify, AttemptEnds, LastResortEnds, KeyEnds
  <2> SUFFICES ASSUME Inv, W, [Next]_vars, NEW d \in Calls PROVE Walked(d)'
    BY <2>0
  <2>1. CallsInv /\ CoolType /\ Types
    BY LocalInv DEF Inv, TypeInv, CallsInv
  <2>2. CASE UNCHANGED vars \/ Tick
    BY <2>2 DEF vars, Tick, local, tried, Walked, Looked, eps
  <2>3. ASSUME NEW c \in Calls, Step(c) \/ Cancel(c) PROVE Walked(d)'
    <3>1. CASE c = d
      BY <2>1, <2>3, <3>1, WalkedStep
    <3>2. CASE c # d
      <4>1. Same(d)
        BY <2>1, <2>3, <3>2, OthersSame
      <4> QED BY <4>1 DEF Same, Walked, Looked, eps
    <3> QED BY <3>1, <3>2
  <2> QED BY <2>2, <2>3 DEF Next
<1>3. Inv /\ W => ChainExhausted
  <2> SUFFICES ASSUME Inv, W, NEW c \in Calls, skip[c],
                      ret[c] \in Retryable \cup {"failover"} \/ (ret[c] = "deadline" /\ ~ctxDone[c])
               PROVE  attemptedAt[c] \cup skippedAt[c] = DOMAIN eps
    BY DEF ChainExhausted
  <2>1. DOMAIN eps = 1..Len(eps)
    BY DEF Inv, TypeInv, CoolType
  <2> QED BY <2>1 DEF Walked, Looked
<1> QED BY <1>1, <1>2, <1>3, Invariance, PTL DEF Spec
=============================================================================
