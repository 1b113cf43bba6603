---------------------------- MODULE Reddit_proofs ----------------------------
(***************************************************************************)
(* The token manager for every set of callers and tiers, every lifetime    *)
(* and margin: one token at a time, and none handed out that has expired.  *)
(***************************************************************************)
EXTENDS Reddit, TLAPS

\* The caller at its token request is the one that holds the mutex.
Holder == \A c \in Callers : pc[c] = "refresh" <=> mu = c

\* While a request is under way the cache has nothing to hand out, and the client
\* has not timed out yet.
Pending == mu # Free => ~Fresh /\ now <= since + Latency

\* What the cache hands out is good for its whole window.
WindowCovered == Fresh => expiresAt <= dies[cached]

Inv == TypeOK /\ Holder /\ Pending /\ WindowCovered /\ SingleFlight

\* The state of the token manager and its clock.
TVars == <<now, cached, expiresAt, mu, since, dies, issued, lapsed, dropped>>

\* A step that leaves the token manager alone keeps what is said of it.
LEMMA TVarsInv ==
    ASSUME Inv, UNCHANGED TVars
    PROVE  Pending' /\ WindowCovered' /\ SingleFlight'
BY DEF Inv, TVars, Pending, WindowCovered, SingleFlight, Fresh

\* A tier is followed by a later one or by the end of the call.
LEMMA TierOrder ==
    AfterOAuth \in {"cookie", "render", "idle"} /\ AfterCookie \in {"render", "idle"}
BY DEF AfterOAuth, AfterCookie

\* The window is positive and ends before the token of a request that was not cut
\* off.
LEMMA WindowBound ==
    /\ Window \in Nat /\ Window >= 1
    /\ \A s, n \in Nat : n <= s + Latency => n + Window <= s + Lifetime
BY ClockAssumption, MarginAssumption DEF Window

LEMMA InitInv == Init => Inv
BY ClockAssumption, CallBounds, FreeAssumption
   DEF Init, Inv, TypeOK, Tokens, Holder, Pending, WindowCovered, SingleFlight, Fresh

\* The steps of a call outside the token manager.
LEMMA TierStepInv ==
    ASSUME Inv, NEW c \in Callers,
           \/ Start(c) \/ GetAnswer(c) \/ GetUnauthorized(c) \/ Cookie(c) \/ Render(c)
    PROVE  Inv'
<1>1. UNCHANGED TVars
  BY DEF TVars, Start, GetAnswer, GetUnauthorized, Cookie, Render
<1>2. TypeOK' /\ Holder'
  <2> USE TierOrder DEF Inv, TypeOK, Holder, Goto, Leave
  <2>1. CASE Start(c)      BY <2>1, CallBounds DEF Start
  <2>2. CASE GetAnswer(c)  BY <2>2 DEF GetAnswer
  <2>3. CASE GetUnauthorized(c)  BY <2>3 DEF GetUnauthorized
  <2>4. CASE Cookie(c)     BY <2>4 DEF Cookie
  <2>5. CASE Render(c)     BY <2>5 DEF Render
  <2> QED BY <2>1, <2>2, <2>3, <2>4, <2>5
<1> QED BY <1>1, <1>2, TVarsInv DEF Inv

LEMMA TokenCachedInv == ASSUME Inv, NEW c \in Callers, TokenCached(c) PROVE Inv'
<1>1. UNCHANGED TVars
  BY DEF TVars, TokenCached
<1>2. TypeOK' /\ Holder'
  BY DEF Inv, TypeOK, Holder, Goto, TokenCached, Fresh
<1> QED BY <1>1, <1>2, TVarsInv DEF Inv

LEMMA TokenRequestInv == ASSUME Inv, NEW c \in Callers, TokenRequest(c) PROVE Inv'
<1>1. TypeOK'
  BY DEF Inv, TypeOK, Goto, TokenRequest
<1>2. Holder'
  BY FreeAssumption DEF Inv, TypeOK, Holder, Goto, TokenRequest
<1>3. Pending'
  BY ClockAssumption DEF Inv, TypeOK, Pending, TokenRequest, Fresh
<1>4. WindowCovered' /\ SingleFlight'
  BY DEF Inv, WindowCovered, SingleFlight, TokenRequest, Fresh
<1> QED BY <1>1, <1>2, <1>3, <1>4 DEF Inv

\* An answer fills an empty cache with a token that outlives its window.
LEMMA TokenAnswerInv == ASSUME Inv, NEW c \in Callers, TokenAnswer(c) PROVE Inv'
<1>1. mu = c /\ c # Free /\ ~Fresh /\ now <= since + Latency
  BY FreeAssumption DEF Inv, TypeOK, Holder, Pending, TokenAnswer
<1>2. /\ now \in Nat /\ since \in Nat /\ issued \in Nat /\ issued + 1 \in 1..MaxCalls
      /\ lapsed \in Nat /\ dropped \in Nat
  BY CallBounds DEF Inv, TypeOK, TokenAnswer, Tokens
<1>3. dies'[issued + 1] = since + Lifetime /\ dies' \in [Tokens -> Nat]
  BY <1>2, ClockAssumption DEF Inv, TypeOK, TokenAnswer, Tokens
<1>4. Fresh' /\ cached' = issued + 1 /\ expiresAt' <= since + Lifetime /\ expiresAt' \in Nat
  BY <1>1, <1>2, WindowBound, ClockAssumption DEF TokenAnswer, Fresh
<1>5. TypeOK'
  BY <1>2, <1>3, <1>4, CallBounds DEF Inv, TypeOK, TokenAnswer, Goto
<1>6. Holder'
  BY <1>1, FreeAssumption DEF Inv, TypeOK, Holder, Goto, TokenAnswer
<1>7. Pending' /\ WindowCovered'
  BY <1>3, <1>4 DEF Pending, WindowCovered, TokenAnswer
<1>8. SingleFlight'
  BY <1>1, <1>2, <1>4 DEF Inv, SingleFlight, TokenAnswer
<1> QED BY <1>5, <1>6, <1>7, <1>8 DEF Inv

LEMMA TokenFailsInv == ASSUME Inv, NEW c \in Callers, TokenFails(c) PROVE Inv'
<1>1. mu = c
  BY DEF Inv, Holder, TokenFails
<1>2. TypeOK'
  BY TierOrder, CallBounds DEF Inv, TypeOK, Goto, TokenFails
<1>3. Holder'
  BY <1>1, TierOrder, FreeAssumption DEF Inv, TypeOK, Holder, Goto, TokenFails
<1>4. Pending' /\ WindowCovered' /\ SingleFlight'
  BY DEF Inv, Pending, WindowCovered, SingleFlight, TokenFails, Fresh
<1> QED BY <1>2, <1>3, <1>4 DEF Inv

LEMMA InvalidateInv == ASSUME Inv, NEW c \in Callers, Invalidate(c) PROVE Inv'
<1>1. tok[c] \in Tokens
  BY CallBounds DEF Inv, TypeOK, Tokens, Invalidate
<1>2. TypeOK'
  BY <1>1 DEF Inv, TypeOK, Goto, Leave, Invalidate
<1>3. Holder' /\ Pending'
  BY FreeAssumption DEF Inv, TypeOK, Holder, Pending, Goto, Leave, Invalidate
<1>4. ~Fresh'
  BY DEF Invalidate, Fresh
<1>5. WindowCovered' /\ SingleFlight'
  BY <1>4 DEF Inv, TypeOK, WindowCovered, SingleFlight, Invalidate
<1> QED BY <1>2, <1>3, <1>5 DEF Inv

\* The clock ends the window of a cached token at most once.
LEMMA TickInv == ASSUME Inv, Tick PROVE Inv'
<1>1. now \in Nat /\ now' = now + 1 /\ expiresAt \in Nat /\ lapsed \in Nat /\ since \in Nat
  BY CallBounds DEF Inv, TypeOK, Tick
<1>2. TypeOK' /\ Holder'
  BY <1>1, CallBounds DEF Inv, TypeOK, Holder, Tick
<1>3. Fresh' => Fresh
  BY <1>1 DEF Tick, Fresh
<1>4. Pending'
  BY <1>1, <1>3, ClockAssumption DEF Inv, Pending, Tick
<1>5. WindowCovered'
  BY <1>3 DEF Inv, WindowCovered, Tick
<1>6. SingleFlight'
  <2>1. CASE Fresh /\ ~Fresh'
    <3>1. lapsed' = lapsed + 1
      BY <2>1, <1>1 DEF Fresh, Tick
    <3> QED BY <2>1, <3>1, <1>1 DEF Inv, TypeOK, SingleFlight, Tick
  <2>2. CASE Fresh = Fresh'
    <3>1. lapsed' = lapsed
      BY <2>2, <1>1 DEF Fresh, Tick
    <3> QED BY <2>2, <3>1 DEF Inv, SingleFlight, Tick
  <2> QED BY <2>1, <2>2, <1>3 DEF Fresh
<1> QED BY <1>2, <1>4, <1>5, <1>6 DEF Inv

LEMMA RevokeInv == ASSUME Inv, NEW t \in Tokens, Revoke(t) PROVE Inv'
<1>1. UNCHANGED TVars
  BY DEF TVars, Revoke
<1>2. TypeOK' /\ Holder'
  BY DEF Inv, TypeOK, Holder, Revoke
<1> QED BY <1>1, <1>2, TVarsInv DEF Inv

\* Every step keeps the inductive invariant.
LEMMA NextInv == Inv /\ [Next]_vars => Inv'
<1> SUFFICES ASSUME Inv, [Next]_vars PROVE Inv'
  OBVIOUS
<1>1. CASE \E c \in Callers : Start(c) \/ Locking(c) \/ Step(c)
  <2> PICK c \in Callers : Start(c) \/ Locking(c) \/ Step(c)
    BY <1>1
  <2> QED BY TierStepInv, TokenCachedInv, TokenRequestInv, TokenAnswerInv, TokenFailsInv,
             InvalidateInv DEF Locking, Step
<1>2. CASE Tick
  BY <1>2, TickInv
<1>3. CASE \E t \in Tokens : Revoke(t)
  BY <1>3, RevokeInv
<1>4. CASE UNCHANGED vars
  BY <1>4, TVarsInv DEF vars, TVars, Inv, TypeOK, Holder
<1> QED BY <1>1, <1>2, <1>3, <1>4 DEF Next, BoundReached

\* The inductive invariant of the token manager and its callers: the mutex belongs
\* to the caller at its request, the cache is empty meanwhile, and what it hands out
\* is good for the window.
THEOREM InvHolds == Spec => []Inv
<1>1. Spec => []Inv
  BY InitInv, NextInv, PTL DEF Spec
<1> QED BY <1>1

\* Token requests are single-flight: no token is requested while another is good.
THEOREM SingleFlightHolds == Spec => []SingleFlight
<1>1. Inv => SingleFlight
  BY DEF Inv
<1> QED BY <1>1, InvHolds, PTL

\* A call gets a token from the cache or from its own request.
LEMMA HandedOut ==
    ASSUME Inv, Next, NEW c \in Callers, pc[c] # "get", pc'[c] = "get"
    PROVE  TokenCached(c) \/ TokenAnswer(c)
<1> USE TierOrder DEF Inv, TypeOK
<1>1. CASE \E d \in Callers : Start(d) \/ Locking(d) \/ Step(d)
  <2> PICK d \in Callers : Start(d) \/ Locking(d) \/ Step(d)
    BY <1>1
  <2>1. d = c
    BY DEF Start, Locking, Step, TokenCached, TokenRequest, Invalidate, TokenAnswer,
           TokenFails, GetAnswer, GetUnauthorized, Cookie, Render, Goto, Leave
  <2> QED BY <2>1 DEF Start, Locking, Step, TokenRequest, Invalidate,
             TokenFails, GetAnswer, GetUnauthorized, Cookie, Render, Goto, Leave
<1>2. CASE Tick \/ (\E t \in Tokens : Revoke(t)) \/ BoundReached
  BY <1>2 DEF Tick, Revoke, BoundReached, vars
<1> QED BY <1>1, <1>2 DEF Next

\* No caller is handed a token that has expired, because refreshMargin is at least
\* the time a token request may take.
THEOREM HandedOutAliveHolds == Spec => HandedOutAlive
<1> DEFINE Alive == \A c \in Callers : (pc[c] # "get" /\ pc'[c] = "get") => now < dies'[tok'[c]]
<1>1. Inv /\ [Next]_vars => [Alive]_vars
  <2> SUFFICES ASSUME Inv, Next, NEW c \in Callers, pc[c] # "get", pc'[c] = "get"
               PROVE  now < dies'[tok'[c]]
    OBVIOUS
  <2>1. TokenCached(c) \/ TokenAnswer(c)
    BY HandedOut
  <2>2. CASE TokenCached(c)
    <3>1. tok'[c] = cached /\ dies' = dies /\ Fresh /\ cached \in Tokens
      BY <2>2, CallBounds DEF TokenCached, Inv, TypeOK, Tokens, Fresh
    <3> QED BY <3>1, CallBounds DEF Inv, TypeOK, WindowCovered, Fresh
  <2>3. CASE TokenAnswer(c)
    <3>1. now <= since + Latency /\ now \in Nat /\ since \in Nat
      BY <2>3, FreeAssumption, CallBounds DEF Inv, TypeOK, Holder, Pending, TokenAnswer
    <3>2. tok'[c] = issued + 1 /\ dies'[issued + 1] = since + Lifetime
      BY <2>3 DEF TokenAnswer, Inv, TypeOK
    <3> QED BY <3>1, <3>2, WindowBound, ClockAssumption
  <2> QED BY <2>1, <2>2, <2>3
<1>2. QED
  BY <1>1, InvHolds, PTL DEF Spec, HandedOutAlive

\* The denied tokens are among the issued ones, and none of them is cached.
DeniedGone == denied \subseteq 1..issued /\ cached \notin denied

\* Only Invalidate denies a token, and it empties the cache with the same step.
LEMMA DeniedGoneNext == Inv /\ DeniedGone /\ [Next]_vars => DeniedGone'
<1> SUFFICES ASSUME Inv, DeniedGone, [Next]_vars PROVE DeniedGone'
  OBVIOUS
<1> USE DEF DeniedGone
<1>1. ASSUME NEW c \in Callers, TokenAnswer(c) PROVE DeniedGone'
  <2>1. issued \in Nat
    BY DEF Inv, TypeOK
  <2> QED BY <1>1, <2>1 DEF TokenAnswer
<1>2. ASSUME NEW c \in Callers, Invalidate(c) PROVE DeniedGone'
  <2>1. tok[c] \in 1..issued
    BY <1>2 DEF Inv, TypeOK, Invalidate
  <2>2. denied' = denied \cup {tok[c]} /\ issued' = issued /\ cached' = 0
    BY <1>2 DEF Invalidate
  <2>3. denied' \subseteq 1..issued'
    BY <2>1, <2>2
  <2>4. 0 \notin 1..issued'
    <3>1. issued \in Nat
      BY DEF Inv, TypeOK
    <3> QED BY <2>2, <3>1
  <2> QED BY <2>2, <2>3, <2>4
<1>3. CASE UNCHANGED <<cached, issued, denied>>
  BY <1>3
<1>4. \/ \E c \in Callers : TokenAnswer(c) \/ Invalidate(c)
      \/ UNCHANGED <<cached, issued, denied>>
  BY DEF Next, Locking, Step, Start, TokenCached, TokenRequest, TokenFails,
     GetAnswer, GetUnauthorized, Cookie, Render, Tick, Revoke, BoundReached, vars
<1> QED BY <1>1, <1>2, <1>3, <1>4

\* A token the server has denied is never handed out again after Invalidate.
THEOREM DeniedNeverReusedHolds == Spec => DeniedNeverReused
<1> DEFINE Gone == \A c \in Callers : (pc[c] # "get" /\ pc'[c] = "get") => tok'[c] \notin denied
<1>1. Init => DeniedGone
  BY DEF Init, DeniedGone
<1>2. Inv /\ DeniedGone /\ [Next]_vars => [Gone]_vars
  <2> SUFFICES ASSUME Inv, DeniedGone, Next, NEW c \in Callers, pc[c] # "get", pc'[c] = "get"
               PROVE  tok'[c] \notin denied
    OBVIOUS
  <2>1. CASE TokenCached(c)
    BY <2>1 DEF TokenCached, Inv, TypeOK, DeniedGone
  <2>2. CASE TokenAnswer(c)
    BY <2>2 DEF TokenAnswer, Inv, TypeOK, DeniedGone
  <2> QED BY <2>1, <2>2, HandedOut
<1>3. QED
  BY <1>1, <1>2, InvHolds, DeniedGoneNext, PTL DEF Spec, DeniedNeverReused
=============================================================================
