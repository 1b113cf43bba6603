------------------------------- MODULE Reddit -------------------------------
(***************************************************************************)
(* search.runReddit over websearch.SearchOAuth and the token manager:      *)
(* concurrent calls climb down the tiers                                   *)
(*                                                                         *)
(*     oauth (Token, search request, Invalidate) -> cookie -> render       *)
(*                                                                         *)
(* and share one cached bearer token.  Token holds the mutex of the        *)
(* manager across its request, Invalidate needs it too, and the clock runs *)
(* on meanwhile.  A token is a number; 0 is the empty string.              *)
(***************************************************************************)
EXTENDS Integers, FiniteSets

CONSTANTS
    Callers,   \* goroutines that run runReddit, again and again
    Tiers,     \* the configured tiers, a subset of oauth, cookie, render
    Lifetime,  \* expires_in of the server's tokens
    Margin,    \* refreshMargin
    Latency,   \* longest token request: the timeout of the HTTP client
    MaxTime,   \* bound of the clock
    MaxCalls   \* bound: calls that are started

\* refreshMargin is 60 s; the browser client of go-stealth times out after 20 s.
ASSUME ClockAssumption == Lifetime \in Nat /\ Margin \in Nat /\ Latency \in Nat
ASSUME MarginAssumption == Latency <= Margin /\ Margin < Lifetime
ASSUME TiersAssumption == Tiers \subseteq {"oauth", "cookie", "render"} /\ "oauth" \in Tiers
ASSUME CallBounds == IsFiniteSet(Callers) /\ MaxTime \in Nat /\ MaxCalls \in Nat

Tokens == 1..MaxCalls

VARIABLES
    now,        \* the clock
    cached,     \* the cached token
    expiresAt,  \* when the cache stops handing it out
    mu,         \* the caller that holds the mutex across a token request
    pc,         \* pc[c]: idle, token, refresh, get, invalidate, cookie, render
    tok,        \* tok[c]: the token of the call
    since,      \* when the pending token request was sent
    dies,       \* dies[t]: when the server stops accepting token t
    revoked,    \* tokens the server has withdrawn
    calls,      \* history: calls started
    issued,     \* history: tokens issued
    lapsed,     \* history: cached tokens that ran out
    dropped,    \* history: fresh tokens that Invalidate dropped
    denied      \* history: tokens that Invalidate was called for

vars == <<now, cached, expiresAt, mu, pc, tok, since, dies, revoked, calls, issued, lapsed, dropped, denied>>

\* The mutex is not held.
Free == "free"

ASSUME FreeAssumption == Free \notin Callers

Init ==
    /\ now = 0 /\ cached = 0 /\ expiresAt = 0
    /\ mu = Free
    /\ pc = [c \in Callers |-> "idle"]
    /\ tok = [c \in Callers |-> 0]
    /\ since = 0
    /\ dies = [t \in Tokens |-> 0]
    /\ revoked = {}
    /\ calls = 0 /\ issued = 0 /\ lapsed = 0 /\ dropped = 0
    /\ denied = {}

Goto(c, p) == pc' = [pc EXCEPT ![c] = p]

\* SearchOAuth returns, and its token with it.
Leave(c, p) == Goto(c, p) /\ tok' = [tok EXCEPT ![c] = 0]

\* Where a call that has not found anything goes on from each tier; cookie uses
\* the account of oauth, so invalid credentials skip it.
AfterOAuth == IF "cookie" \in Tiers THEN "cookie" ELSE IF "render" \in Tiers THEN "render" ELSE "idle"
AfterCookie == IF "render" \in Tiers THEN "render" ELSE "idle"

\* The rate limiter lets the call go on, or its context ends first and the call
\* returns nothing.
Start(c) ==
    /\ pc[c] = "idle"
    /\ calls < MaxCalls
    /\ calls' = calls + 1
    /\ Goto(c, "token") \/ UNCHANGED pc
    /\ UNCHANGED <<now, cached, expiresAt, mu, tok, since, dies, revoked, issued, lapsed, dropped, denied>>

-----------------------------------------------------------------------------
(* Token.                                                                  *)

Fresh == cached # 0 /\ now < expiresAt

\* The cached token is handed out.
TokenCached(c) ==
    /\ pc[c] = "token"
    /\ mu = Free
    /\ Fresh
    /\ tok' = [tok EXCEPT ![c] = cached]
    /\ Goto(c, "get")
    /\ UNCHANGED <<now, cached, expiresAt, mu, since, dies, revoked, calls, issued, lapsed, dropped, denied>>

\* Mutant: the mutex is not held across the request.
TokenRequestUnlocked(c) ==
    /\ pc[c] = "token"
    /\ mu = Free
    /\ ~Fresh
    /\ since' = now
    /\ Goto(c, "refresh")
    /\ UNCHANGED <<now, cached, expiresAt, mu, tok, dies, revoked, calls, issued, lapsed, dropped, denied>>

\* There is none: the token request leaves, with the mutex held.
TokenRequest(c) ==
    /\ pc[c] = "token"
    /\ mu = Free
    /\ ~Fresh
    /\ mu' = c
    /\ since' = now
    /\ Goto(c, "refresh")
    /\ UNCHANGED <<now, cached, expiresAt, tok, dies, revoked, calls, issued, lapsed, dropped, denied>>

\* Mutant: the token is cached for its whole lifetime.
WindowWithoutMargin == Lifetime

\* expires_in less the margin, at least one second.
Window == IF Lifetime - Margin < 1 THEN 1 ELSE Lifetime - Margin

\* The server has issued a token when it got the request; the cache counts its
\* window from the answer.  (There are Tokens enough: a call asks for one at most.)
TokenAnswer(c) ==
    /\ pc[c] = "refresh"
    /\ issued + 1 \in Tokens
    /\ since' = 0
    /\ issued' = issued + 1
    /\ dies' = [dies EXCEPT ![issued + 1] = since + Lifetime]
    /\ cached' = issued + 1
    /\ expiresAt' = now + Window
    /\ mu' = Free
    /\ tok' = [tok EXCEPT ![c] = issued + 1]
    /\ Goto(c, "get")
    /\ UNCHANGED <<now, revoked, calls, lapsed, dropped, denied>>

\* Mutant: the mutex is kept when the request fails.
TokenFailsLocked(c) ==
    /\ pc[c] = "refresh"
    /\ since' = 0
    /\ \/ Goto(c, AfterCookie) \/ Goto(c, AfterOAuth) \/ Goto(c, "idle")
    /\ UNCHANGED <<now, cached, expiresAt, mu, tok, dies, revoked, calls, issued, lapsed, dropped, denied>>

\* The request fails and the cache stays as it is: invalid credentials skip the
\* cookie tier, a 5xx goes on to it, any other error ends the call.
TokenFails(c) ==
    /\ pc[c] = "refresh"
    /\ since' = 0
    /\ mu' = Free
    /\ \/ Goto(c, AfterCookie) \/ Goto(c, AfterOAuth) \/ Goto(c, "idle")
    /\ UNCHANGED <<now, cached, expiresAt, tok, dies, revoked, calls, issued, lapsed, dropped, denied>>

-----------------------------------------------------------------------------
(* SearchOAuth with the token, and the tiers below.                        *)

Accepted(t) == now < dies[t] /\ t \notin revoked

\* The search ends without a 401: results or an error end the call; nothing found, a
\* rate limit or a 5xx escalate.  The errors occur with any token.
GetAnswer(c) ==
    /\ pc[c] = "get"
    /\ Leave(c, "idle") \/ Leave(c, AfterOAuth)
    /\ UNCHANGED <<now, cached, expiresAt, mu, since, dies, revoked, calls, issued, lapsed, dropped, denied>>

\* 401: the token is no longer accepted.
GetUnauthorized(c) ==
    /\ pc[c] = "get"
    /\ ~Accepted(tok[c])
    /\ Goto(c, "invalidate")
    /\ UNCHANGED <<now, cached, expiresAt, mu, tok, since, dies, revoked, calls, issued, lapsed, dropped, denied>>

\* Mutant: only a token that has run out is dropped.
InvalidateExpired(c) ==
    /\ pc[c] = "invalidate"
    /\ mu = Free
    /\ cached' = IF Fresh THEN cached ELSE 0
    /\ expiresAt' = IF Fresh THEN expiresAt ELSE 0
    /\ dropped' = dropped
    /\ denied' = denied \cup {tok[c]}
    /\ Leave(c, "idle")
    /\ UNCHANGED <<now, mu, since, dies, revoked, calls, issued, lapsed>>

\* Invalidate drops whatever token is cached by now; the call ends with an error.
Invalidate(c) ==
    /\ pc[c] = "invalidate"
    /\ mu = Free
    /\ cached' = 0
    /\ expiresAt' = 0
    /\ dropped' = dropped + (IF Fresh THEN 1 ELSE 0)
    /\ denied' = denied \cup {tok[c]}
    /\ Leave(c, "idle")
    /\ UNCHANGED <<now, mu, since, dies, revoked, calls, issued, lapsed>>

\* callTierFn: results or an error that is not escalatable end the call.
Cookie(c) ==
    /\ pc[c] = "cookie"
    /\ Goto(c, "idle") \/ Goto(c, AfterCookie)
    /\ UNCHANGED <<now, cached, expiresAt, mu, tok, since, dies, revoked, calls, issued, lapsed, dropped, denied>>

\* callTierFnFinal: whatever the render tier does, the call ends.
Render(c) ==
    /\ pc[c] = "render"
    /\ Goto(c, "idle")
    /\ UNCHANGED <<now, cached, expiresAt, mu, tok, since, dies, revoked, calls, issued, lapsed, dropped, denied>>

-----------------------------------------------------------------------------
(* The environment.                                                        *)

\* A pending token request is cut off by the client after Latency.
Tick ==
    /\ now < MaxTime
    /\ mu # Free => now < since + Latency
    /\ now' = now + 1
    /\ lapsed' = lapsed + IF cached # 0 /\ now' = expiresAt THEN 1 ELSE 0
    /\ UNCHANGED <<cached, expiresAt, mu, pc, tok, since, dies, revoked, calls, issued, dropped, denied>>

\* The server withdraws a token somebody still has.
Revoke(t) ==
    /\ t = cached \/ \E c \in Callers : t = tok[c]
    /\ t \notin revoked
    /\ revoked' = revoked \cup {t}
    /\ UNCHANGED <<now, cached, expiresAt, mu, pc, tok, since, dies, calls, issued, lapsed, dropped, denied>>

\* Nothing is left to do under the bounds.
BoundReached ==
    /\ \A c \in Callers : pc[c] = "idle"
    /\ calls = MaxCalls
    /\ UNCHANGED vars

Locking(c) == TokenCached(c) \/ TokenRequest(c) \/ Invalidate(c)

Step(c) ==
    \/ TokenAnswer(c) \/ TokenFails(c) \/ GetAnswer(c) \/ GetUnauthorized(c)
    \/ Cookie(c) \/ Render(c)

Next ==
    \/ \E c \in Callers : Start(c) \/ Locking(c) \/ Step(c)
    \/ Tick
    \/ \E t \in Tokens : Revoke(t)
    \/ BoundReached

\* Requests end by their client timeout.  sync.Mutex hands itself to a waiter
\* that has starved, so a call that keeps finding it free gets it at last.
Fairness == \A c \in Callers : WF_vars(Step(c)) /\ SF_vars(Locking(c))

Spec == Init /\ [][Next]_vars /\ Fairness

-----------------------------------------------------------------------------
TypeOK ==
    /\ now \in 0..MaxTime /\ expiresAt \in Nat /\ since \in 0..MaxTime
    /\ cached \in 0..issued
    /\ mu \in Callers \cup {Free}
    /\ pc \in [Callers -> {"idle", "token", "refresh", "get", "invalidate", "cookie", "render"}]
    /\ tok \in [Callers -> Nat]
    /\ \A c \in Callers : tok[c] <= issued /\ (tok[c] # 0 <=> pc[c] \in {"get", "invalidate"})
    /\ dies \in [Tokens -> Nat]
    /\ revoked \subseteq Tokens /\ denied \subseteq Tokens
    /\ calls \in 0..MaxCalls /\ issued \in 0..MaxCalls /\ lapsed \in Nat /\ dropped \in Nat

\* "single-flight semantics": however many calls find the cache empty or run out,
\* no token is requested while another is good.  Every token issued is the one in
\* the cache, or its window ended, or an Invalidate dropped it.
SingleFlight == issued = lapsed + dropped + IF Fresh THEN 1 ELSE 0

\* "a valid bearer token": the margin covers the time the token request took, so no
\* token is handed out that the server takes for expired.
HandedOutAlive ==
    [][\A c \in Callers : (pc[c] # "get" /\ pc'[c] = "get") => now < dies'[tok'[c]]]_vars

\* "invalidate so next call refreshes": a token the server has answered with 401
\* is never handed out again once Invalidate has returned.
DeniedNeverReused ==
    [][\A c \in Callers : (pc[c] # "get" /\ pc'[c] = "get") => tok'[c] \notin denied]_vars

\* Every call returns although the mutex is held across requests.
Terminates == \A c \in Callers : (pc[c] # "idle") ~> (pc[c] = "idle")
=============================================================================
