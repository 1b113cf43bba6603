-------------------------- MODULE MarginaliaBudget --------------------------
(***************************************************************************)
(* search.MarginaliaBudget and runMarginalia: concurrent callers draw on a *)
(* daily query budget kept in memory.  A grant, the request it is for and  *)
(* the repetition of that request through the fallback browser are         *)
(* separate steps (SearchDirect hands runMarginalia a dualBrowser):        *)
(* midnight, a restart or the end of the caller's context may come between *)
(* them.  The clock is a UTC day number.                                   *)
(***************************************************************************)
EXTENDS Integers, FiniteSets

CONSTANTS
    Callers,      \* goroutines that run runMarginalia
    Limit,        \* the daily limit
    MaxDay,       \* bound: last day of the behaviour
    MaxRestarts   \* bound: restarts of the process per day

Days == 1..MaxDay

ASSUME LimitAssumption == Limit \in Nat \ {0}
ASSUME BudgetBounds == MaxDay \in Nat \ {0} /\ MaxRestarts \in Nat
ASSUME CallersAssumption == IsFiniteSet(Callers)

VARIABLES
    today,     \* what the clock says
    day,       \* the window the counter belongs to
    spent,     \* calls granted in the window
    gauge,     \* marginalia_budget_remaining
    pc,        \* pc[c]: idle, granted with its request not sent yet, or asked
    restarts,  \* history: restarts[d], of the process on day d
    granted,   \* history: granted[d], calls granted on day d
    sent       \* history: sent[d], requests sent on day d

budgetVars == <<today, day, spent, gauge, pc, restarts, granted, sent>>

BudgetInit ==
    /\ today = 1
    /\ day = 1
    /\ spent = 0
    /\ gauge = Limit
    /\ pc = [c \in Callers |-> "idle"]
    /\ restarts = [d \in Days |-> 0]
    /\ granted = [d \in Days |-> 0]
    /\ sent = [d \in Days |-> 0]

\* Mutant: every call starts a window.
SpentTodayReset == 0

\* The rollover at the head of Acquire.
SpentToday == IF today # day THEN 0 ELSE spent

\* Mutant: the gauge is published before the counter is raised.
GrantPublishesFirst(c) ==
    /\ pc[c] = "idle"
    /\ SpentToday < Limit
    /\ day' = today
    /\ spent' = SpentToday + 1
    /\ gauge' = Limit - SpentToday
    /\ pc' = [pc EXCEPT ![c] = "granted"]
    /\ granted' = [granted EXCEPT ![today] = @ + 1]
    /\ UNCHANGED <<today, restarts, sent>>

\* Acquire permits the call.
Grant(c) ==
    /\ pc[c] = "idle"
    /\ SpentToday < Limit
    /\ day' = today
    /\ spent' = SpentToday + 1
    /\ gauge' = Limit - spent'
    /\ pc' = [pc EXCEPT ![c] = "granted"]
    /\ granted' = [granted EXCEPT ![today] = @ + 1]
    /\ UNCHANGED <<today, restarts, sent>>

\* Acquire answers false: the call sheds and no request is sent.
Shed(c) ==
    /\ pc[c] = "idle"
    /\ SpentToday >= Limit
    /\ day' = today
    /\ spent' = SpentToday
    /\ gauge' = Limit - spent'
    /\ UNCHANGED <<today, pc, restarts, granted, sent>>

\* searchMarginaliaDirect sends the request the grant was for, through the
\* primary of the dualBrowser.
Send(c) ==
    /\ pc[c] = "granted"
    /\ pc' = [pc EXCEPT ![c] = "asked"]
    /\ sent' = [sent EXCEPT ![today] = @ + 1]
    /\ UNCHANGED <<today, day, spent, gauge, restarts, granted>>

\* The primary's answer is taken, or there is no fallback.
Answered(c) ==
    /\ pc[c] = "asked"
    /\ pc' = [pc EXCEPT ![c] = "idle"]
    /\ UNCHANGED <<today, day, spent, gauge, restarts, granted, sent>>

\* Mutant: the fallback is asked as long as it fails.
FallbackRetried(c) ==
    /\ pc[c] = "asked"
    /\ sent' = [sent EXCEPT ![today] = @ + 1]
    /\ UNCHANGED <<today, day, spent, gauge, pc, restarts, granted>>

\* A transport error, a 402, a 407 or a 502 to 504 of the primary: dualBrowser
\* sends the request again, under the same grant and without asking the context.
Fallback(c) ==
    /\ pc[c] = "asked"
    /\ pc' = [pc EXCEPT ![c] = "idle"]
    /\ sent' = [sent EXCEPT ![today] = @ + 1]
    /\ UNCHANGED <<today, day, spent, gauge, restarts, granted>>

\* The context has ended: the grant stays spent, nothing is sent.
GiveUp(c) ==
    /\ pc[c] = "granted"
    /\ pc' = [pc EXCEPT ![c] = "idle"]
    /\ UNCHANGED <<today, day, spent, gauge, restarts, granted, sent>>

Midnight ==
    /\ today < MaxDay
    /\ today' = today + 1
    /\ UNCHANGED <<day, spent, gauge, pc, restarts, granted, sent>>

\* Mutant: the counter is reset and the window is not.
RestartKeepsDay ==
    /\ restarts[today] < MaxRestarts
    /\ spent' = 0
    /\ gauge' = Limit
    /\ pc' = [c \in Callers |-> "idle"]
    /\ restarts' = [restarts EXCEPT ![today] = @ + 1]
    /\ UNCHANGED <<today, day, granted, sent>>

\* The process dies with its calls; newMarginaliaBudget resets the window.
Restart ==
    /\ restarts[today] < MaxRestarts
    /\ day' = today
    /\ spent' = 0
    /\ gauge' = Limit
    /\ pc' = [c \in Callers |-> "idle"]
    /\ restarts' = [restarts EXCEPT ![today] = @ + 1]
    /\ UNCHANGED <<today, granted, sent>>

BudgetNext ==
    \/ \E c \in Callers :
          Grant(c) \/ Shed(c) \/ Send(c) \/ GiveUp(c) \/ Answered(c) \/ Fallback(c)
    \/ Midnight \/ Restart

BudgetSpec == BudgetInit /\ [][BudgetNext]_budgetVars

-----------------------------------------------------------------------------
BudgetTypeOK ==
    /\ today \in Days /\ day \in Days
    /\ spent \in 0..Limit
    /\ gauge \in 0..Limit
    /\ pc \in [Callers -> {"idle", "granted", "asked"}]
    /\ restarts \in [Days -> Nat]
    /\ granted \in [Days -> Nat]
    /\ sent \in [Days -> Nat]

\* "Worst-case daily spend = limit x (restarts+1)": what Acquire grants on a UTC
\* day stays within the limit for every process that ran on that day, although
\* the counter knows neither earlier windows nor earlier processes.
DailySpend == \A d \in Days : granted[d] <= Limit * (restarts[d] + 1)

\* The budget counts grants, and a grant is worth up to two requests (runMarginalia
\* through dualBrowser.Do).  What leaves on a day is at most two requests for
\* each grant of that day and for each caller whose requests midnight overtook.
DailyRequests ==
    \A d \in Days : sent[d] <= 2 * (granted[d] + Cardinality(Callers))

\* What makes DailySpend inductive: the counter accounts for all grants of its
\* window since the last restart, and nothing is granted before its day comes.
Window ==
    /\ day <= today
    /\ \A d \in Days : d > day => granted[d] = 0
    /\ granted[day] <= Limit * restarts[day] + spent

\* The gauge is published by Acquire and by a restart only, so after midnight it
\* still shows the day before; yet it never shows more than Acquire would grant.
GaugeNeverOverstates == gauge <= Limit - SpentToday

\* The inductive invariant of Acquire, the clock and restarts.
BudgetConsistent == BudgetTypeOK /\ Window /\ DailySpend /\ GaugeNeverOverstates
=============================================================================
