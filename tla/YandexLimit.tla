---------------------------- MODULE YandexLimit ----------------------------
(***************************************************************************)
(* websearch.yandexCheckLimit: a monthly request counter kept in two       *)
(* separate atomics, month and count.  Every atomic operation of a call is *)
(* a step of its own.  time.Month has no year: months are 1..12, and 0 is  *)
(* the zero value the atomics start with.                                  *)
(***************************************************************************)
EXTENDS Integers, FiniteSets

CONSTANTS
    Callers,   \* goroutines that run SearchYandexAPI
    Limit,     \* YandexConfig.MonthlyLimit, positive
    MaxMonth,  \* bound: last month of the behaviour
    MaxCalls   \* bound: calls that enter in one month

Months == 1..MaxMonth

ASSUME LimitAssumption == Limit \in Nat \ {0} /\ MaxCalls \in Nat \ {0}
ASSUME MonthAssumption == MaxMonth \in 1..12
ASSUME CallersAssumption == IsFiniteSet(Callers)

VARIABLES
    month, count,   \* yandexMonthlyCounter
    now,            \* the month of the clock
    pc,             \* pc[c]: the next atomic operation of the call
    currentMonth,   \* currentMonth[c]: the local variable
    stored,         \* stored[c]: the local variable
    entered,        \* history: entered[m], calls of month m
    admitted,       \* history: admitted[m], calls of month m that were let through
    overlap         \* history: whether two calls have ever been in progress at once

limitVars == <<month, count, now, pc, currentMonth, stored, entered, admitted, overlap>>

LimitInit ==
    /\ month = 0 /\ count = 0
    /\ now = 1
    /\ pc = [c \in Callers |-> "idle"]
    /\ currentMonth = [c \in Callers |-> 0]
    /\ stored = [c \in Callers |-> 0]
    /\ entered = [m \in Months |-> 0]
    /\ admitted = [m \in Months |-> 0]
    /\ overlap = FALSE

Goto(c, p) == pc' = [pc EXCEPT ![c] = p]

\* time.Now().Month()
Enter(c) ==
    /\ pc[c] = "idle"
    /\ entered[now] < MaxCalls
    /\ entered' = [entered EXCEPT ![now] = @ + 1]
    /\ currentMonth' = [currentMonth EXCEPT ![c] = now]
    /\ overlap' = (overlap \/ \E d \in Callers : pc[d] # "idle")
    /\ Goto(c, "load")
    /\ UNCHANGED <<month, count, now, stored, admitted>>

\* month.Load() and the test
Load(c) ==
    /\ pc[c] = "load"
    /\ stored' = [stored EXCEPT ![c] = month]
    /\ Goto(c, IF month # currentMonth[c] THEN "swap" ELSE "add")
    /\ UNCHANGED <<month, count, now, currentMonth, entered, admitted, overlap>>

\* Mutant: the month is never stored.
CompareAndSwapLost(c) ==
    /\ pc[c] = "swap"
    /\ Goto(c, "reset")
    /\ UNCHANGED <<month, count, now, currentMonth, stored, entered, admitted, overlap>>

\* month.CompareAndSwap(stored, currentMonth), whose result is not looked at
CompareAndSwap(c) ==
    /\ pc[c] = "swap"
    /\ month' = IF month = stored[c] THEN currentMonth[c] ELSE month
    /\ Goto(c, "reset")
    /\ UNCHANGED <<count, now, currentMonth, stored, entered, admitted, overlap>>

\* Mutant: the counter is carried over into the new month.
ResetForgotten(c) ==
    /\ pc[c] = "reset"
    /\ Goto(c, "add")
    /\ UNCHANGED <<month, count, now, currentMonth, stored, entered, admitted, overlap>>

\* count.Store(0), by the winner of the swap and by the losers
Reset(c) ==
    /\ pc[c] = "reset"
    /\ count' = 0
    /\ Goto(c, "add")
    /\ UNCHANGED <<month, now, currentMonth, stored, entered, admitted, overlap>>

\* Mutant: off by one.
WithinOneMore(n) == n <= Limit + 1

\* count.Add(1) <= int64(limit)
Within(n) == n <= Limit

\* count.Add(1) <= limit; a call that is let through sends its request.
Add(c) ==
    /\ pc[c] = "add"
    /\ count' = count + 1
    /\ admitted' = IF Within(count + 1)
                   THEN [admitted EXCEPT ![currentMonth[c]] = @ + 1] ELSE admitted
    /\ Goto(c, "idle")
    /\ UNCHANGED <<month, now, currentMonth, stored, entered, overlap>>

NewMonth ==
    /\ now < MaxMonth
    /\ now' = now + 1
    /\ UNCHANGED <<month, count, pc, currentMonth, stored, entered, admitted, overlap>>

\* Nothing is left to do under the bounds.
BoundReached ==
    /\ \A c \in Callers : pc[c] = "idle"
    /\ now = MaxMonth /\ entered[now] = MaxCalls
    /\ UNCHANGED limitVars

LimitNext ==
    \/ \E c \in Callers : Enter(c) \/ Load(c) \/ CompareAndSwap(c) \/ Reset(c) \/ Add(c)
    \/ NewMonth \/ BoundReached

LimitSpec == LimitInit /\ [][LimitNext]_limitVars

-----------------------------------------------------------------------------
LimitTypeOK ==
    /\ month \in 0..MaxMonth /\ count \in Nat /\ now \in Months
    /\ pc \in [Callers -> {"idle", "load", "swap", "reset", "add"}]
    /\ currentMonth \in [Callers -> 0..MaxMonth]
    /\ stored \in [Callers -> 0..MaxMonth]
    /\ entered \in [Months -> Nat] /\ admitted \in [Months -> Nat]
    /\ overlap \in BOOLEAN

\* "max requests per calendar month".
MonthlyLimit == \A m \in Months : admitted[m] <= Limit

\* The monthly limit holds as long as no two calls overlap, over any number of
\* month changes, also those that come in the middle of a call.
SequentialLimit == ~overlap => MonthlyLimit

\* In the first month of the process the race of the resets costs at most one
\* extra allowance per overlapping call: only the calls that read the old month
\* before the first swap reset the counter.
OvershootBounded == now = 1 => admitted[1] <= Limit * Cardinality(Callers)

\* A call is refused only when the allowance of its month is really used up: as
\* long as no two calls overlap none is charged for an earlier month.
NeverShort ==
    [][\A c \in Callers :
          (~overlap /\ pc[c] = "add" /\ pc'[c] = "idle" /\ admitted' = admitted)
              => admitted[currentMonth[c]] >= Limit]_limitVars

\* What yandexCheckLimit keeps of the monthly allowance, without overlapping
\* calls and with them.
Allowance == [](SequentialLimit /\ OvershootBounded) /\ NeverShort
=============================================================================
