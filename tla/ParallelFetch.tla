--------------------------- MODULE ParallelFetch ---------------------------
(***************************************************************************)
(* pipeline.ParallelFetch: one goroutine per URL, a semaphore channel that *)
(* bounds how many of them fetch at a time, and one slot of the results    *)
(* slice per goroutine.  A fetch function that panics is recovered, and    *)
(* the deferred calls run in their order: recover, release, wg.Done.       *)
(***************************************************************************)
EXTENDS Integers, Sequences, FiniteSets

CONSTANTS
    URL,            \* the URLs that can be passed
    MaxURLs,        \* bound on the length of the urls slice
    MaxConcurrency, \* the option's argument; n <= 0 leaves the default
    DefaultConc     \* fetchConfig's initial maxConcurrency (10 in the code)

ASSUME ConcAssumption == MaxConcurrency \in Int /\ DefaultConc \in Nat \ {0}
ASSUME URLAssumption == MaxURLs \in Nat /\ "" \notin URL

VARIABLES
    urls,       \* the urls slice of the call
    worker,     \* worker[i]: where the goroutine of urls[i] is
    sem,        \* number of tokens in the semaphore channel
    results,    \* results[i]: the FetchResult in slot i
    returned    \* "no" before the call and while it runs, "yes" after wg.Wait

fetchVars == <<urls, worker, sem, results, returned>>

\* The zero FetchResult of make([]FetchResult, n).
Zero == [URL |-> "", Content |-> "", Err |-> "nil"]
FetchResult == [URL : URL \cup {""}, Content : URL \cup {""}, Err : {"nil", "err", "panic"}]

\* WithMaxConcurrency ignores n <= 0.
maxConcurrency == IF MaxConcurrency > 0 THEN MaxConcurrency ELSE DefaultConc

FetchInit ==
    /\ urls = <<>>
    /\ worker = <<>>
    /\ sem = 0
    /\ results = <<>>
    /\ returned = "no"

\* No URLs: nil at once.  Otherwise every goroutine is started before Wait.
ParallelFetch(us) ==
    /\ worker = <<>> /\ returned = "no"
    /\ urls' = us
    /\ worker' = [i \in 1..Len(us) |-> "queued"]
    /\ results' = [i \in 1..Len(us) |-> Zero]
    /\ returned' = IF us = <<>> THEN "yes" ELSE "no"
    /\ UNCHANGED sem

\* Mutant: the semaphore channel has one slot too many.
AcquireOneMore(i) ==
    /\ worker[i] = "queued" /\ sem <= maxConcurrency
    /\ sem' = sem + 1
    /\ worker' = [worker EXCEPT ![i] = "fetching"]
    /\ UNCHANGED <<urls, results, returned>>

\* sem <- struct{}{}: blocks while the channel is full, whatever ctx says.
Acquire(i) ==
    /\ worker[i] = "queued" /\ sem < maxConcurrency
    /\ sem' = sem + 1
    /\ worker' = [worker EXCEPT ![i] = "fetching"]
    /\ UNCHANGED <<urls, results, returned>>

Store(i, r) ==
    /\ results' = [results EXCEPT ![i] = r]
    /\ worker' = [worker EXCEPT ![i] = "stored"]
    /\ UNCHANGED <<urls, sem, returned>>

\* fetchFn returned: content (abstracted to the URL it was made from, or
\* nothing) and error are stored together, whichever they are.
Fetched(i, content, err) ==
    /\ worker[i] = "fetching"
    /\ Store(i, [URL |-> urls[i], Content |-> content, Err |-> err])

\* Mutant: recovered, and nothing is stored.
PanicsSilently(i) ==
    /\ worker[i] = "fetching"
    /\ worker' = [worker EXCEPT ![i] = "stored"]
    /\ UNCHANGED <<urls, sem, results, returned>>

\* fetchFn panicked: the deferred recover stores the error.
Panics(i) ==
    /\ worker[i] = "fetching"
    /\ Store(i, [URL |-> urls[i], Content |-> "", Err |-> "panic"])

\* Mutant: the token is kept.
ReleaseNothing(i) ==
    /\ worker[i] = "stored"
    /\ worker' = [worker EXCEPT ![i] = "released"]
    /\ UNCHANGED <<urls, sem, results, returned>>

\* defer <-sem.
Release(i) ==
    /\ worker[i] = "stored"
    /\ sem' = sem - 1
    /\ worker' = [worker EXCEPT ![i] = "released"]
    /\ UNCHANGED <<urls, results, returned>>

\* defer wg.Done().
WgDone(i) ==
    /\ worker[i] = "released"
    /\ worker' = [worker EXCEPT ![i] = "done"]
    /\ UNCHANGED <<urls, sem, results, returned>>

\* wg.Wait() and return.
FetchReturn ==
    /\ worker # <<>> /\ returned = "no"
    /\ \A i \in DOMAIN worker : worker[i] = "done"
    /\ returned' = "yes"
    /\ UNCHANGED <<urls, worker, sem, results>>

\* A goroutine's own step.
FetchStep(i) ==
    \/ Acquire(i)
    \/ \E content \in {"", urls[i]}, err \in {"nil", "err"} : Fetched(i, content, err)
    \/ Panics(i)
    \/ Release(i)
    \/ WgDone(i)

FetchNext ==
    \/ \E n \in 0..MaxURLs : \E us \in [1..n -> URL] : ParallelFetch(us)
    \/ \E i \in DOMAIN worker : FetchStep(i)
    \/ FetchReturn

FetchSpec == FetchInit /\ [][FetchNext]_fetchVars

-----------------------------------------------------------------------------
WorkerState == {"queued", "fetching", "stored", "released", "done"}

FetchTypeOK ==
    /\ urls \in Seq(URL)
    /\ worker \in [1..Len(urls) -> WorkerState]
    /\ results \in [1..Len(urls) -> FetchResult]
    /\ sem \in Nat
    /\ returned \in {"no", "yes"}

Holding == {i \in DOMAIN worker : worker[i] \in {"fetching", "stored"}}

\* Never more goroutines inside fetchFn than the semaphore has slots (the
\* bounded concurrency of the doc comment of ParallelFetch).
ConcurrencyBound == Cardinality({i \in DOMAIN worker : worker[i] = "fetching"}) <= maxConcurrency

\* Once ParallelFetch has returned every URL has a result of its own at its
\* own index, content included, also when its fetch panicked: the result in
\* slot i is never the zero value and never another URL's.
EveryURLAnswered ==
    returned = "yes" => \A i \in DOMAIN urls :
        /\ results[i].URL = urls[i]
        /\ results[i].Content \in {"", urls[i]}
        /\ results[i].Err = "panic" => results[i].Content = ""

\* The token count is the number of goroutines between acquire and release:
\* a panic neither leaks a token nor returns one twice.
TokensAccounted == sem = Cardinality(Holding)

\* What the callers of ParallelFetch rely on, panicking fetches included.
FetchSound == ConcurrencyBound /\ EveryURLAnswered /\ TokensAccounted
=============================================================================
