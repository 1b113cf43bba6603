-------------------------- MODULE Pipeline_proofs --------------------------
(***************************************************************************)
(* Proofs about ParallelFetch, for every set of URLs, every number of them *)
(* and every concurrency option, and about Pipeline, for every set of      *)
(* sources, hung or not, every set of answers and every threshold.         *)
(***************************************************************************)
EXTENDS Pipeline, FiniteSetTheorems, WellFoundedInduction, TLAPS

\* Slot i holds the result of urls[i].
Answered(i) ==
    /\ results[i].URL = urls[i]
    /\ results[i].Content \in {"", urls[i]}
    /\ results[i].Err = "panic" => results[i].Content = ""

\* The inductive invariant: a goroutine past its fetch has stored its result,
\* the tokens are the goroutines between acquire and release, and the call
\* has returned only if every goroutine is done.
FetchInv ==
    /\ FetchTypeOK
    /\ TokensAccounted
    /\ sem <= maxConcurrency
    /\ \A i \in DOMAIN worker : worker[i] \in {"stored", "released", "done"} => Answered(i)
    /\ returned = "yes" => \A i \in DOMAIN worker : worker[i] = "done"

\* The semaphore has at least one slot whatever the option says.
LEMMA ConcPositive == maxConcurrency \in Nat \ {0}
BY ConcAssumption DEF maxConcurrency

\* The goroutines that hold a token are finitely many.
LEMMA HoldingFinite == ASSUME FetchTypeOK PROVE IsFiniteSet(Holding)
<1>1. IsFiniteSet(1..Len(urls))
  BY FS_Interval DEF FetchTypeOK
<1>2. Holding \subseteq 1..Len(urls)
  BY DEF FetchTypeOK, Holding
<1> QED BY <1>1, <1>2, FS_Subset

LEMMA CountNat == ASSUME NEW n \in 0..MaxURLs PROVE n \in Nat
<1>1. MaxURLs \in Nat
  BY URLAssumption
<1> QED BY <1>1

\* One goroutine per URL.
LEMMA WorkerPerURL ==
  ASSUME FetchTypeOK
  PROVE  DOMAIN worker = DOMAIN urls /\ \A i \in DOMAIN worker : urls[i] \in URL
BY DEF FetchTypeOK

\* The state before the call.
LEMMA FetchInitInv == FetchInit => FetchInv
<1> SUFFICES ASSUME FetchInit PROVE FetchInv
  OBVIOUS
<1>1. FetchTypeOK
  BY DEF FetchInit, FetchTypeOK
<1>2. Holding = {}
  BY DEF FetchInit, Holding
<1> QED BY <1>1, <1>2, FS_EmptySet, ConcPositive DEF FetchInv, FetchInit, TokensAccounted

\* The call starts.
LEMMA FetchStartPreserves ==
  ASSUME FetchInv, NEW n \in Nat, NEW us \in [1..n -> URL], ParallelFetch(us)
  PROVE  FetchInv'
<1>1. us \in Seq(URL) /\ Len(us) = n
  OBVIOUS
<1>2. FetchTypeOK'
  BY <1>1, URLAssumption DEF FetchInv, FetchTypeOK, ParallelFetch, WorkerState, FetchResult, Zero
<1>3. Holding = {} /\ Holding' = {}
  BY DEF ParallelFetch, Holding
<1> QED BY <1>1, <1>2, <1>3 DEF FetchInv, ParallelFetch, TokensAccounted, maxConcurrency

\* A token is taken only while one is free.
LEMMA AcquirePreserves ==
  ASSUME FetchInv, NEW i \in DOMAIN worker, Acquire(i)
  PROVE  FetchInv'
<1>1. FetchTypeOK'
  BY DEF FetchInv, FetchTypeOK, Acquire, WorkerState
<1>2. Holding' = Holding \cup {i} /\ i \notin Holding
  BY DEF FetchInv, FetchTypeOK, Acquire, Holding
<1>3. Cardinality(Holding') = Cardinality(Holding) + 1
  BY <1>2, HoldingFinite, FS_AddElement DEF FetchInv
<1>4. sem' <= maxConcurrency /\ sem' = Cardinality(Holding')
  BY <1>3, ConcPositive DEF FetchInv, FetchTypeOK, Acquire, TokensAccounted
<1>5. \A j \in DOMAIN worker' : worker'[j] \in {"stored", "released", "done"} => Answered(j)'
  BY DEF FetchInv, FetchTypeOK, Acquire, Answered
<1>6. returned' = "yes" => \A j \in DOMAIN worker' : worker'[j] = "done"
  BY DEF FetchInv, FetchTypeOK, Acquire
<1> QED BY <1>1, <1>4, <1>5, <1>6 DEF FetchInv, TokensAccounted, maxConcurrency

\* fetchFn returned or panicked: either stores a result for its own URL.
LEMMA StorePreserves ==
  ASSUME FetchInv, NEW i \in DOMAIN worker, worker[i] = "fetching",
         NEW r \in FetchResult, Store(i, r), r.URL = urls[i], r.Content \in {"", urls[i]},
         r.Err = "panic" => r.Content = ""
  PROVE  FetchInv'
<1>1. FetchTypeOK'
  BY DEF FetchInv, FetchTypeOK, Store, WorkerState
<1>2. Holding' = Holding
  BY DEF FetchInv, FetchTypeOK, Store, Holding
<1>3. \A j \in DOMAIN worker' : worker'[j] \in {"stored", "released", "done"} => Answered(j)'
  BY DEF FetchInv, FetchTypeOK, Store, Answered
<1>4. returned' = "yes" => \A j \in DOMAIN worker' : worker'[j] = "done"
  BY DEF FetchInv, FetchTypeOK, Store
<1> QED BY <1>1, <1>2, <1>3, <1>4 DEF FetchInv, Store, TokensAccounted, maxConcurrency

\* The deferred release gives back the goroutine's own token.
LEMMA ReleasePreserves ==
  ASSUME FetchInv, NEW i \in DOMAIN worker, Release(i)
  PROVE  FetchInv'
<1>1. i \in Holding /\ Holding' = Holding \ {i}
  BY DEF FetchInv, FetchTypeOK, Release, Holding
<1>2. Cardinality(Holding') = Cardinality(Holding) - 1 /\ IsFiniteSet(Holding')
  BY <1>1, HoldingFinite, FS_RemoveElement DEF FetchInv
<1>3. Cardinality(Holding') \in Nat /\ sem' = Cardinality(Holding')
  BY <1>2, FS_CardinalityType DEF FetchInv, TokensAccounted, Release
<1>4. FetchTypeOK'
  BY <1>3 DEF FetchInv, FetchTypeOK, Release, WorkerState
<1>5. sem' <= maxConcurrency
  BY ConcPositive DEF FetchInv, FetchTypeOK, Release
<1>6. \A j \in DOMAIN worker' : worker'[j] \in {"stored", "released", "done"} => Answered(j)'
  BY DEF FetchInv, FetchTypeOK, Release, Answered
<1>7. returned' = "yes" => \A j \in DOMAIN worker' : worker'[j] = "done"
  BY DEF FetchInv, FetchTypeOK, Release
<1> QED BY <1>3, <1>4, <1>5, <1>6, <1>7 DEF FetchInv, TokensAccounted, maxConcurrency

\* The deferred wg.Done comes after the result and the release.
LEMMA DonePreserves ==
  ASSUME FetchInv, NEW i \in DOMAIN worker, WgDone(i)
  PROVE  FetchInv'
<1>1. FetchTypeOK'
  BY DEF FetchInv, FetchTypeOK, WgDone, WorkerState
<1>2. Holding' = Holding
  BY DEF FetchInv, FetchTypeOK, WgDone, Holding
<1>3. \A j \in DOMAIN worker' : worker'[j] \in {"stored", "released", "done"} => Answered(j)'
  BY DEF FetchInv, FetchTypeOK, WgDone, Answered
<1>4. returned' = "yes" => \A j \in DOMAIN worker' : worker'[j] = "done"
  BY DEF FetchInv, FetchTypeOK, WgDone
<1> QED BY <1>1, <1>2, <1>3, <1>4 DEF FetchInv, WgDone, TokensAccounted, maxConcurrency

\* wg.Wait lets the call return only after every goroutine is done.
LEMMA ReturnPreserves ==
  ASSUME FetchInv, FetchReturn
  PROVE  FetchInv'
<1>1. FetchTypeOK' /\ Holding' = Holding
  BY DEF FetchInv, FetchTypeOK, FetchReturn, Holding
<1> QED BY <1>1 DEF FetchInv, FetchReturn, Answered, TokensAccounted, maxConcurrency

LEMMA FetchStepPreserves ==
  ASSUME FetchInv, NEW i \in DOMAIN worker, FetchStep(i)
  PROVE  FetchInv'
<1>1. CASE Acquire(i)
  BY <1>1, AcquirePreserves
<1>2. ASSUME NEW content \in {"", urls[i]}, NEW err \in {"nil", "err"}, Fetched(i, content, err)
      PROVE  FetchInv'
  <2> DEFINE r == [URL |-> urls[i], Content |-> content, Err |-> err]
  <2>1. urls[i] \in URL
    BY WorkerPerURL DEF FetchInv
  <2>2. r \in FetchResult
    BY <2>1 DEF FetchResult
  <2>3. worker[i] = "fetching" /\ Store(i, r)
    BY <1>2 DEF Fetched
  <2> QED BY <2>2, <2>3, StorePreserves
<1>3. CASE Panics(i)
  <2> DEFINE r == [URL |-> urls[i], Content |-> "", Err |-> "panic"]
  <2>1. urls[i] \in URL
    BY WorkerPerURL DEF FetchInv
  <2>2. r \in FetchResult
    BY <2>1 DEF FetchResult
  <2>3. worker[i] = "fetching" /\ Store(i, r)
    BY <1>3 DEF Panics
  <2> QED BY <2>2, <2>3, StorePreserves
<1>4. CASE Release(i)
  BY <1>4, ReleasePreserves
<1>5. CASE WgDone(i)
  BY <1>5, DonePreserves
<1> QED BY <1>1, <1>2, <1>3, <1>4, <1>5 DEF FetchStep

LEMMA FetchNextInv == FetchInv /\ [FetchNext]_fetchVars => FetchInv'
<1> SUFFICES ASSUME FetchInv, [FetchNext]_fetchVars PROVE FetchInv'
  OBVIOUS
<1>1. ASSUME NEW n \in 0..MaxURLs, NEW us \in [1..n -> URL], ParallelFetch(us)
      PROVE  FetchInv'
  <2>1. n \in Nat
    BY CountNat
  <2> QED BY <1>1, <2>1, FetchStartPreserves
<1>2. ASSUME NEW i \in DOMAIN worker, FetchStep(i)
      PROVE  FetchInv'
  BY <1>2, FetchStepPreserves
<1>3. CASE FetchReturn
  BY <1>3, ReturnPreserves
<1>4. CASE UNCHANGED fetchVars
  BY <1>4 DEF FetchInv, fetchVars, FetchTypeOK, TokensAccounted, Holding, Answered, maxConcurrency
<1> QED BY <1>1, <1>2, <1>3, <1>4 DEF FetchNext

\* The fetching goroutines hold tokens, of which there are at most
\* maxConcurrency; and a call that has returned has every goroutine done.
LEMMA FetchInvImplies == FetchInv => ConcurrencyBound /\ EveryURLAnswered /\ TokensAccounted
<1> SUFFICES ASSUME FetchInv PROVE ConcurrencyBound /\ EveryURLAnswered /\ TokensAccounted
  OBVIOUS
<1> DEFINE F == {i \in DOMAIN worker : worker[i] = "fetching"}
<1>1. IsFiniteSet(Holding) /\ F \subseteq Holding
  BY HoldingFinite DEF FetchInv, Holding
<1>2. Cardinality(F) <= Cardinality(Holding) /\ Cardinality(F) \in Nat
  BY <1>1, FS_Subset, FS_CardinalityType
<1>3. ConcurrencyBound
  BY <1>2, ConcPositive DEF FetchInv, FetchTypeOK, TokensAccounted, ConcurrencyBound
<1>4. EveryURLAnswered
  <2> SUFFICES ASSUME returned = "yes", NEW i \in DOMAIN urls PROVE Answered(i)
    BY DEF EveryURLAnswered, Answered
  <2> QED BY WorkerPerURL DEF FetchInv
<1> QED BY <1>3, <1>4 DEF FetchInv

\* ParallelFetch keeps its promises for every list of URLs and every option:
\* at most maxConcurrency fetches at a time, no token leaked or returned twice,
\* and a result for every URL at its own index, panics included.
THEOREM FetchCorrect == FetchSpec => []FetchSound
BY FetchInitInv, FetchNextInv, FetchInvImplies, PTL DEF FetchSpec, FetchSound

-----------------------------------------------------------------------------
Page == URL \cup {""}
Msg == [name : Sources, res : Seq(Page), err : BOOLEAN]

\* The result comes from an answer without error of source s.
From(s, res) == \E a \in Answers[s] : ~a.err /\ a.res = res

SearchType ==
    /\ inner \in [Sources -> {"none", "searching", "exited"}]
    /\ outer \in [Sources -> {"none", "select", "sent", "exited"}]
    /\ srcCtx \in [Sources -> {"live", "DeadlineExceeded", "Canceled"}]
    /\ \A s \in Sources : done[s] \in Seq(Answers[s])
    /\ done = [s \in Sources |-> done[s]]
    /\ ch \in Seq(Msg)
    /\ closed \in BOOLEAN
    /\ all \in Seq(Page)
    /\ counted \in [Sources -> {"none", "ok", "fail"}]

\* A source's message: in no hands, in the channel, or counted, never twice.
InChannel ==
    \A i \in 1..Len(ch) :
        /\ outer[ch[i].name] \in {"sent", "exited"}
        /\ counted[ch[i].name] = "none"
        /\ ~ch[i].err => From(ch[i].name, ch[i].res)
MessageOnce ==
    /\ InChannel
    /\ \A i, j \in 1..Len(ch) : ch[i].name = ch[j].name => i = j
    /\ \A s \in Sources : outer[s] \in {"none", "select"} => counted[s] = "none"
    /\ \A s \in Sources : outer[s] \in {"sent", "exited"} =>
        counted[s] # "none" \/ \E i \in 1..Len(ch) : ch[i].name = s

\* What is collected comes from the sources counted ok.
Provenance ==
    \A i \in 1..Len(all) : \E s \in Sources :
        counted[s] = "ok" /\ \E a \in Answers[s] : ~a.err /\ all[i] \in Range(a.res)

PhaseOK ==
    /\ phase = "start" => ch = <<>> /\ ~closed /\ all = <<>> /\ \A s \in Sources : outer[s] = "none"
    /\ phase \notin {"start", "collect"} => ch = <<>> /\ \A s \in Sources : outer[s] = "exited"
    /\ NoSendAfterClose

SearchInv == SearchType /\ MessageOnce /\ Provenance /\ PhaseOK /\ EarlyReturnReachesAll

\* Appending one message and taking the first one off, element by element.
LEMMA AppendFacts ==
  ASSUME NEW S, NEW q \in Seq(S), NEW e \in S
  PROVE  /\ Append(q, e) \in Seq(S)
         /\ Len(Append(q, e)) = Len(q) + 1
         /\ \A i \in 1..Len(q) : Append(q, e)[i] = q[i]
         /\ Append(q, e)[Len(q) + 1] = e
OBVIOUS

LEMMA TailFacts ==
  ASSUME NEW S, NEW q \in Seq(S), q # <<>>
  PROVE  /\ Head(q) \in S /\ Head(q) = q[1] /\ Len(q) \in Nat \ {0}
         /\ Tail(q) \in Seq(S)
         /\ Len(Tail(q)) = Len(q) - 1
         /\ \A i \in 1..(Len(q) - 1) : Tail(q)[i] = q[i + 1]
OBVIOUS

LEMMA SearchInitInv == Init => SearchInv
<1> SUFFICES ASSUME Init PROVE SearchInv
  OBVIOUS
<1>1. /\ \A s \in Sources : done[s] \in Seq(Answers[s])
      /\ done = [s \in Sources |-> done[s]]
  BY DEF Init
<1>2. ch \in Seq(Msg) /\ all \in Seq(Page)
  BY DEF Init
<1>3. closed \in BOOLEAN
  BY Zenon DEF Init
<1>4. SearchType
  BY <1>1, <1>2, <1>3 DEF Init, SearchType
<1>5. ch = <<>> /\ all = <<>>
  BY DEF Init
<1>6. MessageOnce
  BY <1>5 DEF Init, MessageOnce, InChannel
<1>7. Provenance
  BY <1>5 DEF Provenance
<1>8. PhaseOK /\ EarlyReturnReachesAll
  BY EarlyAssumption DEF Init, PhaseOK, NoSendAfterClose, EarlyReturnReachesAll
<1> QED BY <1>4, <1>6, <1>7, <1>8 DEF SearchInv

\* The fan-out starts.
LEMMA StartPreserves == ASSUME SearchInv, SearchSources PROVE SearchInv'
<1>1. SearchType'
  BY DEF SearchInv, SearchType, SearchSources
<1>2. ch = <<>> /\ all = <<>> /\ ~closed
  BY DEF SearchInv, PhaseOK, SearchSources
<1>3. MessageOnce' /\ Provenance'
  BY <1>2 DEF SearchInv, SearchType, MessageOnce, InChannel, Provenance, PhaseOK, SearchSources
<1>4. PhaseOK' /\ EarlyReturnReachesAll'
  BY <1>2 DEF SearchInv, PhaseOK, NoSendAfterClose, EarlyReturnReachesAll, SearchSources
<1> QED BY <1>1, <1>3, <1>4 DEF SearchInv

\* An answer enters done, whatever the outer goroutine did meanwhile.
LEMMA ReturnsPreserves == ASSUME SearchInv, NEW s \in Sources, SearchReturns(s) PROVE SearchInv'
<1>1. PICK a \in Answers[s] : done' = [done EXCEPT ![s] = Append(@, a)]
  BY DEF SearchReturns
<1>2. done'[s] \in Seq(Answers[s]) /\ \A t \in Sources : done'[t] \in Seq(Answers[t])
  BY <1>1, AppendFacts DEF SearchInv, SearchType
<1>3. SearchType'
  BY <1>1, <1>2 DEF SearchInv, SearchType, SearchReturns
<1>4. MessageOnce' /\ Provenance' /\ PhaseOK' /\ EarlyReturnReachesAll'
  BY DEF SearchInv, MessageOnce, InChannel, Provenance, PhaseOK, NoSendAfterClose, EarlyReturnReachesAll, SearchReturns
<1> QED BY <1>3, <1>4 DEF SearchInv

\* A source's only message: its own answer, or an error without results.
LEMMA SendPreserves ==
  ASSUME SearchInv, NEW s \in Sources, outer[s] = "select", NEW a, Send(s, a),
         a.res \in Seq(Page), a.err \in BOOLEAN, ~a.err => From(s, a.res),
         \A t \in Sources : done'[t] \in Seq(Answers[t]), done' = [t \in Sources |-> done'[t]]
  PROVE  SearchInv'
<1> DEFINE m == [name |-> s, res |-> a.res, err |-> a.err]
<1>1. m \in Msg /\ ch' = Append(ch, m)
  BY DEF Msg, Send
<1>2. /\ ch' \in Seq(Msg)
      /\ Len(ch') = Len(ch) + 1 /\ Len(ch) \in Nat
      /\ \A i \in 1..Len(ch) : ch'[i] = ch[i]
      /\ ch'[Len(ch) + 1] = m
  BY <1>1, AppendFacts DEF SearchInv, SearchType
<1>3. outer' = [outer EXCEPT ![s] = "sent"] /\ counted' = counted
  BY DEF Send
<1>4. SearchType'
  BY <1>2, <1>3 DEF SearchInv, SearchType, Send
<1>5. counted[s] = "none" /\ \A i \in 1..Len(ch) : ch[i].name # s
  BY DEF SearchInv, MessageOnce, InChannel
<1>6. MessageOnce'
  <2>1. InChannel'
    <3> SUFFICES ASSUME NEW i \in 1..Len(ch')
                 PROVE  /\ outer'[ch'[i].name] \in {"sent", "exited"}
                        /\ counted'[ch'[i].name] = "none"
                        /\ ~ch'[i].err => From(ch'[i].name, ch'[i].res)
      BY DEF InChannel
    <3>1. CASE i \in 1..Len(ch)
      BY <3>1, <1>2, <1>3 DEF SearchInv, MessageOnce, InChannel, SearchType
    <3>2. CASE i = Len(ch) + 1
      BY <3>2, <1>2, <1>3, <1>5 DEF SearchInv, SearchType
    <3> QED BY <1>2, <3>1, <3>2
  <2>2. \A i, j \in 1..Len(ch') : ch'[i].name = ch'[j].name => i = j
    BY <1>2, <1>5 DEF SearchInv, MessageOnce, InChannel
  <2>3. \A t \in Sources : outer'[t] \in {"none", "select"} => counted'[t] = "none"
    BY <1>3 DEF SearchInv, MessageOnce, InChannel, SearchType
  <2>4. \A t \in Sources : outer'[t] \in {"sent", "exited"} =>
            counted'[t] # "none" \/ \E i \in 1..Len(ch') : ch'[i].name = t
    <3> SUFFICES ASSUME NEW t \in Sources, outer'[t] \in {"sent", "exited"}, counted'[t] = "none"
                 PROVE  \E i \in 1..Len(ch') : ch'[i].name = t
      OBVIOUS
    <3>1. CASE t = s
      BY <3>1, <1>2
    <3>2. CASE t # s
      <4>1. PICK i \in 1..Len(ch) : ch[i].name = t
        BY <3>2, <1>3 DEF SearchInv, MessageOnce, InChannel, SearchType
      <4> QED BY <4>1, <1>2
    <3> QED BY <3>1, <3>2
  <2> QED BY <2>1, <2>2, <2>3, <2>4 DEF MessageOnce
<1>7. Provenance' /\ EarlyReturnReachesAll'
  BY DEF SearchInv, Provenance, EarlyReturnReachesAll, Send
<1>8. PhaseOK'
  BY <1>3 DEF SearchInv, PhaseOK, NoSendAfterClose, Send
<1> QED BY <1>4, <1>6, <1>7, <1>8 DEF SearchInv

LEMMA SelectDonePreserves == ASSUME SearchInv, NEW s \in Sources, SelectDone(s) PROVE SearchInv'
<1> DEFINE a == Head(done[s])
<1>1. done[s] \in Seq(Answers[s]) /\ done[s] # <<>>
  BY DEF SearchInv, SearchType, SelectDone
<1>2. a \in Answers[s] /\ Tail(done[s]) \in Seq(Answers[s])
  BY <1>1, TailFacts
<1>3. a.res \in Seq(Page) /\ a.err \in BOOLEAN
  BY <1>2, SourcesAssumption DEF Page
<1>4. ~a.err => From(s, a.res)
  BY <1>2 DEF From
<1>5. done' = [done EXCEPT ![s] = Tail(@)]
  BY DEF SelectDone
<1>6. \A t \in Sources : done'[t] \in Seq(Answers[t])
  BY <1>2, <1>5 DEF SearchInv, SearchType
<1>7. done' = [t \in Sources |-> done'[t]]
  BY <1>5 DEF SearchInv, SearchType
<1>8. outer[s] = "select" /\ Send(s, a)
  BY DEF SelectDone
<1> HIDE DEF a
<1> QED BY <1>3, <1>4, <1>6, <1>7, <1>8, SendPreserves

LEMMA SelectCtxPreserves == ASSUME SearchInv, NEW s \in Sources, SelectCtx(s) PROVE SearchInv'
<1> DEFINE a == [res |-> <<>>, err |-> TRUE]
<1>1. a.res \in Seq(Page) /\ a.err \in BOOLEAN /\ a.err
  OBVIOUS
<1>2. \A t \in Sources : done'[t] \in Seq(Answers[t])
  BY DEF SearchInv, SearchType, SelectCtx
<1>3. done' = [t \in Sources |-> done'[t]]
  BY DEF SearchInv, SearchType, SelectCtx
<1>4. outer[s] = "select" /\ Send(s, a)
  BY DEF SelectCtx
<1> HIDE DEF a
<1> QED BY <1>1, <1>2, <1>3, <1>4, SendPreserves

\* The deferred calls, the timers and the caller only end contexts and goroutines.
LEMMA OuterExitsPreserves == ASSUME SearchInv, NEW s \in Sources, OuterExits(s) PROVE SearchInv'
<1>1. SearchType'
  BY DEF SearchInv, SearchType, OuterExits
<1>2. MessageOnce'
  BY DEF SearchInv, SearchType, MessageOnce, InChannel, OuterExits, From
<1>3. Provenance' /\ PhaseOK' /\ EarlyReturnReachesAll'
  BY DEF SearchInv, SearchType, Provenance, PhaseOK, NoSendAfterClose, EarlyReturnReachesAll, OuterExits
<1> QED BY <1>1, <1>2, <1>3 DEF SearchInv

LEMMA TimeoutPreserves == ASSUME SearchInv, NEW s \in Sources, PerSourceTimeout(s) PROVE SearchInv'
<1>1. SearchType'
  BY DEF SearchInv, SearchType, PerSourceTimeout
<1>2. MessageOnce' /\ Provenance' /\ PhaseOK' /\ EarlyReturnReachesAll'
  BY DEF SearchInv, SearchType, MessageOnce, InChannel, Provenance, PhaseOK, NoSendAfterClose,
         EarlyReturnReachesAll, PerSourceTimeout, From
<1> QED BY <1>1, <1>2 DEF SearchInv

LEMMA CallerPreserves == ASSUME SearchInv, CallerCancels PROVE SearchInv'
<1>1. SearchType'
  BY DEF SearchInv, SearchType, CallerCancels, EndSources
<1>2. MessageOnce' /\ Provenance' /\ PhaseOK' /\ EarlyReturnReachesAll'
  BY DEF SearchInv, SearchType, MessageOnce, InChannel, Provenance, PhaseOK, NoSendAfterClose,
         EarlyReturnReachesAll, CallerCancels, EndSources, From
<1> QED BY <1>1, <1>2 DEF SearchInv

LEMMA ClosePreserves == ASSUME SearchInv, Close PROVE SearchInv'
<1>1. SearchType'
  BY DEF SearchInv, SearchType, Close
<1>2. MessageOnce' /\ Provenance' /\ PhaseOK' /\ EarlyReturnReachesAll'
  BY DEF SearchInv, MessageOnce, InChannel, Provenance, PhaseOK, NoSendAfterClose,
         EarlyReturnReachesAll, Close, From
<1> QED BY <1>1, <1>2 DEF SearchInv

\* Closed and drained: every source has been counted.
LEMMA CollectEndPreserves == ASSUME SearchInv, CollectEnd PROVE SearchInv'
<1>1. SearchType'
  BY DEF SearchInv, SearchType, CollectEnd, searchVars
<1>2. MessageOnce' /\ Provenance' /\ PhaseOK' /\ EarlyReturnReachesAll'
  BY DEF SearchInv, MessageOnce, InChannel, Provenance, PhaseOK, NoSendAfterClose,
         EarlyReturnReachesAll, CollectEnd, searchVars, From
<1> QED BY <1>1, <1>2 DEF SearchInv

\* One message is counted: its results are taken over only without an error,
\* and enough results end every context.
LEMMA CollectPreserves == ASSUME SearchInv, Collect PROVE SearchInv'
<1> DEFINE r == Head(ch)
<1>1. /\ r \in Msg /\ r = ch[1] /\ Len(ch) \in Nat \ {0}
      /\ ch' = Tail(ch) /\ ch' \in Seq(Msg) /\ Len(ch') = Len(ch) - 1
      /\ \A i \in 1..(Len(ch) - 1) : ch'[i] = ch[i + 1]
  BY TailFacts DEF SearchInv, SearchType, Collect
<1>2. /\ counted' = [counted EXCEPT ![r.name] = IF r.err THEN "fail" ELSE "ok"]
      /\ all' = IF r.err THEN all ELSE all \o r.res
      /\ IF ~r.err /\ Len(all') >= EarlyReturnAt THEN EndSources("Canceled") ELSE UNCHANGED srcCtx
      /\ UNCHANGED <<phase, inner, outer, done, closed>>
  BY DEF Collect
<1>3. r.name \in Sources /\ r.res \in Seq(Page) /\ r.err \in BOOLEAN
  BY <1>1 DEF Msg
<1>4. /\ outer[r.name] \in {"sent", "exited"} /\ counted[r.name] = "none"
      /\ ~r.err => From(r.name, r.res)
      /\ \A i \in 2..Len(ch) : ch[i].name # r.name
  BY <1>1 DEF SearchInv, MessageOnce, InChannel
<1> HIDE DEF r
<1>5. all \in Seq(Page) /\ all' \in Seq(Page)
  BY <1>2, <1>3 DEF SearchInv, SearchType
<1>6. SearchType'
  <2>1. srcCtx' \in [Sources -> {"live", "DeadlineExceeded", "Canceled"}]
    BY <1>2 DEF SearchInv, SearchType, EndSources
  <2>2. counted' \in [Sources -> {"none", "ok", "fail"}]
    BY <1>2, <1>3 DEF SearchInv, SearchType
  <2> QED BY <1>1, <1>2, <1>5, <2>1, <2>2 DEF SearchInv, SearchType
<1>7. MessageOnce'
  <2>1. InChannel'
    <3> SUFFICES ASSUME NEW i \in 1..Len(ch')
                 PROVE  /\ outer'[ch'[i].name] \in {"sent", "exited"}
                        /\ counted'[ch'[i].name] = "none"
                        /\ ~ch'[i].err => From(ch'[i].name, ch'[i].res)
      BY DEF InChannel
    <3>1. i + 1 \in 2..Len(ch) /\ ch'[i] = ch[i + 1] /\ ch[i + 1].name # r.name
      BY <1>1, <1>4
    <3>2. ch[i + 1].name \in Sources
      <4>1. ch \in Seq(Msg) /\ i + 1 \in 1..Len(ch)
        BY <3>1, <1>1 DEF SearchInv, SearchType
      <4>2. ch[i + 1] \in Msg
        BY <4>1
      <4> QED BY <4>2 DEF Msg
    <3> QED BY <3>1, <3>2, <1>1, <1>2 DEF SearchInv, SearchType, MessageOnce, InChannel
  <2>2. \A i, j \in 1..Len(ch') : ch'[i].name = ch'[j].name => i = j
    <3> SUFFICES ASSUME NEW i \in 1..Len(ch'), NEW j \in 1..Len(ch'), ch'[i].name = ch'[j].name
                 PROVE  i = j
      OBVIOUS
    <3>1. i + 1 \in 1..Len(ch) /\ j + 1 \in 1..Len(ch) /\ ch[i + 1].name = ch[j + 1].name
      BY <1>1
    <3>2. i + 1 = j + 1
      BY <3>1 DEF SearchInv, MessageOnce
    <3> QED BY <3>2, <1>1
  <2>3. \A s \in Sources : outer'[s] \in {"none", "select"} => counted'[s] = "none"
    BY <1>2, <1>4 DEF SearchInv, SearchType, MessageOnce
  <2>4. \A s \in Sources : outer'[s] \in {"sent", "exited"} =>
            counted'[s] # "none" \/ \E i \in 1..Len(ch') : ch'[i].name = s
    <3> SUFFICES ASSUME NEW s \in Sources, outer'[s] \in {"sent", "exited"}, counted'[s] = "none"
                 PROVE  \E i \in 1..Len(ch') : ch'[i].name = s
      OBVIOUS
    <3>1. s # r.name /\ counted[s] = "none"
      BY <1>2, <1>3 DEF SearchInv, SearchType
    <3>2. PICK i \in 1..Len(ch) : ch[i].name = s
      BY <3>1, <1>2 DEF SearchInv, MessageOnce
    <3>3. i # 1
      BY <3>1, <3>2, <1>1
    <3>4. i - 1 \in 1..Len(ch') /\ ch'[i - 1] = ch[i]
      BY <3>3, <1>1
    <3> QED BY <3>2, <3>4
  <2> QED BY <2>1, <2>2, <2>3, <2>4 DEF MessageOnce
<1>8. Provenance'
  <2> SUFFICES ASSUME NEW i \in 1..Len(all')
               PROVE  \E s \in Sources : counted'[s] = "ok" /\
                        \E a \in Answers[s] : ~a.err /\ all'[i] \in Range(a.res)
    BY DEF Provenance
  <2>1. CASE i \in 1..Len(all) /\ all'[i] = all[i]
    <3>1. PICK s \in Sources : counted[s] = "ok" /\
                \E a \in Answers[s] : ~a.err /\ all[i] \in Range(a.res)
      BY <2>1 DEF SearchInv, Provenance
    <3>2. counted'[s] = "ok"
      BY <3>1, <1>2, <1>4 DEF SearchInv, SearchType
    <3> QED BY <2>1, <3>1, <3>2
  <2>2. CASE ~r.err /\ i \in (Len(all) + 1)..(Len(all) + Len(r.res))
    <3>1. i - Len(all) \in 1..Len(r.res) /\ all'[i] = r.res[i - Len(all)]
      BY <2>2, <1>2, <1>3, <1>5
    <3>2. all'[i] \in Range(r.res)
      BY <3>1, <1>3 DEF Range
    <3>3. counted'[r.name] = "ok"
      BY <2>2, <1>2, <1>3 DEF SearchInv, SearchType
    <3> QED BY <2>2, <3>2, <3>3, <1>3, <1>4 DEF From
  <2>3. \/ i \in 1..Len(all) /\ all'[i] = all[i]
        \/ ~r.err /\ i \in (Len(all) + 1)..(Len(all) + Len(r.res))
    BY <1>2, <1>3, <1>5
  <2> QED BY <2>1, <2>2, <2>3
<1>9. PhaseOK'
  BY <1>2 DEF SearchInv, PhaseOK, NoSendAfterClose, Collect
<1>10. EarlyReturnReachesAll'
  <2>1. CASE ~r.err /\ Len(all') >= EarlyReturnAt
    BY <2>1, <1>2 DEF EarlyReturnReachesAll, EndSources, SearchInv, SearchType
  <2>2. CASE ~(~r.err /\ Len(all') >= EarlyReturnAt)
    BY <2>2, <1>2, <1>3 DEF SearchInv, EarlyReturnReachesAll
  <2> QED BY <2>1, <2>2
<1> QED BY <1>6, <1>7, <1>8, <1>9, <1>10 DEF SearchInv

\* After the search Run only moves on; the collected results stay.
LEMMA LaterPreserves ==
  ASSUME SearchInv, UNCHANGED searchVars, phase' = phase \/ phase \notin {"start", "collect"},
         phase' = phase \/ phase' \notin {"start", "collect"}
  PROVE  SearchInv'
<1>1. SearchType'
  BY DEF SearchInv, SearchType, searchVars
<1>2. MessageOnce' /\ Provenance' /\ PhaseOK' /\ EarlyReturnReachesAll'
  BY DEF SearchInv, MessageOnce, InChannel, Provenance, PhaseOK, NoSendAfterClose,
         EarlyReturnReachesAll, searchVars, From
<1> QED BY <1>1, <1>2 DEF SearchInv

\* The steps of Run after the search, and formatting.
LaterStep ==
    \/ RunEmpty \/ RunFetch \/ RunFetchReturn \/ Gather \/ Summarize \/ NoLLM
    \/ \E i \in DOMAIN worker : RunFetchStep(i)
    \/ \E b \in BOOLEAN : FormatOutput(b)

LEMMA LaterStepShape ==
  ASSUME LaterStep
  PROVE  /\ UNCHANGED searchVars
         /\ phase \notin {"start", "collect"} /\ phase' \notin {"start", "collect"}
<1>1. CASE RunEmpty \/ RunFetch
  BY <1>1 DEF RunEmpty, RunFetch, Rest
<1>2. CASE RunFetchReturn \/ Gather
  BY <1>2 DEF RunFetchReturn, Gather, Rest
<1>3. CASE Summarize \/ NoLLM
  BY <1>3 DEF Summarize, NoLLM
<1>4. CASE \E i \in DOMAIN worker : RunFetchStep(i)
  BY <1>4 DEF RunFetchStep, Rest
<1>5. CASE \E b \in BOOLEAN : FormatOutput(b)
  BY <1>5 DEF FormatOutput
<1> QED BY <1>1, <1>2, <1>3, <1>4, <1>5 DEF LaterStep

\* The steps of the search.
SearchStep ==
    \/ SearchSources \/ Close \/ Collect \/ CollectEnd \/ CallerCancels
    \/ \E s \in Sources : SourceStep(s)

LEMMA NextSplit == Next => SearchStep \/ LaterStep
BY DEF Next, RunStep, SearchStep, LaterStep

LEMMA SearchStepPreserves == ASSUME SearchInv, SearchStep PROVE SearchInv'
<1>1. ASSUME NEW s \in Sources, SourceStep(s) PROVE SearchInv'
  BY <1>1, ReturnsPreserves, SelectDonePreserves, SelectCtxPreserves, OuterExitsPreserves,
     TimeoutPreserves DEF SourceStep
<1> QED BY <1>1, StartPreserves, ClosePreserves, CollectPreserves, CollectEndPreserves,
           CallerPreserves DEF SearchStep

LEMMA SearchNextInv == SearchInv /\ [Next]_vars => SearchInv'
<1> SUFFICES ASSUME SearchInv, [Next]_vars PROVE SearchInv'
  OBVIOUS
<1>1. CASE SearchStep
  BY <1>1, SearchStepPreserves
<1>2. CASE LaterStep
  BY <1>2, LaterStepShape, LaterPreserves
<1>3. CASE UNCHANGED vars
  BY <1>3, LaterPreserves DEF vars
<1> QED BY <1>1, <1>2, <1>3, NextSplit

LEMMA SearchInvImplies == SearchInv => NoSendAfterClose /\ EarlyReturnReachesAll /\ OnlyCountedResults
<1> SUFFICES ASSUME SearchInv PROVE NoSendAfterClose /\ EarlyReturnReachesAll /\ OnlyCountedResults
  OBVIOUS
<1>1. phase \notin {"start", "collect"} => \A s \in Sources : counted[s] # "none"
  <2> SUFFICES ASSUME phase \notin {"start", "collect"}, NEW s \in Sources PROVE counted[s] # "none"
    OBVIOUS
  <2>1. ch = <<>> /\ outer[s] = "exited"
    BY DEF SearchInv, PhaseOK
  <2> QED BY <2>1 DEF SearchInv, MessageOnce
<1>2. DOMAIN all = 1..Len(all)
  BY DEF SearchInv, SearchType
<1>3. OnlyCountedResults
  BY <1>1, <1>2 DEF SearchInv, Provenance, OnlyCountedResults
<1> QED BY <1>3 DEF SearchInv, PhaseOK

\* A message without an error is appended whole, and what is there stays in place.
LEMMA DeliveredNext == SearchInv /\ DeliveredKept /\ [Next]_vars => DeliveredKept'
<1> SUFFICES ASSUME SearchInv, DeliveredKept, [Next]_vars, NEW s \in Sources, counted'[s] = "ok"
             PROVE  \E a \in Answers[s], i \in 0..Len(all') : ~a.err /\ Holds(i, a.res)'
  BY DEF DeliveredKept
<1>1. ASSUME UNCHANGED <<all, counted>>
      PROVE  \E a \in Answers[s], i \in 0..Len(all') : ~a.err /\ Holds(i, a.res)'
  <2>1. PICK a \in Answers[s], i \in 0..Len(all) : ~a.err /\ Holds(i, a.res)
    BY <1>1 DEF DeliveredKept
  <2> QED BY <1>1, <2>1 DEF Holds
<1>2. CASE Collect
  <2> DEFINE r == Head(ch)
  <2>1. ch \in Seq(Msg) /\ ch # <<>> /\ all \in Seq(Page)
    BY <1>2 DEF SearchInv, SearchType, Collect
  <2>2. r \in Msg /\ r = ch[1] /\ Len(ch) \in Nat \ {0}
    BY <2>1, TailFacts
  <2>3. /\ counted' = [counted EXCEPT ![r.name] = IF r.err THEN "fail" ELSE "ok"]
        /\ all' = IF r.err THEN all ELSE all \o r.res
    BY <1>2 DEF Collect
  <2>4. ~r.err => From(r.name, r.res)
    BY <2>2 DEF SearchInv, MessageOnce, InChannel
  <2>5. r.name \in Sources /\ r.res \in Seq(Page) /\ r.err \in BOOLEAN
    BY <2>2 DEF Msg
  <2> HIDE DEF r
  <2>6. /\ Len(all) \in Nat /\ Len(all') \in Nat /\ Len(all) <= Len(all') /\ all' \in Seq(Page)
        /\ \A i \in 1..Len(all) : all'[i] = all[i]
    BY <2>1, <2>3, <2>5
  <2>7. CASE s = r.name
    <3>1. ~r.err
      BY <2>3, <2>5, <2>7 DEF SearchInv, SearchType
    <3>2. PICK a \in Answers[s] : ~a.err /\ a.res = r.res
      BY <2>4, <2>7, <3>1 DEF From
    <3>3. \A k \in 1..Len(r.res) : Len(all) + k \in 1..Len(all') /\ all'[Len(all) + k] = r.res[k]
      BY <2>1, <2>3, <2>5, <3>1
    <3>4. DOMAIN r.res = 1..Len(r.res) /\ DOMAIN all' = 1..Len(all')
      BY <2>5, <2>6
    <3>5. PICK n \in 0..Len(all') : n = Len(all)
      BY <2>6
    <3>6. Holds(n, a.res)'
      BY <3>2, <3>3, <3>4, <3>5, <2>5 DEF Holds
    <3> QED BY <3>2, <3>6
  <2>8. CASE s # r.name
    <3>1. counted[s] = "ok"
      BY <2>3, <2>8 DEF SearchInv, SearchType
    <3>2. PICK a \in Answers[s], i \in 0..Len(all) : ~a.err /\ Holds(i, a.res)
      BY <3>1 DEF DeliveredKept
    <3>3. DOMAIN all = 1..Len(all) /\ DOMAIN all' = 1..Len(all')
      BY <2>1, <2>6
    <3>4. DOMAIN all \subseteq DOMAIN all'
      BY <2>6, <3>3
    <3>5. Holds(i, a.res)'
      BY <2>6, <3>2, <3>3, <3>4 DEF Holds
    <3>6. i \in 0..Len(all')
      BY <2>6
    <3> QED BY <3>2, <3>5, <3>6 DEF Holds
  <2> QED BY <2>7, <2>8
<1>3. CASE SearchStep /\ ~Collect
  <2>1. UNCHANGED <<all, counted>>
    BY <1>3 DEF SearchStep, SourceStep, SearchSources, Close, CollectEnd, CallerCancels, SearchReturns,
                SelectDone, SelectCtx, Send, OuterExits, PerSourceTimeout, searchVars
  <2> QED BY <2>1, <1>1
<1>4. CASE LaterStep
  BY <1>1, <1>4, LaterStepShape DEF searchVars
<1>5. CASE UNCHANGED vars
  BY <1>1, <1>5 DEF vars, searchVars
<1> QED BY <1>2, <1>3, <1>4, <1>5, NextSplit

\* The fan-out of every pipeline: no source sends on the closed channel, the
\* early return reaches every source, every source is counted before the search
\* ends, and the results are those of the sources counted ok, each kept whole.
THEOREM SearchCorrect == Spec => []SourcesSound
<1>1. Init => DeliveredKept
  BY DEF Init, DeliveredKept
<1> QED BY <1>1, SearchInitInv, SearchNextInv, DeliveredNext, SearchInvImplies, PTL DEF Spec, SourcesSound

-----------------------------------------------------------------------------
Item == [Index : Nat, URL : Page, Snippet : BOOLEAN]

\* A list of sources numbered as the collected results are.
Numbered(srcs) ==
    /\ srcs \in Seq(Item)
    /\ Len(srcs) <= Len(all)
    /\ \A i \in 1..Len(srcs) : srcs[i].Index = i /\ srcs[i].URL = all[i]

Shape(o) == o = [kind |-> o.kind, Sources |-> o.Sources, facts |-> o.facts]

\* A verified fact cites, among others, a listed source whose text it quotes.
FactsListed ==
    \A f \in output.facts : f.status = "verified" =>
        \E k \in f.Sources : k \in 1..Len(output.Sources) /\ all[k] = f.quote.of

OutputInv ==
    /\ Shape(output) /\ Shape(formatted)
    /\ Numbered(output.Sources) /\ Numbered(formatted.Sources)
    /\ FactsListed
    /\ phase # "returned" => output = NoOutput /\ formatted = NoOutput

LEMMA OutputInit == Init => OutputInv
<1> SUFFICES ASSUME Init PROVE OutputInv
  OBVIOUS
<1>1. output = NoOutput /\ formatted = NoOutput /\ all = <<>> /\ phase = "start"
  BY DEF Init
<1>2. Numbered(<<>>)
  BY <1>1 DEF Numbered
<1> QED BY <1>1, <1>2 DEF OutputInv, Shape, FactsListed, NoOutput

\* While nothing is returned the output is empty, whatever is collected.
LEMMA NothingYet ==
  ASSUME SearchType', output' = NoOutput, formatted' = NoOutput
  PROVE  OutputInv'
<1>1. Numbered(<<>>)'
  BY DEF Numbered, SearchType
<1> QED BY <1>1 DEF OutputInv, Shape, FactsListed, NoOutput, Numbered

\* Steps that touch neither the results nor the output.
LEMMA OutputUnchanged ==
  ASSUME OutputInv, UNCHANGED <<all, output, formatted>>, phase' = phase \/ phase # "returned"
  PROVE  OutputInv'
BY DEF OutputInv, Shape, Numbered, FactsListed

\* BuildSearchOutput numbers the results as they were collected.
LEMMA BuildNumbered ==
  ASSUME SearchType, NEW facts
  PROVE  /\ Numbered(BuildSearchOutput(all, facts).Sources)
         /\ Len(BuildSearchOutput(all, facts).Sources) = Len(all)
         /\ Shape(BuildSearchOutput(all, facts))
         /\ BuildSearchOutput(all, facts).facts = facts
<1> DEFINE srcs == [i \in DOMAIN all |-> [Index |-> i, URL |-> all[i], Snippet |-> TRUE]]
<1>1. DOMAIN all = 1..Len(all) /\ Len(all) \in Nat /\ \A i \in 1..Len(all) : all[i] \in Page
  BY DEF SearchType
<1>2. \A i \in 1..Len(all) : srcs[i] \in Item
  BY <1>1 DEF Item
<1>3. srcs \in Seq(Item) /\ Len(srcs) = Len(all)
  BY <1>1, <1>2
<1>4. Numbered(srcs)
  BY <1>1, <1>3 DEF Numbered
<1>5. BuildSearchOutput(all, facts) = [kind |-> "ok", facts |-> facts, Sources |-> srcs]
  BY DEF BuildSearchOutput
<1> HIDE DEF srcs
<1> QED BY <1>3, <1>4, <1>5 DEF Shape

LEMMA SummarizePreserves ==
  ASSUME SearchInv, OutputInv, Summarize
  PROVE  OutputInv'
<1>1. formatted' = NoOutput /\ all' = all /\ phase' = "returned" /\ UNCHANGED <<formatted, contents>>
  BY DEF Summarize, OutputInv, searchVars
<1>2. Shape(formatted)' /\ Numbered(formatted.Sources)'
  BY <1>1 DEF OutputInv, Shape, Numbered
<1>3. CASE output' = [NoOutput EXCEPT !.kind = "err"]
  <2>1. output'.Sources = <<>> /\ output'.facts = {} /\ Shape(output)'
    BY <1>3 DEF NoOutput, Shape
  <2>2. Numbered(<<>>)'
    BY <1>1 DEF Numbered, SearchInv, SearchType
  <2> QED BY <1>1, <1>2, <2>1, <2>2 DEF OutputInv, FactsListed, Numbered
<1>4. ASSUME NEW cited \in SUBSET (0..(Len(all) + 1)), NEW q,
             output' = BuildSearchOutput(all, {[Sources |-> cited, quote |-> q,
                            status |-> verifyFact(all, contents, cited, q)]})
      PROVE  OutputInv'
  <2> DEFINE fact == [Sources |-> cited, quote |-> q, status |-> verifyFact(all, contents, cited, q)]
  <2>1. /\ Numbered(output'.Sources) /\ Len(output'.Sources) = Len(all)
        /\ Shape(output') /\ output'.facts = {fact}
    BY <1>4, BuildNumbered DEF SearchInv
  <2>2. fact.status = "verified" => \E k \in cited : k \in 1..Len(all) /\ all[k] = q.of
    BY DEF verifyFact, haystack, SearchInv, SearchType
  <2>3. FactsListed'
    BY <1>1, <2>1, <2>2 DEF FactsListed
  <2>4. Shape(output)' /\ Numbered(output.Sources)'
    BY <1>1, <2>1 DEF Shape, Numbered
  <2> QED BY <1>1, <1>2, <2>3, <2>4 DEF OutputInv
<1> QED BY <1>3, <1>4 DEF Summarize

LEMMA NoLLMPreserves ==
  ASSUME SearchInv, OutputInv, NoLLM
  PROVE  OutputInv'
<1>1. /\ all' = all /\ phase' = "returned" /\ formatted' = formatted
      /\ output' = BuildSearchOutput(all, {})
  BY DEF NoLLM, searchVars
<1>2. Numbered(output'.Sources) /\ Shape(output') /\ output'.facts = {}
  BY <1>1, BuildNumbered DEF SearchInv
<1>3. Shape(output)' /\ Numbered(output.Sources)' /\ FactsListed'
  BY <1>1, <1>2 DEF Shape, Numbered, FactsListed
<1>4. Shape(formatted)' /\ Numbered(formatted.Sources)'
  BY <1>1 DEF OutputInv, Shape, Numbered
<1> QED BY <1>1, <1>3, <1>4 DEF OutputInv

\* Stripping snippets and cutting the list renumbers nothing.
LEMMA FormatPreserves ==
  ASSUME SearchInv, OutputInv, NEW b \in BOOLEAN, FormatOutput(b)
  PROVE  OutputInv'
<1> DEFINE old == output.Sources
           strip(item) == IF b THEN item ELSE [item EXCEPT !.Snippet = FALSE]
           new == [i \in DOMAIN old |-> strip(old[i])]
           cut == IF MaxSources > 0 /\ Len(new) > MaxSources THEN SubSeq(new, 1, MaxSources) ELSE new
<1>1. all' = all /\ phase' = phase /\ phase = "returned"
  BY DEF FormatOutput, searchVars
<1>2. old \in Seq(Item) /\ Len(old) \in Nat /\ DOMAIN old = 1..Len(old) /\ Len(old) <= Len(all)
  BY DEF OutputInv, Numbered
<1>3. \A i \in 1..Len(old) : old[i] \in Item /\ old[i].Index = i /\ old[i].URL = all[i]
  BY <1>2 DEF OutputInv, Numbered
<1>4. \A item \in Item : strip(item) \in Item /\ strip(item).Index = item.Index /\ strip(item).URL = item.URL
  BY DEF Item
<1>5. output' = [output EXCEPT !.Sources = new] /\ formatted' = [output EXCEPT !.Sources = cut]
  BY DEF FormatOutput
<1>6. Shape(output') /\ output'.Sources = new /\ output'.facts = output.facts
  BY <1>5 DEF OutputInv, Shape
<1>7. Shape(formatted') /\ formatted'.Sources = cut
  BY <1>5 DEF OutputInv, Shape
<1> HIDE DEF strip
<1>8. new \in Seq(Item) /\ Len(new) = Len(old) /\ \A i \in 1..Len(old) : new[i] = strip(old[i])
  BY <1>2, <1>3, <1>4
<1> HIDE DEF new
<1>9. Numbered(new)
  BY <1>2, <1>3, <1>4, <1>8 DEF Numbered
<1>10. Numbered(cut)
  <2>1. CASE MaxSources > 0 /\ Len(new) > MaxSources
    <3>1. /\ SubSeq(new, 1, MaxSources) \in Seq(Item)
          /\ Len(SubSeq(new, 1, MaxSources)) = MaxSources
          /\ \A i \in 1..MaxSources : SubSeq(new, 1, MaxSources)[i] = new[i]
      BY <2>1, <1>2, <1>8, EarlyAssumption
    <3> QED BY <2>1, <3>1, <1>2, <1>8, <1>9, EarlyAssumption DEF Numbered
  <2>2. CASE ~(MaxSources > 0 /\ Len(new) > MaxSources)
    BY <2>2, <1>9
  <2> QED BY <2>1, <2>2
<1> HIDE DEF cut
<1>11. Shape(output)' /\ Shape(formatted)' /\ Numbered(output.Sources)' /\ Numbered(formatted.Sources)'
  BY <1>1, <1>6, <1>7, <1>9, <1>10 DEF Shape, Numbered
<1>12. FactsListed'
  BY <1>1, <1>6, <1>8 DEF OutputInv, FactsListed
<1> QED BY <1>1, <1>11, <1>12 DEF OutputInv

LEMMA EmptyPreserves == ASSUME SearchInv, OutputInv, RunEmpty PROVE OutputInv'
<1>1. all' = all /\ phase' = "returned" /\ formatted' = formatted
  BY DEF RunEmpty, searchVars
<1>2. output'.Sources = <<>> /\ output'.facts = {} /\ Shape(output')
  BY DEF RunEmpty, NoOutput, Shape
<1>3. Numbered(<<>>)
  BY DEF Numbered, SearchInv, SearchType
<1>4. Shape(output)' /\ Numbered(output.Sources)' /\ FactsListed'
  BY <1>1, <1>2, <1>3 DEF Shape, Numbered, FactsListed
<1>5. Shape(formatted)' /\ Numbered(formatted.Sources)'
  BY <1>1 DEF OutputInv, Shape, Numbered
<1> QED BY <1>1, <1>4, <1>5 DEF OutputInv

\* The search ends before anything is returned.
LEMMA SearchStepOutput == ASSUME SearchInv, OutputInv, SearchStep PROVE OutputInv'
<1>1. UNCHANGED <<output, formatted>>
  BY DEF SearchStep, SourceStep, SearchSources, Close, Collect, CollectEnd, CallerCancels,
         SearchReturns, SelectDone, SelectCtx, Send, OuterExits, PerSourceTimeout, runVars
<1>2. CASE phase # "returned"
  <2>1. SearchType'
    BY SearchStepPreserves DEF SearchInv
  <2> QED BY <1>1, <1>2, <2>1, NothingYet DEF OutputInv
<1>3. CASE phase = "returned"
  <2>1. UNCHANGED <<all, phase>>
    BY <1>3 DEF SearchStep, SourceStep, SearchSources, Close, Collect, CollectEnd, CallerCancels,
         SearchReturns, SelectDone, SelectCtx, Send, OuterExits, PerSourceTimeout
  <2> QED BY <1>1, <2>1, OutputUnchanged
<1> QED BY <1>2, <1>3

LEMMA LaterStepOutput == ASSUME SearchInv, OutputInv, LaterStep PROVE OutputInv'
<1>1. CASE RunFetch \/ RunFetchReturn \/ Gather \/ \E i \in DOMAIN worker : RunFetchStep(i)
  <2>1. UNCHANGED <<all, output, formatted>> /\ phase # "returned"
    BY <1>1 DEF RunFetch, RunFetchReturn, Gather, RunFetchStep, Rest, searchVars
  <2> QED BY <2>1, OutputUnchanged
<1> QED BY <1>1, EmptyPreserves, SummarizePreserves, NoLLMPreserves, FormatPreserves DEF LaterStep

LEMMA OutputNext == SearchInv /\ OutputInv /\ [Next]_vars => OutputInv'
<1> SUFFICES ASSUME SearchInv, OutputInv, [Next]_vars PROVE OutputInv'
  OBVIOUS
<1>1. CASE UNCHANGED vars
  <2>1. UNCHANGED <<all, output, formatted, phase>>
    BY <1>1 DEF vars, searchVars
  <2> QED BY <2>1, OutputUnchanged
<1> QED BY <1>1, NextSplit, SearchStepOutput, LaterStepOutput

LEMMA OutputInvImplies == OutputInv => VerifiedFactIsListed
BY DEF OutputInv, FactsListed, Numbered, VerifiedFactIsListed

-----------------------------------------------------------------------------
\* The result of a fetch that delivered the text of u.
Good(u) == [URL |-> u, Content |-> u, Err |-> "nil"]

\* From the result slots over contents to the prompt: each stage holds only what
\* the one before it has, and the slots are at rest once they have been read.
PageInv ==
    /\ \A i \in DOMAIN results :
        results[i].Err = "nil" /\ results[i].Content # "" => results[i] = Good(results[i].URL)
    /\ \A u \in contents : \E i \in DOMAIN results : results[i] = Good(u)
    /\ \A i \in DOMAIN prompt : prompt[i].kind = "content" => prompt[i].of \in contents
    /\ phase \notin {"summarize", "returned"} => contents = {}
    /\ phase # "returned" => prompt = <<>>

LEMMA PageInit == Init => PageInv
<1>1. DOMAIN <<>> = {}
  OBVIOUS
<1> QED BY <1>1 DEF Init, FetchInit, PageInv

\* Steps that leave the pages alone.
LEMMA PageUnchanged ==
  ASSUME PageInv, UNCHANGED <<results, contents, prompt>>,
         phase' \notin {"summarize", "returned"} => phase \notin {"summarize", "returned"},
         phase' # "returned" => phase # "returned"
  PROVE  PageInv'
BY DEF PageInv

\* fetchFn stores text of its own URL only, whatever stage it got to.
LEMMA FetchStepPage == ASSUME PageInv, NEW i \in DOMAIN worker, RunFetchStep(i) PROVE PageInv'
<1>1. phase = "fetching" /\ UNCHANGED <<phase, contents, prompt>>
  BY DEF RunFetchStep, Rest
<1>2. CASE UNCHANGED results
  BY <1>1, <1>2, PageUnchanged
<1>3. ASSUME NEW content, NEW err, Store(i, [URL |-> urls[i], Content |-> content, Err |-> err]),
             content \in {"", urls[i]}
      PROVE  PageInv'
  <2>1. results' = [results EXCEPT ![i] = [URL |-> urls[i], Content |-> content, Err |-> err]]
    BY <1>3 DEF Store
  <2>2. \A k \in DOMAIN results' :
          results'[k].Err = "nil" /\ results'[k].Content # "" => results'[k] = Good(results'[k].URL)
    BY <1>3, <2>1 DEF PageInv, Good
  <2> QED BY <1>1, <2>2 DEF PageInv
<1>4. \A stage \in Stages : buildFetchFn(urls[i], stage).Content \in {"", urls[i]}
  BY DEF Stages, buildFetchFn
<1>5. CASE \E stage \in Stages : LET r == buildFetchFn(urls[i], stage) IN Fetched(i, r.Content, r.Err)
  <2>1. PICK stage \in Stages : Fetched(i, buildFetchFn(urls[i], stage).Content, buildFetchFn(urls[i], stage).Err)
    BY <1>5
  <2> QED BY <2>1, <1>3, <1>4 DEF Fetched
<1>6. CASE Panics(i)
  BY <1>3, <1>6 DEF Panics
<1>7. CASE Acquire(i) \/ Release(i) \/ WgDone(i)
  BY <1>2, <1>7 DEF Acquire, Release, WgDone
<1> QED BY <1>5, <1>6, <1>7 DEF RunFetchStep

\* Run's loop keeps a URL only for a result without error and with text.
LEMMA GatherPage == ASSUME PageInv, Gather PROVE PageInv'
<1>1. UNCHANGED <<results, prompt>> /\ phase = "fetching" /\ phase' = "summarize"
  BY DEF Gather, Rest, fetchVars
<1>2. \A u \in contents' : \E i \in DOMAIN results : results[i] = Good(u)
  BY DEF Gather, PageInv, Good
<1>3. prompt = <<>>
  BY <1>1 DEF PageInv
<1>4. DOMAIN <<>> = {}
  OBVIOUS
<1> QED BY <1>1, <1>2, <1>3, <1>4 DEF PageInv

\* BuildSourcesText shows content for URLs in contents only.
LEMMA SummarizePage == ASSUME PageInv, Summarize PROVE PageInv'
<1>1. UNCHANGED <<results, contents>> /\ phase' = "returned" /\ prompt' = BuildSourcesText(all, contents)
  BY DEF Summarize, fetchVars
<1>2. \A i \in DOMAIN prompt' : prompt'[i].kind = "content" => prompt'[i].of \in contents
  BY <1>1 DEF BuildSourcesText
<1> QED BY <1>1, <1>2 DEF PageInv

LEMMA StartFetchPage == ASSUME PageInv, RunFetch PROVE PageInv'
<1>1. phase = "searched" /\ phase' \in {"fetching", "summarize"} /\ UNCHANGED <<contents, prompt>>
  BY DEF RunFetch, Rest
<1>2. contents = {}
  BY <1>1 DEF PageInv
<1>3. CASE UNCHANGED results
  BY <1>1, <1>2, <1>3 DEF PageInv
<1>4. CASE results' = [i \in 1..Len(uniqueURLs(all)) |-> Zero]
  <2>1. \A i \in DOMAIN results' : results'[i].Content = ""
    BY <1>4 DEF Zero
  <2> QED BY <1>1, <1>2, <2>1 DEF PageInv
<1> QED BY <1>3, <1>4 DEF RunFetch, ParallelFetch, fetchVars

LEMMA PageNext == PageInv /\ [Next]_vars => PageInv'
<1> SUFFICES ASSUME PageInv, [Next]_vars PROVE PageInv'
  OBVIOUS
<1>1. CASE SearchStep
  <2>1. UNCHANGED <<results, contents, prompt>> /\ (phase' = phase \/ phase \in {"start", "collect"})
    BY <1>1 DEF SearchStep, SourceStep, SearchSources, Close, Collect, CollectEnd, CallerCancels,
         SearchReturns, SelectDone, SelectCtx, Send, OuterExits, PerSourceTimeout, runVars, fetchVars
  <2>2. phase \in {"start", "collect"} => contents = {} /\ prompt = <<>>
    BY DEF PageInv
  <2> QED BY <2>1, <2>2 DEF PageInv
<1>2. CASE RunEmpty \/ RunFetchReturn \/ NoLLM \/ \E b \in BOOLEAN : FormatOutput(b)
  <2>1. /\ UNCHANGED <<results, contents, prompt>>
        /\ phase' = phase \/ phase' = "returned"
    BY <1>2 DEF RunEmpty, RunFetchReturn, FetchReturn, NoLLM, FormatOutput, Rest, fetchVars
  <2> QED BY <2>1, PageUnchanged
<1>3. CASE UNCHANGED vars
  BY <1>3, PageUnchanged DEF vars, fetchVars
<1> QED BY <1>1, <1>2, <1>3, NextSplit, FetchStepPage, GatherPage, SummarizePage, StartFetchPage DEF LaterStep

LEMMA PageInvImplies == PageInv => ShownContentWasFetched
<1> SUFFICES ASSUME PageInv, NEW i \in DOMAIN prompt, prompt[i].kind = "content"
             PROVE  Good(prompt[i].of) \in Range(results)
  BY DEF ShownContentWasFetched, Good
<1> QED BY DEF PageInv, Range

-----------------------------------------------------------------------------
\* A set of indices has a first one.
LEMMA FirstIndex == ASSUME NEW T \in SUBSET Nat, T # {} PROVE \E x \in T : \A y \in T : x <= y
<1> DEFINE R == {ss \in Nat \X Nat : ss[1] < ss[2]}
<1>1. IsWellFoundedOn(R, Nat)
  BY NatLessThanWellFounded DEF OpToRel
<1>2. \E x \in T : \A y \in T : ~ (<<y, x>> \in R)
  <2> HIDE DEF R
  <2> QED BY <1>1, WFMin
<1>3. PICK x \in T : \A y \in T : ~ (<<y, x>> \in R)
  BY <1>2
<1>4. ASSUME NEW y \in T PROVE x <= y
  <2>1. x \in Nat /\ y \in Nat
    OBVIOUS
  <2>2. ~(y < x)
    BY <1>3, <2>1
  <2> QED BY <2>1, <2>2
<1> QED BY <1>4

LEMMA PageSeq ==
  ASSUME NEW res \in Seq(Page)
  PROVE  DOMAIN res = 1..Len(res) /\ Len(res) \in Nat /\ \A i \in 1..Len(res) : res[i] \in Page
OBVIOUS

\* The kept entries are finitely many positions of the slice.
LEMMA FirstSeenFinite ==
  ASSUME NEW res \in Seq(Page)
  PROVE  /\ firstSeen(res) \subseteq 1..Len(res) /\ firstSeen(res) \subseteq Nat
         /\ IsFiniteSet(firstSeen(res)) /\ Cardinality(firstSeen(res)) \in Nat
<1>1. firstSeen(res) \subseteq 1..Len(res) /\ Len(res) \in Nat
  BY PageSeq DEF firstSeen
<1>2. firstSeen(res) \subseteq Nat
  BY <1>1
<1>3. IsFiniteSet(1..Len(res))
  BY <1>1, FS_Interval
<1>4. IsFiniteSet(firstSeen(res))
  BY <1>1, <1>3, FS_Subset
<1> QED BY <1>1, <1>2, <1>4, FS_CardinalityType

\* The kept entries up to one of them are part of those up to a later one.
LEMMA RankType ==
  ASSUME NEW res \in Seq(Page), NEW i \in firstSeen(res)
  PROVE  rank(res, i) \in 1..Cardinality(firstSeen(res))
<1> DEFINE S == {j \in firstSeen(res) : j <= i}
<1>1. S \subseteq firstSeen(res) /\ i \in S
  BY FirstSeenFinite
<1>2. IsFiniteSet(S) /\ Cardinality(S) <= Cardinality(firstSeen(res)) /\ Cardinality(S) \in Nat
  BY <1>1, FirstSeenFinite, FS_Subset, FS_CardinalityType
<1>3. Cardinality(S) # 0
  BY <1>1, <1>2, FS_EmptySet
<1> QED BY <1>2, <1>3, FirstSeenFinite DEF rank

LEMMA RankIncreases ==
  ASSUME NEW res \in Seq(Page), NEW i \in firstSeen(res), NEW j \in firstSeen(res), i < j
  PROVE  rank(res, i) < rank(res, j)
<1> DEFINE S == {k \in firstSeen(res) : k <= i}
           T == {k \in firstSeen(res) : k <= j}
<1>1. S \subseteq T /\ j \in T /\ j \notin S /\ T \subseteq firstSeen(res)
  BY FirstSeenFinite
<1>2. IsFiniteSet(T)
  BY <1>1, FirstSeenFinite, FS_Subset
<1>3. IsFiniteSet(S) /\ Cardinality(S) <= Cardinality(T) /\ (Cardinality(T) = Cardinality(S) => S = T)
  <2> HIDE DEF S, T
  <2> QED BY <1>1, <1>2, FS_Subset
<1>4. Cardinality(S) \in Nat /\ Cardinality(T) \in Nat
  BY <1>2, <1>3, FS_CardinalityType
<1> QED BY <1>1, <1>3, <1>4 DEF rank

\* So the numbers of the kept entries are 1, 2, ..., each given once.
LEMMA RankOnto ==
  ASSUME NEW res \in Seq(Page), NEW k \in 1..Cardinality(firstSeen(res))
  PROVE  \E i \in firstSeen(res) : rank(res, i) = k
<1> DEFINE S == firstSeen(res)
           n == Cardinality(S)
           f == [i \in S |-> rank(res, i)]
<1>1. n \in Nat /\ S \subseteq Nat
  BY FirstSeenFinite
<1>2. f \in [S -> 1..n]
  BY RankType
<1>3. \A i, j \in S : f[i] = f[j] => i = j
  <2> SUFFICES ASSUME NEW i \in S, NEW j \in S, i # j PROVE rank(res, i) # rank(res, j)
    OBVIOUS
  <2>1. rank(res, i) \in Nat /\ rank(res, j) \in Nat
    BY RankType, <1>1
  <2>2. i < j \/ j < i
    BY <1>1
  <2> QED BY <2>1, <2>2, RankIncreases
<1>4. IsFiniteSet(1..n) /\ Cardinality(1..n) = n
  BY <1>1, FS_Interval
<1> HIDE DEF f, S, n
<1>5. f \in Injection(S, 1..n)
  BY <1>2, <1>3 DEF Injection, IsInjective
<1>6. f \in Surjection(S, 1..n)
  BY <1>4, <1>5, FS_Injection DEF n
<1>7. PICK i \in S : f[i] = k
  BY <1>6 DEF Surjection, n, S
<1> QED BY <1>7 DEF f, S

\* The entry uniqueURLs puts at k.
LEMMA PickedIs ==
  ASSUME NEW res \in Seq(Page), NEW k \in 1..Cardinality(firstSeen(res))
  PROVE  \E i \in firstSeen(res) : rank(res, i) = k /\ uniqueURLs(res)[k] = res[i]
<1> DEFINE i == CHOOSE i \in firstSeen(res) : rank(res, i) = k
<1>1. i \in firstSeen(res) /\ rank(res, i) = k
  BY RankOnto
<1>2. uniqueURLs(res)[k] = res[i]
  BY DEF uniqueURLs
<1> QED BY <1>1, <1>2

\* Two kept entries have different URLs.
LEMMA FirstSeenDiffer ==
  ASSUME NEW res \in Seq(Page), NEW i \in firstSeen(res), NEW j \in firstSeen(res), res[i] = res[j]
  PROVE  i = j
<1>1. i \in Nat \ {0} /\ j \in Nat \ {0}
  BY FirstSeenFinite
<1>2. i < j => i \in 1..(j - 1)
  BY <1>1
<1>3. j < i => j \in 1..(i - 1)
  BY <1>1
<1>4. ~(i < j) /\ ~(j < i)
  BY <1>2, <1>3 DEF firstSeen
<1> QED BY <1>1, <1>4

\* What uniqueURLs returns: the URLs of its argument, each of them once.
LEMMA UniqueURLs ==
  ASSUME NEW res \in Seq(Page)
  PROVE  /\ uniqueURLs(res) \in [1..Cardinality(firstSeen(res)) -> URL]
         /\ \A k, l \in DOMAIN uniqueURLs(res) : uniqueURLs(res)[k] = uniqueURLs(res)[l] => k = l
         /\ Range(uniqueURLs(res)) = Range(res) \ {""}
<1> DEFINE n == Cardinality(firstSeen(res))
           us == uniqueURLs(res)
<1>1. DOMAIN us = 1..n /\ us = [k \in 1..n |-> us[k]]
  BY DEF uniqueURLs
<1>2. \A i \in firstSeen(res) : res[i] \in Page \ {""} /\ res[i] \in Range(res)
  BY PageSeq, FirstSeenFinite DEF firstSeen, Range
<1> HIDE DEF us, n
<1>3. ASSUME NEW k \in 1..n PROVE us[k] \in URL /\ us[k] \in Range(res)
  <2>1. PICK i \in firstSeen(res) : us[k] = res[i]
    BY PickedIs DEF us, n
  <2> QED BY <2>1, <1>2 DEF Page
<1>4. us \in [1..n -> URL]
  BY <1>1, <1>3
<1>5. ASSUME NEW k \in 1..n, NEW l \in 1..n, us[k] = us[l] PROVE k = l
  <2>1. PICK i \in firstSeen(res) : rank(res, i) = k /\ us[k] = res[i]
    BY PickedIs DEF us, n
  <2>2. PICK j \in firstSeen(res) : rank(res, j) = l /\ us[l] = res[j]
    BY PickedIs DEF us, n
  <2>3. i = j
    BY <1>5, <2>1, <2>2, FirstSeenDiffer
  <2> QED BY <2>1, <2>2, <2>3
<1>6. ASSUME NEW u \in Range(res), u # "" PROVE u \in Range(us)
  <2> DEFINE T == {i \in 1..Len(res) : res[i] = u}
  <2>1. T # {} /\ T \in SUBSET Nat
    <3>1. PICK i \in DOMAIN res : res[i] = u
      BY DEF Range
    <3> QED BY <3>1, PageSeq
  <2>2. PICK i \in T : \A j \in T : i <= j
    <3> HIDE DEF T
    <3> QED BY <2>1, FirstIndex
  <2>3. \A j \in 1..(i - 1) : res[j] # u
    BY <2>2
  <2>4. i \in firstSeen(res)
    BY <2>2, <2>3, <1>6, PageSeq DEF firstSeen
  <2>5. rank(res, i) \in 1..n
    BY <2>4, RankType DEF n
  <2>6. PICK j \in firstSeen(res) : rank(res, j) = rank(res, i) /\ us[rank(res, i)] = res[j]
    BY <2>5, PickedIs DEF us, n
  <2>7. i = j
    <3>1. i \in Nat /\ j \in Nat /\ rank(res, i) \in Nat /\ rank(res, j) \in Nat
      BY <2>4, <2>6, FirstSeenFinite, RankType
    <3> QED BY <3>1, <2>4, <2>6, RankIncreases
  <2> QED BY <1>1, <2>2, <2>5, <2>6, <2>7 DEF Range
<1>7. Range(us) = Range(res) \ {""}
  <2>1. \A u \in Range(us) : u \in Range(res) \ {""}
    BY <1>1, <1>3, URLAssumption DEF Range
  <2> QED BY <2>1, <1>6
<1> QED BY <1>1, <1>4, <1>5, <1>7 DEF us, n
\* No more URLs than there are, so no more than the bound.
LEMMA FetchSlice ==
  ASSUME NEW res \in Seq(Page)
  PROVE  \E n \in 0..MaxURLs : uniqueURLs(res) \in [1..n -> URL]
<1> DEFINE n == Cardinality(firstSeen(res))
           us == uniqueURLs(res)
<1>1. us \in [1..n -> URL] /\ \A k, l \in DOMAIN us : us[k] = us[l] => k = l
  BY UniqueURLs
<1>2. n \in Nat
  BY FirstSeenFinite
<1> HIDE DEF us, n
<1>3. us \in Injection(1..n, URL)
  BY <1>1 DEF Injection, IsInjective
<1>4. IsFiniteSet(URL) /\ Cardinality(1..n) <= Cardinality(URL) /\ Cardinality(1..n) = n
  BY <1>2, <1>3, FS_Injection, FS_Interval, BoundAssumption
<1>5. Cardinality(URL) \in Nat /\ MaxURLs \in Nat
  BY <1>4, FS_CardinalityType, URLAssumption
<1>6. n \in 0..MaxURLs
  BY <1>2, <1>4, <1>5, BoundAssumption
<1> QED BY <1>1, <1>6 DEF us

\* The steps of the search leave ParallelFetch alone.
LEMMA SearchStepFetch == ASSUME SearchStep PROVE UNCHANGED fetchVars
BY DEF SearchStep, SourceStep, SearchSources, Close, Collect, CollectEnd, CallerCancels,
       SearchReturns, SelectDone, SelectCtx, Send, OuterExits, PerSourceTimeout, runVars, fetchVars

\* A goroutine of Run's fetch takes a step of ParallelFetch's goroutine.
LEMMA RunFetchStepIs == ASSUME NEW i \in DOMAIN worker, RunFetchStep(i) PROVE FetchStep(i)
<1>1. \A stage \in Stages : /\ buildFetchFn(urls[i], stage).Content \in {"", urls[i]}
                            /\ buildFetchFn(urls[i], stage).Err \in {"nil", "err"}
  BY DEF Stages, buildFetchFn
<1>2. CASE \E stage \in Stages : LET r == buildFetchFn(urls[i], stage) IN Fetched(i, r.Content, r.Err)
  <2>1. PICK stage \in Stages : Fetched(i, buildFetchFn(urls[i], stage).Content, buildFetchFn(urls[i], stage).Err)
    BY <1>2
  <2> QED BY <2>1, <1>1 DEF FetchStep
<1> QED BY <1>2 DEF RunFetchStep, FetchStep

\* The step simulation: every step of Run is a step of ParallelFetch's
\* specification or leaves its variables alone.
LEMMA FetchSimulation == SearchInv /\ [Next]_vars => [FetchNext]_fetchVars
<1> SUFFICES ASSUME SearchInv, [Next]_vars PROVE [FetchNext]_fetchVars
  OBVIOUS
<1>1. CASE SearchStep
  BY <1>1, SearchStepFetch
<1>2. CASE RunFetch
  <2>1. all \in Seq(Page)
    BY DEF SearchInv, SearchType
  <2>2. CASE ParallelFetch(uniqueURLs(all))
    BY <2>1, <2>2, FetchSlice DEF FetchNext
  <2> QED BY <1>2, <2>2 DEF RunFetch
<1>3. ASSUME NEW i \in DOMAIN worker, RunFetchStep(i) PROVE FetchNext
  BY <1>3, RunFetchStepIs DEF FetchNext
<1>4. CASE RunFetchReturn
  BY <1>4 DEF RunFetchReturn, FetchNext
<1>5. CASE RunEmpty \/ Gather \/ Summarize \/ NoLLM \/ \E b \in BOOLEAN : FormatOutput(b)
  BY <1>5 DEF RunEmpty, Gather, Summarize, NoLLM, FormatOutput
<1>6. CASE UNCHANGED vars
  BY <1>6 DEF vars
<1> QED BY <1>1, <1>2, <1>3, <1>4, <1>5, <1>6, NextSplit DEF LaterStep

\* Run makes one call of ParallelFetch, of at most MaxURLs URLs, and its own fetch
\* function is one of those that FetchSpec allows.
LEMMA RunImplementsFetch == Spec => FetchSpec
<1>1. Init => FetchInit
  BY DEF Init
<1> QED BY <1>1, SearchInitInv, SearchNextInv, FetchSimulation, PTL DEF Spec, FetchSpec

\* So the promises of ParallelFetch hold within every run of the pipeline.
THEOREM RunFetchesSoundly == Spec => []FetchSound
BY RunImplementsFetch, FetchCorrect, PTL

-----------------------------------------------------------------------------
\* The slice being fetched is that of what was collected.
OnceInv == EachPageOnce /\ (phase \in {"start", "collect"} => urls = <<>>)

LEMMA OnceKept ==
  ASSUME OnceInv, UNCHANGED <<urls, all>>, phase' \in {"start", "collect"} => phase \in {"start", "collect"}
  PROVE  OnceInv'
BY DEF OnceInv, EachPageOnce

LEMMA OnceNext == SearchInv /\ OnceInv /\ [Next]_vars => OnceInv'
<1> SUFFICES ASSUME SearchInv, OnceInv, [Next]_vars PROVE OnceInv'
  OBVIOUS
<1>1. CASE SearchStep
  <2>1. urls' = urls
    BY <1>1, SearchStepFetch DEF fetchVars
  <2>2. CASE Collect \/ CollectEnd \/ SearchSources
    BY <2>1, <2>2 DEF OnceInv, EachPageOnce, Collect, CollectEnd, SearchSources
  <2>3. CASE Close \/ CallerCancels \/ \E s \in Sources : SourceStep(s)
    <3>1. UNCHANGED <<all, phase>>
      BY <2>3 DEF Close, CallerCancels, SourceStep, SearchReturns, SelectDone, SelectCtx, Send, OuterExits,
                  PerSourceTimeout
    <3> QED BY <2>1, <3>1, OnceKept
  <2> QED BY <1>1, <2>2, <2>3 DEF SearchStep
<1>2. CASE LaterStep
  <2>1. UNCHANGED all /\ phase' \notin {"start", "collect"}
    BY <1>2, LaterStepShape DEF searchVars
  <2>2. CASE UNCHANGED urls
    BY <2>1, <2>2, OnceKept
  <2>3. CASE urls' = uniqueURLs(all)
    <3>1. all \in Seq(Page)
      BY DEF SearchInv, SearchType
    <3> QED BY <3>1, <2>1, <2>3, UniqueURLs DEF OnceInv, EachPageOnce
  <2>4. UNCHANGED urls \/ urls' = uniqueURLs(all)
    BY <1>2, RunFetchStepIs
       DEF LaterStep, RunEmpty, RunFetch, ParallelFetch, RunFetchReturn, FetchReturn, Gather, Summarize, NoLLM,
           FormatOutput, FetchStep, Acquire, Fetched, Panics, Store, Release, WgDone, fetchVars
  <2> QED BY <2>2, <2>3, <2>4
<1>3. CASE UNCHANGED vars
  BY <1>3, OnceKept DEF vars, searchVars, fetchVars
<1> QED BY <1>1, <1>2, <1>3, NextSplit

\* In any run of the pipeline every URL found is fetched, once; what the model is
\* shown was fetched for the very URL it is shown for, and a verified fact cites,
\* beside numbers that may be unlisted, the source of the output whose text it
\* quotes by its number there; formatting renumbers nothing.
THEOREM CitationsCorrect == Spec => []CitationsSound
<1>1. Spec => []VerifiedFactIsListed
  BY SearchInitInv, SearchNextInv, OutputInit, OutputNext, OutputInvImplies, PTL DEF Spec
<1>2. Spec => []ShownContentWasFetched
  BY PageInit, PageNext, PageInvImplies, PTL DEF Spec
<1>3. Init => OnceInv
  BY DEF Init, FetchInit, OnceInv, EachPageOnce
<1>4. OnceInv => EachPageOnce
  BY DEF OnceInv
<1>5. Spec => []EachPageOnce
  BY <1>3, <1>4, SearchInitInv, SearchNextInv, OnceNext, PTL DEF Spec
<1> QED BY <1>1, <1>2, <1>5, PTL DEF CitationsSound
=============================================================================
