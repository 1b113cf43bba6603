----------------------------- MODULE LLMConfig -----------------------------
(***************************************************************************)
(* llm.New and llm.NewOptional: which of the three transports the options  *)
(* select (a cross product of proxies and models, a chain of models on one *)
(* base URL, or a rotation of keys), and the chain of endpoints that       *)
(* go-kit builds for it after it has asked each proxy for its live models. *)
(* Pure operators; LLMChain runs calls against the result.                 *)
(***************************************************************************)
EXTENDS Integers, Sequences, SequencesExt

\* The config struct after the options have been applied; "" and <<>> are
\* Go's zero values, 0 an unset duration.
Config(URL, Key, Model, Dur) ==
    [optional : BOOLEAN, apiBase : URL, apiKey : Key, proxyURLs : Seq(URL),
     proxyKeys : Seq(Key), fallbacks : Seq(Key), model : Model,
     modelChain : Seq(Model), cooldownDuration : Dur]

\* NewOptional builds a disabled client when there is no key; New never does.
Disabled(cfg) == cfg.optional /\ cfg.apiKey = ""

\* option > LLM_COOLDOWN_SECONDS (env, 0 when unset or not a positive integer)
\* > built-in default.
resolveCooldownDuration(explicit, env, builtin) ==
    IF explicit > 0 THEN explicit ELSE IF env > 0 THEN env ELSE builtin

\* A proxy without a key of its own gets the primary key.
buildProxySpecs(cfg) ==
    [i \in DOMAIN cfg.proxyURLs |->
        [url |-> cfg.proxyURLs[i],
         key |-> IF i <= Len(cfg.proxyKeys) /\ cfg.proxyKeys[i] # ""
                 THEN cfg.proxyKeys[i] ELSE cfg.apiKey]]

\* The models of a chain: primary first, then the fallbacks, without blanks
\* and without repetitions.
AddModel(ms, m) == IF m = "" \/ m \in Range(ms) THEN ms ELSE Append(ms, m)
Models(primary, chain) == FoldLeft(AddModel, <<>>, <<primary>> \o chain)

\* The segment of one proxy.
BuildModelChainEndpoints(p, primary, chain) ==
    LET ms == Models(primary, chain)
    IN  [i \in DOMAIN ms |-> [url |-> p.url, key |-> p.key, model |-> ms[i]]]

\* live is the model set that GET /v1/models gave, {} when it could not be
\* fetched or was empty: then, and when nothing would be kept, the segment
\* stays whole.
Filtered(segment, live) ==
    LET kept == SelectSeq(segment, LAMBDA ep : ep.model \in live)
    IN  IF kept = <<>> THEN segment ELSE kept

\* The endpoints New passes to WithEndpoints: none without a model chain; a
\* list of two or more proxies replaces the base URL; anything shorter is
\* ignored.
Proxies(cfg) ==
    IF Len(cfg.proxyURLs) > 1 THEN buildProxySpecs(cfg)
    ELSE << [url |-> cfg.apiBase, key |-> cfg.apiKey] >>

Endpoints(cfg, live) ==
    IF cfg.modelChain = <<>> THEN <<>>
    ELSE LET ps == Proxies(cfg)
             seg(i) == Filtered(BuildModelChainEndpoints(ps[i], cfg.model, cfg.modelChain),
                                live[ps[i].url])
         IN  FlattenSeq([i \in DOMAIN ps |-> seg(i)])

\* The keys of the transport without endpoints: the primary key, even when it
\* is empty, then the fallback keys that are not empty.  WithFallbackKeys is not
\* passed on beside a model chain, even one of blanks that yields no endpoint.
Keys(cfg) ==
    <<cfg.apiKey>> \o (IF cfg.modelChain = <<>> THEN SelectSeq(cfg.fallbacks, LAMBDA k : k # "")
                       ELSE <<>>)
=============================================================================
