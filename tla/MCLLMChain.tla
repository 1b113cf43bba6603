---------------------------- MODULE MCLLMChain ----------------------------
(* Instances of LLMChain: one client per configuration, two calls.         *)
EXTENDS LLMChain

Base == [optional |-> FALSE, apiBase |-> "u0", apiKey |-> "k", proxyURLs |-> <<>>,
         proxyKeys |-> <<>>, fallbacks |-> <<>>, model |-> "A", modelChain |-> <<>>,
         cooldownDuration |-> 0]

\* Two models behind one proxy, with a repetition and a blank in the chain.
ChainOfTwo == [Base EXCEPT !.modelChain = <<"A", "", "B">>, !.cooldownDuration = 3]
\* One model behind two proxies, so both endpoints share one cooldown entry.
TwoProxies == [Base EXCEPT !.modelChain = <<"A">>, !.proxyURLs = <<"u1", "u2">>,
                           !.proxyKeys = <<"k1">>, !.fallbacks = <<"f1">>]
\* Key rotation, and clients without a key.
KeyRotation == [Base EXCEPT !.fallbacks = <<"", "f1">>, !.proxyURLs = <<"u1">>]
NoKey == [Base EXCEPT !.apiKey = ""]
Absent == [NoKey EXCEPT !.optional = TRUE]

MCConfigs == {ChainOfTwo, TwoProxies, KeyRotation, NoKey, Absent}

\* Nothing fetched; everything served; the first proxy serves another model.
MCLives == {[u \in {"u0", "u1", "u2"} |-> {}],
            [u \in {"u0", "u1", "u2"} |-> IF u = "u2" THEN {"A", "B"} ELSE {"B"}]}
=============================================================================
