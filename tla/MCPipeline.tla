----------------------------- MODULE MCPipeline -----------------------------
(* An instance of Pipeline.                                                *)
EXTENDS Pipeline

\* Everything configured, and nothing but sources.
MCConfigs ==
    {[fetch |-> TRUE, chunker |-> TRUE, llm |-> TRUE],
     [fetch |-> FALSE, chunker |-> FALSE, llm |-> FALSE]}

A(res, err) == [res |-> res, err |-> err]

\* s1 finds a page twice and an entry without URL; s2 finds a page of
\* its own, or fails half-way through; s3 hangs.
MCAnswers ==
    [s \in {"s1", "s2", "s3"} |->
        CASE s = "s1" -> {A(<<"", "u1", "u1">>, FALSE)}
          [] s = "s2" -> {A(<<"u2">>, FALSE), A(<<"u3">>, TRUE)}
          [] OTHER    -> {}]
=============================================================================
