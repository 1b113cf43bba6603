--------------------------- MODULE MCSearchDirect ---------------------------
(* Instances of SearchDirect.                                              *)
EXTENDS SearchDirect

R(err, n) == [err |-> err, n |-> n]

MCJobs3 == <<"ddg", "brave", "marginalia">>
MCJobsDDG == <<"ddg">>

MCOx2 == <<"ddg", "brave">>
MCOx1 == <<"ddg">>

\* One call: the answers differ per engine so that every class occurs.
MCReturns3 ==
    [e \in {"ddg", "brave", "marginalia"} |->
        CASE e = "ddg"   -> {R("nil", 1), R("RateLimited", 0), R("DeadlineExceeded", 0)}
          [] e = "brave" -> {R("nil", 2), R("Other", 0)}
          [] OTHER       -> {R("nil", 1)}]

\* Two calls, one engine: it answers with enough results, or hangs until the
\* leg is timed out and the engine Marked.
MCReturns1 == [e \in {"ddg"} |-> {R("nil", 2)}]
=============================================================================
