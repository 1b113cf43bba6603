----------------------------- MODULE MCFetcher -----------------------------
(* Instances of Fetcher.                                                   *)
EXTENDS Fetcher

Ans(status, body) == [err |-> "nil", status |-> status, body |-> body]
NetError == [err |-> "net", status |-> "0", body |-> "page"]
Unreadable == [err |-> "net", status |-> "200", body |-> "page"]
OtherError == [err |-> "other", status |-> "0", body |-> "page"]

\* Two URLs of one host.
MCHostOf == [u \in {"u1", "u2"} |-> "h"]

MCDirect ==
    {Ans("200", "page"), Ans("200", "tiny"), Ans("200", "challenge"), Ans("404", "page"),
     Ans("403", "page"), NetError}
MCNet == {Ans("200", "page"), Ans("404", "page"), Ans("503", "page"), OtherError}
MCNetRead == {Ans("200", "page"), Ans("404", "page"), Ans("503", "page"), Unreadable}

NoRenderer == <<>>
AllRenderers == <<"ox", "gobrowser", "byparr">>
=============================================================================
