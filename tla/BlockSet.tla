------------------------------ MODULE BlockSet ------------------------------
(***************************************************************************)
(* What a block cache promises to the fetch and search layers: a set of    *)
(* hosts that IsBlocked answers TRUE for.  A host enters the set only when *)
(* it is Marked, a Mark may push out at most one other host and only when  *)
(* the cache reports itself full, and otherwise hosts leave one by one     *)
(* when they are Unmarked, or in any number when time passes.              *)
(***************************************************************************)
EXTENDS Naturals

CONSTANTS
    Hosts,  \* the keys: host names in fetch, engine labels in search
    Cap     \* capacity of the cache

VARIABLES
    blocked,  \* the hosts IsBlocked answers TRUE for
    size      \* the answer of Len

vars == <<blocked, size>>

Init == blocked = {} /\ size = 0

Mark(h) ==
    /\ \E out \in SUBSET (blocked \ {h}) :
          /\ \A x, y \in out : x = y
          /\ size < Cap => out = {}
          /\ blocked' = (blocked \ out) \cup {h}
    /\ size' \in {size, size + 1}
    /\ size' <= Cap

Unmark(h) ==
    /\ blocked' = blocked \ {h}
    /\ size' \in {size, size - 1}

\* A lookup may reap the expired entry it met; no answer changes.
Reap ==
    /\ size' = size - 1
    /\ UNCHANGED blocked

Expire ==
    /\ blocked' \subseteq blocked
    /\ UNCHANGED size

Next ==
    \/ \E h \in Hosts : Mark(h) \/ Unmark(h)
    \/ Reap
    \/ Expire

Spec == Init /\ [][Next]_vars
=============================================================================
