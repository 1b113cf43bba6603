------------------------- MODULE MCDirectBlockCache -------------------------
(***************************************************************************)
(* DirectBlockCache with a history variable: which tracked host entered    *)
(* the map before which other, which is what "oldest-inserted" in the      *)
(* documentation of the cache means.                                       *)
(***************************************************************************)
EXTENDS DirectBlockCache, Functions

VARIABLE older  \* <<g, h>>: both are in the map, and g was inserted before h

MCInit == Init /\ older = {}

MCNext ==
    /\ Next
    /\ older' = (older \cup (Keys \X (Keys' \ Keys))) \cap (Keys' \X Keys')

MCSpec == MCInit /\ [][MCNext]_<<vars, older>>

\* v is the host of the map that was inserted first.
OldestInserted(v) == v \in Keys /\ \A g \in Keys \ {v} : <<v, g>> \in older

\* "When capacity is reached, the oldest-inserted entry is removed": true of
\* every eviction as long as no host has two slots in order, stale slots of
\* hosts that are gone included.  A host that expired and was Marked again has
\* two, and its old slot may evict it although it is the newest.
EvictsOldestInserted ==
    [][\A h \in Hosts : (MarkNewFull(h) /\ IsInjective(order)) =>
          \E v \in Keys \ Keys' : OldestInserted(v)]_<<vars, older>>
=============================================================================
