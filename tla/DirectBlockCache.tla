-------------------------- MODULE DirectBlockCache --------------------------
(***************************************************************************)
(* fetch.DirectBlockCache: a map host -> unblock-at and a slice with the   *)
(* order of insertion.  Every method runs under the mutex, so each one is  *)
(* a single action.  A key that is missing from the Go map has the value   *)
(* Absent here, and the clock is a counter read by time.Now().             *)
(***************************************************************************)
EXTENDS Integers, Sequences, FiniteSets

CONSTANTS
    Hosts,    \* the keys used with the cache
    Cap,      \* cap of NewDirectBlockCache (1024 by default)
    TTL,      \* ttl of NewDirectBlockCache (10 minutes by default)
    MaxTime   \* bound of the clock in the model

\* NewDirectBlockCache replaces a ttl or cap that is not positive by the
\* default, so both are positive in every cache.
ASSUME CapAssumption == Cap \in Nat \ {0}
ASSUME TTLAssumption == TTL \in Nat \ {0}
ASSUME HostsAssumption == IsFiniteSet(Hosts)
ASSUME MaxTimeAssumption == MaxTime \in Nat

VARIABLES
    items,  \* map host -> unblock-at
    order,  \* insertion order, used by evictOldest
    now     \* the clock

vars == <<items, order, now>>

Absent == -1

\* The keys of the Go map.
Keys == {h \in Hosts : items[h] # Absent}

\* len(items), the answer of Len.
Len_items == Cardinality(Keys)

\* time.Now().After(unblockAt): strictly after.
Expired(h) == now > items[h]

\* The answer of IsBlocked.
IsBlocked(h) == h \in Keys /\ ~Expired(h)

Init ==
    /\ items = [h \in Hosts |-> Absent]
    /\ order = <<>>
    /\ now = 0

\* IsBlocked deletes an expired entry from the map, not from the order.
Lookup(h) ==
    /\ items' = [items EXCEPT ![h] = IF Expired(h) THEN Absent ELSE @]
    /\ UNCHANGED <<order, now>>

\* The position evictOldest stops at: the first slot of order whose host is
\* still in the map.
IsOldest(i) ==
    /\ i \in 1..Len(order)
    /\ order[i] \in Keys
    /\ \A j \in 1..(i - 1) : order[j] \notin Keys

\* Mutant: evictOldest pops one slot only, even if its host is gone already.
EvictedHead ==
    [h \in Hosts |-> IF Len(order) > 0 /\ order[1] = h THEN Absent ELSE items[h]]

\* Mutant: a full cache is emptied instead of giving up one host.
EvictedEverything == [h \in Hosts |-> Absent]

\* The map and the slice that evictOldest leaves: the slots up to and
\* including the first live one are popped, that host is deleted.  With no
\* live slot the slice is drained and nothing is deleted.
EvictedItems ==
    [h \in Hosts |-> IF \E i \in 1..Len(order) : IsOldest(i) /\ order[i] = h
                     THEN Absent ELSE items[h]]

EvictedOrder ==
    IF \E i \in 1..Len(order) : IsOldest(i)
    THEN SubSeq(order, (CHOOSE i \in 1..Len(order) : IsOldest(i)) + 1, Len(order))
    ELSE <<>>

\* Mutant: a second Mark makes its host the newest, as in an LRU cache.
MarkKnownRecent(h) ==
    /\ h \in Keys
    /\ items' = [items EXCEPT ![h] = now + TTL]
    /\ order' = Append(SelectSeq(order, LAMBDA x : x # h), h)
    /\ UNCHANGED now

\* A second Mark of a tracked host only refreshes its unblock-at time.
MarkKnown(h) ==
    /\ h \in Keys
    /\ items' = [items EXCEPT ![h] = now + TTL]
    /\ UNCHANGED <<order, now>>

\* Mutant: the capacity test is off by one.
MarkNewEvictsEarly(h) ==
    /\ h \notin Keys
    /\ Len_items < Cap
    /\ items' = [IF Len_items + 1 >= Cap THEN EvictedItems ELSE items EXCEPT ![h] = now + TTL]
    /\ order' = Append(IF Len_items + 1 >= Cap THEN EvictedOrder ELSE order, h)
    /\ UNCHANGED now

MarkNew(h) ==
    /\ h \notin Keys
    /\ Len_items < Cap
    /\ items' = [items EXCEPT ![h] = now + TTL]
    /\ order' = Append(order, h)
    /\ UNCHANGED now

MarkNewFull(h) ==
    /\ h \notin Keys
    /\ Len_items >= Cap
    /\ items' = [EvictedItems EXCEPT ![h] = now + TTL]
    /\ order' = Append(EvictedOrder, h)
    /\ UNCHANGED now

Mark(h) == MarkKnown(h) \/ MarkNew(h) \/ MarkNewFull(h)

\* The first slot of order that holds h.
IsFirstSlot(h, i) ==
    /\ i \in 1..Len(order)
    /\ order[i] = h
    /\ \A j \in 1..(i - 1) : order[j] # h

FirstSlot(h) == CHOOSE i \in 1..Len(order) : IsFirstSlot(h, i)

\* Mutant: the slots before the cut are lost with it.
KeepOnlyTail(h) ==
    IF \E i \in 1..Len(order) : order[i] = h
    THEN SubSeq(order, FirstSlot(h) + 1, Len(order))
    ELSE order

\* The slice without the first slot that holds h.
WithoutFirst(h) ==
    IF \E i \in 1..Len(order) : order[i] = h
    THEN [k \in 1..(Len(order) - 1) |-> IF k < FirstSlot(h) THEN order[k] ELSE order[k + 1]]
    ELSE order

\* Unmark of a host that is not in the map returns early.
Unmark(h) ==
    /\ h \in Keys
    /\ items' = [items EXCEPT ![h] = Absent]
    /\ order' = WithoutFirst(h)
    /\ UNCHANGED now

Tick ==
    /\ now < MaxTime
    /\ now' = now + 1
    /\ UNCHANGED <<items, order>>

Next ==
    \/ \E h \in Hosts : Lookup(h) \/ Mark(h) \/ Unmark(h)
    \/ Tick

Spec == Init /\ [][Next]_vars
-----------------------------------------------------------------------------
(***************************************************************************)
(* Properties.                                                             *)
(***************************************************************************)

TypeOK ==
    /\ items \in [Hosts -> Nat \cup {Absent}]
    /\ order \in Seq(Hosts)
    /\ now \in Nat

\* Every host of the map has a slot in the order slice.  evictOldest relies on
\* it: a tracked host without a slot could never be evicted, and a full cache
\* whose slice holds none of its hosts would grow past cap.
ItemsInOrder == \A h \in Keys : \E i \in 1..Len(order) : order[i] = h

\* The map never holds more than cap hosts, whatever mix of expiries, Unmarks
\* and re-Marks left stale slots in the order slice.
CapBound == Len_items <= Cap

\* The inductive invariant: the slice may hold stale and repeated slots, but
\* evictOldest always finds a victim in it, and so Mark keeps the map in bounds.
Inv == TypeOK /\ ItemsInOrder /\ CapBound

\* A host that IsBlocked reported and that stops being reported while no time
\* passes and the map is not full has been Unmarked: nobody else is lost with
\* it and nobody is added.
LossIsUnmark ==
    \A h \in Hosts :
        (IsBlocked(h) /\ ~IsBlocked(h)' /\ now' = now /\ Len_items < Cap)
            => Keys' = Keys \ {h}

LossOnlyByUnmark == [][LossIsUnmark]_vars

\* The cache implements the promise of BlockSet: only a Mark adds a host, and
\* a host is pushed out only by the Mark of another one in a full cache.
Blocked == {h \in Hosts : IsBlocked(h)}

Abs == INSTANCE BlockSet WITH blocked <- Blocked,
                              size <- Len_items
AbsSpec == Abs!Spec
=============================================================================
