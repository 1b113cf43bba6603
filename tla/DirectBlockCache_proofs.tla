---------------------- MODULE DirectBlockCache_proofs ----------------------
(***************************************************************************)
(* Proofs about DirectBlockCache for every set of hosts, capacity, TTL and *)
(* clock bound: the capacity is respected although stale slots accumulate  *)
(* in the order slice, and the cache implements BlockSet.                  *)
(***************************************************************************)
EXTENDS MCDirectBlockCache, TLAPS, FiniteSetTheorems, WellFoundedInduction

\* Every non-empty set of naturals has a least element; evictOldest and the
\* scan in Unmark stop at such an index.
LEMMA LeastNat ==
    ASSUME NEW T \in SUBSET Nat, T # {}
    PROVE  \E x \in T : \A y \in T : x <= y
<1> DEFINE R == {ss \in Nat \X Nat : ss[1] < ss[2]}
<1>1. IsWellFoundedOn(R, Nat)
  BY NatLessThanWellFounded DEF OpToRel
<1>2. \E x \in T : \A y \in T : ~ (<<y, x>> \in R)
  <2> HIDE DEF R
  <2>. QED BY <1>1, WFMin
<1>3. PICK x \in T : \A y \in T : ~ (<<y, x>> \in R)
  BY <1>2
<1>4. ASSUME NEW y \in T
      PROVE  x <= y
  <2>1. x \in Nat /\ y \in Nat
    OBVIOUS
  <2>2. ~ (y < x)
    BY <1>3, <2>1
  <2>. QED BY <2>1, <2>2
<1>. QED BY <1>4

\* The keys of the map form a finite set.
LEMMA KeysFinite ==
    /\ Keys \in SUBSET Hosts
    /\ IsFiniteSet(Keys)
    /\ Len_items \in Nat
BY HostsAssumption, FS_Subset, FS_CardinalityType DEF Keys, Len_items

\* evictOldest finds a victim in a non-empty map.
LEMMA OldestExists ==
    ASSUME TypeOK, ItemsInOrder, Keys # {}
    PROVE  \E i \in 1..Len(order) : IsOldest(i)
<1> DEFINE T == {i \in 1..Len(order) : order[i] \in Keys}
<1>1. T \in SUBSET Nat /\ T # {}
  BY DEF ItemsInOrder, TypeOK
<1>2. PICK i \in T : \A j \in T : i <= j
  BY <1>1, LeastNat
<1>3. \A j \in 1..(i - 1) : order[j] \notin Keys
  BY <1>2 DEF TypeOK
<1>. QED BY <1>2, <1>3 DEF IsOldest

\* The victim is determined: the first slot with a live host.
LEMMA OldestUnique ==
    ASSUME TypeOK, NEW i \in 1..Len(order), NEW j \in 1..Len(order),
           IsOldest(i), IsOldest(j)
    PROVE  i = j
BY DEF IsOldest, TypeOK

\* What evictOldest does to the map and to the slice.
LEMMA EvictEffect ==
    ASSUME TypeOK, NEW i \in 1..Len(order), IsOldest(i)
    PROVE  /\ order[i] \in Keys
           /\ EvictedItems = [items EXCEPT ![order[i]] = Absent]
           /\ EvictedOrder = SubSeq(order, i + 1, Len(order))
<1>1. order[i] \in Keys
  BY DEF IsOldest
<1>2. \A h \in Hosts : (\E k \in 1..Len(order) : IsOldest(k) /\ order[k] = h) <=> h = order[i]
  BY OldestUnique
<1>3. EvictedItems = [items EXCEPT ![order[i]] = Absent]
  BY <1>1, <1>2 DEF EvictedItems, TypeOK, Keys
<1>4. (CHOOSE k \in 1..Len(order) : IsOldest(k)) = i
  BY OldestUnique
<1>. QED BY <1>1, <1>3, <1>4 DEF EvictedOrder

\* The slice after Unmark: no other host loses its slot.
LEMMA WithoutFirstEffect ==
    ASSUME TypeOK, NEW h \in Hosts
    PROVE  /\ WithoutFirst(h) \in Seq(Hosts)
           /\ \A k \in 1..Len(order) : order[k] # h =>
                 \E m \in 1..Len(WithoutFirst(h)) : WithoutFirst(h)[m] = order[k]
<1>1. CASE ~ \E i \in 1..Len(order) : order[i] = h
  BY <1>1 DEF WithoutFirst, TypeOK
<1>2. CASE \E i \in 1..Len(order) : order[i] = h
  <2> DEFINE T == {i \in 1..Len(order) : order[i] = h}
             s == WithoutFirst(h)
             f == FirstSlot(h)
  <2>1. T \in SUBSET Nat /\ T # {}
    BY <1>2
  <2>2. \E i \in 1..Len(order) : IsFirstSlot(h, i)
    <3>1. PICK i \in T : \A j \in T : i <= j
      BY <2>1, LeastNat
    <3>. QED BY <3>1 DEF IsFirstSlot, TypeOK
  <2>3. f \in 1..Len(order) /\ order[f] = h
    BY <2>2 DEF FirstSlot, IsFirstSlot
  <2>4. s = [k \in 1..(Len(order) - 1) |-> IF k < f THEN order[k] ELSE order[k + 1]]
    BY <1>2 DEF WithoutFirst
  <2> HIDE DEF f
  <2>5. Len(order) \in Nat /\ Len(order) >= 1
    BY <2>3 DEF TypeOK
  <2>6. \A k \in 1..(Len(order) - 1) : s[k] \in Hosts
    BY <2>3, <2>4, <2>5 DEF TypeOK
  <2>7. s \in Seq(Hosts) /\ Len(s) = Len(order) - 1
    BY <2>4, <2>5, <2>6
  <2>8. ASSUME NEW k \in 1..Len(order), order[k] # h
        PROVE  \E m \in 1..Len(s) : s[m] = order[k]
    <3> HIDE DEF s
    <3>1. k # f
      BY <2>3, <2>8
    <3>2. CASE k < f
      BY <2>3, <2>4, <2>5, <2>7, <3>2
    <3>3. CASE k > f
      <4>1. k - 1 \in 1..Len(s) /\ ~(k - 1 < f) /\ (k - 1) + 1 = k
        BY <2>3, <2>5, <2>7, <3>3
      <4>2. s[k - 1] = order[k]
        BY <2>4, <2>7, <4>1
      <4>. QED BY <4>1, <4>2
    <3>. QED BY <3>1, <3>2, <3>3, <2>3
  <2>. QED BY <2>7, <2>8
<1>. QED BY <1>1, <1>2

-----------------------------------------------------------------------------
\* The keys each action leaves; Mark of a new host in a full map replaces one.
LEMMA LookupKeys ==
    ASSUME TypeOK, NEW h \in Hosts, Lookup(h)
    PROVE  Keys' \subseteq Keys /\ (Keys' = Keys \/ Keys' = Keys \ {h})
BY DEF TypeOK, Lookup, Keys, Expired, Absent

LEMMA MarkKnownKeys ==
    ASSUME TypeOK, NEW h \in Hosts, MarkKnown(h)
    PROVE  Keys' = Keys
BY TTLAssumption DEF TypeOK, MarkKnown, Keys, Absent

LEMMA MarkNewKeys ==
    ASSUME TypeOK, NEW h \in Hosts, MarkNew(h)
    PROVE  Keys' = Keys \cup {h}
BY TTLAssumption DEF TypeOK, MarkNew, Keys, Absent

LEMMA MarkNewFullKeys ==
    ASSUME TypeOK, NEW h \in Hosts, MarkNewFull(h),
           NEW i \in 1..Len(order), IsOldest(i)
    PROVE  Keys' = (Keys \ {order[i]}) \cup {h} /\ order[i] \in Keys /\ order[i] # h
<1>1. order[i] \in Keys /\ items' = [[items EXCEPT ![order[i]] = Absent] EXCEPT ![h] = now + TTL]
  BY EvictEffect DEF MarkNewFull
<1>. QED BY <1>1, TTLAssumption DEF TypeOK, MarkNewFull, Keys, Absent

LEMMA UnmarkKeys ==
    ASSUME TypeOK, NEW h \in Hosts, Unmark(h)
    PROVE  Keys' = Keys \ {h}
BY DEF TypeOK, Unmark, Keys, Absent

\* A full cache has a victim.
LEMMA FullHasOldest ==
    ASSUME Inv, Len_items >= Cap
    PROVE  \E i \in 1..Len(order) : IsOldest(i)
<1>1. Keys # {}
  BY CapAssumption, KeysFinite, FS_EmptySet DEF Len_items
<1>. QED BY <1>1, OldestExists DEF Inv

\* The inductive step: every operation of the cache preserves the invariant.
LEMMA InvStep == Inv /\ [Next]_vars => Inv'
<1> SUFFICES ASSUME Inv, [Next]_vars PROVE Inv'
  OBVIOUS
<1> USE DEF Inv
<1>1. ASSUME NEW h \in Hosts, Lookup(h) PROVE Inv'
  <2>1. TypeOK'
    BY <1>1 DEF TypeOK, Lookup, Absent
  <2>2. ItemsInOrder'
    BY <1>1, LookupKeys DEF ItemsInOrder, Lookup
  <2>3. CapBound'
    <3>1. Cardinality(Keys') <= Cardinality(Keys)
      BY <1>1, LookupKeys, KeysFinite, FS_Subset
    <3>2. Cardinality(Keys') \in Nat
      BY <1>1, LookupKeys, KeysFinite, FS_Subset, FS_CardinalityType
    <3>. QED BY <3>1, <3>2, KeysFinite, CapAssumption DEF CapBound, Len_items
  <2>. QED BY <2>1, <2>2, <2>3
<1>2. ASSUME NEW h \in Hosts, MarkKnown(h) PROVE Inv'
  <2>1. TypeOK'
    BY <1>2, TTLAssumption DEF TypeOK, MarkKnown
  <2>. QED BY <1>2, <2>1, MarkKnownKeys DEF ItemsInOrder, CapBound, Len_items, MarkKnown
<1>3. ASSUME NEW h \in Hosts, MarkNew(h) PROVE Inv'
  <2>1. TypeOK'
    BY <1>3, TTLAssumption DEF TypeOK, MarkNew
  <2>2. ItemsInOrder'
    <3>1. /\ Len(order') = Len(order) + 1 /\ Len(order) \in Nat
          /\ order'[Len(order) + 1] = h
          /\ \A k \in 1..Len(order) : order'[k] = order[k]
      BY <1>3 DEF MarkNew, TypeOK
    <3>2. ASSUME NEW g \in Keys' PROVE \E k \in 1..Len(order') : order'[k] = g
      <4>1. CASE g = h
        BY <3>1, <4>1
      <4>2. CASE g \in Keys
        BY <3>1, <4>2 DEF ItemsInOrder
      <4>. QED BY <4>1, <4>2, <1>3, MarkNewKeys
    <3>. QED BY <3>2 DEF ItemsInOrder
  <2>3. CapBound'
    <3>1. Cardinality(Keys \cup {h}) = Cardinality(Keys) + 1
      BY <1>3, KeysFinite, FS_AddElement DEF MarkNew
    <3>2. Keys' = Keys \cup {h}
      BY <1>3, MarkNewKeys
    <3>. QED BY <1>3, <3>1, <3>2, KeysFinite, CapAssumption DEF CapBound, Len_items, MarkNew
  <2>. QED BY <2>1, <2>2, <2>3
<1>4. ASSUME NEW h \in Hosts, MarkNewFull(h) PROVE Inv'
  <2>1. PICK i \in 1..Len(order) : IsOldest(i)
    BY <1>4, FullHasOldest DEF MarkNewFull
  <2>2. /\ order[i] \in Keys
        /\ items' = [[items EXCEPT ![order[i]] = Absent] EXCEPT ![h] = now + TTL]
        /\ order' = Append(SubSeq(order, i + 1, Len(order)), h)
    BY <1>4, <2>1, EvictEffect DEF MarkNewFull
  <2> DEFINE tl == SubSeq(order, i + 1, Len(order))
  <2>6. tl \in Seq(Hosts)
    BY DEF TypeOK
  <2>7. order' = Append(tl, h)
    BY <2>2
  <2>3. TypeOK'
    <3> HIDE DEF tl
    <3>1. order' \in Seq(Hosts)
      BY <2>6, <2>7
    <3>2. items' \in [Hosts -> Nat \cup {Absent}]
      BY <2>2, TTLAssumption, SMTT(30) DEF TypeOK, Absent
    <3>. QED BY <1>4, <3>1, <3>2 DEF TypeOK, MarkNewFull
  <2>4. ItemsInOrder'
    <3>1. /\ Len(tl) = Len(order) - i /\ Len(order) \in Nat /\ i \in 1..Len(order)
          /\ \A k \in 1..(Len(order) - i) : tl[k] = order[i + k]
      BY DEF TypeOK
    <3>2. /\ Len(order') = Len(tl) + 1
          /\ order'[Len(tl) + 1] = h
          /\ \A k \in 1..Len(tl) : order'[k] = tl[k]
      <4> HIDE DEF tl
      <4>. QED BY <2>6, <2>7
    <3> HIDE DEF tl
    <3>3. ASSUME NEW g \in Keys' PROVE \E k \in 1..Len(order') : order'[k] = g
      <4>1. CASE g = h
        BY <3>1, <3>2, <4>1
      <4>2. CASE g \in Keys /\ g # order[i]
        <5>1. PICK k \in 1..Len(order) : order[k] = g
          BY <4>2 DEF ItemsInOrder
        <5>2. k > i
          BY <2>1, <4>2, <5>1, <3>1 DEF IsOldest
        <5>3. k - i \in 1..(Len(order) - i) /\ i + (k - i) = k
          BY <5>2, <3>1
        <5>4. order'[k - i] = g
          BY <5>1, <5>3, <3>1, <3>2
        <5>. QED BY <5>3, <5>4, <3>1, <3>2
      <4>. QED BY <4>1, <4>2, <1>4, <2>1, MarkNewFullKeys
    <3>. QED BY <3>3 DEF ItemsInOrder
  <2>5. CapBound'
    <3>1. Keys' = (Keys \ {order[i]}) \cup {h} /\ order[i] \in Keys
      BY <1>4, <2>1, MarkNewFullKeys
    <3>2. /\ IsFiniteSet(Keys \ {order[i]})
          /\ Cardinality(Keys \ {order[i]}) = Cardinality(Keys) - 1
      BY <3>1, KeysFinite, FS_RemoveElement
    <3>3. \/ Cardinality(Keys') = Cardinality(Keys) - 1
          \/ Cardinality(Keys') = Cardinality(Keys) - 1 + 1
      BY <3>1, <3>2, FS_AddElement, ZenonT(60)
    <3>. QED BY <3>3, KeysFinite, CapAssumption DEF CapBound, Len_items
  <2>. QED BY <2>3, <2>4, <2>5
<1>5. ASSUME NEW h \in Hosts, Unmark(h) PROVE Inv'
  <2>1. TypeOK'
    BY <1>5, WithoutFirstEffect DEF TypeOK, Unmark, Absent
  <2>2. ItemsInOrder'
    <3>1. ASSUME NEW g \in Keys, g # h PROVE \E m \in 1..Len(order') : order'[m] = g
      <4>1. PICK k \in 1..Len(order) : order[k] = g
        BY DEF ItemsInOrder
      <4>. QED BY <1>5, <3>1, <4>1, WithoutFirstEffect DEF Unmark
    <3>. QED BY <1>5, <3>1, UnmarkKeys DEF ItemsInOrder
  <2>3. CapBound'
    BY <1>5, UnmarkKeys, KeysFinite, FS_RemoveElement, CapAssumption DEF CapBound, Len_items
  <2>. QED BY <2>1, <2>2, <2>3
<1>6. ASSUME Tick PROVE Inv'
  BY <1>6 DEF Tick, TypeOK, ItemsInOrder, CapBound, Len_items, Keys
<1>7. ASSUME UNCHANGED vars PROVE Inv'
  BY <1>7 DEF vars, TypeOK, ItemsInOrder, CapBound, Len_items, Keys
<1>. QED BY <1>1, <1>2, <1>3, <1>4, <1>5, <1>6, <1>7 DEF Next, Mark

\* The cache holds at most cap hosts and every one of them can be found by
\* evictOldest, in every reachable state and for every capacity and TTL.
THEOREM InvHolds == Spec => []Inv
<1>1. Init => Inv
  <2> SUFFICES ASSUME Init PROVE Inv
    OBVIOUS
  <2>1. Keys = {}
    BY DEF Init, Keys
  <2>2. TypeOK
    BY DEF Init, TypeOK, Absent
  <2>. QED BY <2>1, <2>2, FS_EmptySet, CapAssumption
       DEF Inv, ItemsInOrder, CapBound, Len_items
<1>. QED BY <1>1, InvStep, PTL DEF Spec

\* len(items) never exceeds cap.
THEOREM CapBoundHolds == Spec => []CapBound
BY InvHolds, PTL DEF Inv

-----------------------------------------------------------------------------
\* Below capacity, a blocked host is lost before its TTL only through Unmark.
THEOREM LossOnlyByUnmarkHolds == Spec => LossOnlyByUnmark
<1>1. Inv /\ [Next]_vars => [LossIsUnmark]_vars
  <2> SUFFICES ASSUME Inv, Next, NEW h \in Hosts,
                      IsBlocked(h), ~IsBlocked(h)', now' = now, Len_items < Cap
               PROVE  Keys' = Keys \ {h}
    BY DEF LossIsUnmark
  <2> USE DEF Inv
  <2>1. ASSUME NEW g \in Hosts, Lookup(g) PROVE FALSE
    BY <2>1 DEF Lookup, IsBlocked, Expired, Keys, TypeOK, Absent
  <2>2. ASSUME NEW g \in Hosts, MarkKnown(g) PROVE FALSE
    BY <2>2, TTLAssumption DEF MarkKnown, IsBlocked, Expired, Keys, TypeOK, Absent
  <2>3. ASSUME NEW g \in Hosts, MarkNew(g) PROVE FALSE
    BY <2>3, TTLAssumption DEF MarkNew, IsBlocked, Expired, Keys, TypeOK, Absent
  <2>4. ASSUME NEW g \in Hosts, MarkNewFull(g) PROVE FALSE
    BY <2>4, KeysFinite, CapAssumption DEF MarkNewFull
  <2>5. ASSUME NEW g \in Hosts, Unmark(g) PROVE Keys' = Keys \ {h}
    <3>1. g = h
      BY <2>5 DEF Unmark, IsBlocked, Expired, Keys, TypeOK, Absent
    <3>. QED BY <2>5, <3>1, UnmarkKeys
  <2>6. ASSUME Tick PROVE FALSE
    BY <2>6 DEF Tick, TypeOK
  <2>. QED BY <2>1, <2>2, <2>3, <2>4, <2>5, <2>6 DEF Next, Mark
<1>. QED BY <1>1, InvHolds, PTL DEF Spec, LossOnlyByUnmark

\* DirectBlockCache implements BlockSet: the fetch and search layers may treat
\* the cache as a set that only Mark extends.
THEOREM Refinement == Spec => AbsSpec
<1> USE DEF Inv
<1>1. Init => Abs!Init
  <2> SUFFICES ASSUME Init PROVE Abs!Init
    OBVIOUS
  <2>1. Keys = {}
    BY DEF Init, Keys
  <2>2. Blocked = {}
    BY <2>1 DEF Blocked, IsBlocked
  <2>. QED BY <2>1, <2>2, FS_EmptySet DEF Abs!Init, Len_items
<1>2. Inv /\ [Next]_vars => [Abs!Next]_(Abs!vars)
  <2> SUFFICES ASSUME Inv, [Next]_vars PROVE [Abs!Next]_(Abs!vars)
    OBVIOUS
  <2>0. Len_items \in Nat /\ Len_items <= Cap
    BY KeysFinite DEF CapBound
  <2>1. ASSUME NEW h \in Hosts, Lookup(h) PROVE [Abs!Next]_(Abs!vars)
    <3>1. Blocked' = Blocked
      BY <2>1 DEF Lookup, Blocked, IsBlocked, Expired, Keys, TypeOK, Absent
    <3>2. CASE Keys' = Keys
      BY <3>1, <3>2 DEF Abs!vars, Len_items
    <3>3. CASE Keys' = Keys \ {h} /\ h \in Keys
      <4>1. Len_items' = Len_items - 1
        BY <3>3, KeysFinite, FS_RemoveElement DEF Len_items
      <4>. QED BY <3>1, <4>1 DEF Abs!Next, Abs!Reap
    <3>. QED BY <2>1, <3>2, <3>3, LookupKeys
  <2>2. ASSUME NEW h \in Hosts, MarkKnown(h) PROVE [Abs!Next]_(Abs!vars)
    <3>1. Blocked' = (Blocked \ {}) \cup {h}
      BY <2>2, TTLAssumption DEF MarkKnown, Blocked, IsBlocked, Expired, Keys, TypeOK, Absent
    <3>2. Len_items' = Len_items
      BY <2>2, MarkKnownKeys DEF Len_items
    <3>3. Abs!Mark(h)
      <4>1. \E o \in SUBSET (Blocked \ {h}) :
               /\ \A x, y \in o : x = y
               /\ Len_items < Cap => o = {}
               /\ Blocked' = (Blocked \ o) \cup {h}
        <5>1. {} \in SUBSET (Blocked \ {h}) /\ \A x, y \in {} : x = y
          OBVIOUS
        <5>. QED BY <5>1, <3>1
      <4>2. Len_items' \in {Len_items, Len_items + 1} /\ Len_items' <= Cap
        BY <2>0, CapAssumption, <3>2
      <4>. QED BY <4>1, <4>2 DEF Abs!Mark
    <3>. QED BY <3>3 DEF Abs!Next
  <2>3. ASSUME NEW h \in Hosts, MarkNew(h) PROVE [Abs!Next]_(Abs!vars)
    <3>1. Blocked' = (Blocked \ {}) \cup {h}
      BY <2>3, TTLAssumption DEF MarkNew, Blocked, IsBlocked, Expired, Keys, TypeOK, Absent
    <3>2. Cardinality(Keys \cup {h}) = Cardinality(Keys) + 1
      BY <2>3, KeysFinite, FS_AddElement DEF MarkNew
    <3>3. Len_items' = Len_items + 1 /\ Len_items < Cap
      BY <2>3, <3>2, MarkNewKeys DEF Len_items, MarkNew
    <3>4. Abs!Mark(h)
      <4>1. \E o \in SUBSET (Blocked \ {h}) :
               /\ \A x, y \in o : x = y
               /\ Len_items < Cap => o = {}
               /\ Blocked' = (Blocked \ o) \cup {h}
        <5>1. {} \in SUBSET (Blocked \ {h}) /\ \A x, y \in {} : x = y
          OBVIOUS
        <5>. QED BY <5>1, <3>1
      <4>2. Len_items' \in {Len_items, Len_items + 1} /\ Len_items' <= Cap
        BY <2>0, CapAssumption, <3>3
      <4>. QED BY <4>1, <4>2 DEF Abs!Mark
    <3>. QED BY <3>4 DEF Abs!Next
  <2>4. ASSUME NEW h \in Hosts, MarkNewFull(h) PROVE [Abs!Next]_(Abs!vars)
    <3>1. PICK i \in 1..Len(order) : IsOldest(i)
      BY <2>4, FullHasOldest DEF MarkNewFull
    <3> DEFINE out == Blocked \cap {order[i]}
    <3>2. /\ Keys' = (Keys \ {order[i]}) \cup {h}
          /\ order[i] \in Keys /\ order[i] # h /\ h \notin Keys
          /\ items' = [[items EXCEPT ![order[i]] = Absent] EXCEPT ![h] = now + TTL]
          /\ now' = now
      BY <2>4, <3>1, MarkNewFullKeys, EvictEffect DEF MarkNewFull
    <3>3. Blocked' = (Blocked \ out) \cup {h}
      BY <3>2, TTLAssumption DEF Blocked, IsBlocked, Expired, Keys, TypeOK, Absent
    <3>4. out \in SUBSET (Blocked \ {h}) /\ \A x, y \in out : x = y
      BY <3>2
    <3>5. Len_items' = Len_items
      <4>1. /\ IsFiniteSet(Keys \ {order[i]})
            /\ Cardinality(Keys \ {order[i]}) = Cardinality(Keys) - 1
        BY <3>2, KeysFinite, FS_RemoveElement
      <4>2. h \notin Keys \ {order[i]}
        BY <3>2
      <4>3. Cardinality((Keys \ {order[i]}) \cup {h}) = Cardinality(Keys) - 1 + 1
        BY <4>1, <4>2, FS_AddElement
      <4>. QED BY <3>2, <4>3, <2>0 DEF Len_items
    <3>6. ~(Len_items < Cap)
      BY <2>0, <2>4, CapAssumption DEF MarkNewFull
    <3> HIDE DEF out
    <3>7. Abs!Mark(h)
      <4>1. \E o \in SUBSET (Blocked \ {h}) :
               /\ \A x, y \in o : x = y
               /\ Len_items < Cap => o = {}
               /\ Blocked' = (Blocked \ o) \cup {h}
        <5>1. out \in SUBSET (Blocked \ {h}) /\ \A x, y \in out : x = y
          BY <3>4
        <5>. QED BY <5>1, <3>3, <3>6
      <4>2. Len_items' \in {Len_items, Len_items + 1} /\ Len_items' <= Cap
        BY <2>0, CapAssumption, <3>5
      <4>. QED BY <4>1, <4>2 DEF Abs!Mark
    <3>. QED BY <3>7 DEF Abs!Next
  <2>5. ASSUME NEW h \in Hosts, Unmark(h) PROVE [Abs!Next]_(Abs!vars)
    <3>1. Blocked' = Blocked \ {h}
      BY <2>5 DEF Unmark, Blocked, IsBlocked, Expired, Keys, TypeOK, Absent
    <3>2. Len_items' = Len_items - 1
      BY <2>5, UnmarkKeys, KeysFinite, FS_RemoveElement DEF Len_items, Unmark
    <3>3. Abs!Unmark(h)
      BY <3>1, <3>2 DEF Abs!Unmark
    <3>. QED BY <3>3 DEF Abs!Next
  <2>6. ASSUME Tick PROVE [Abs!Next]_(Abs!vars)
    <3>1. Blocked' \subseteq Blocked
      BY <2>6 DEF Tick, Blocked, IsBlocked, Expired, Keys, TypeOK, Absent
    <3>2. Len_items' = Len_items
      BY <2>6 DEF Tick, Len_items, Keys
    <3>. QED BY <3>1, <3>2 DEF Abs!Next, Abs!Expire
  <2>7. ASSUME UNCHANGED vars PROVE [Abs!Next]_(Abs!vars)
    BY <2>7 DEF vars, Abs!vars, Blocked, IsBlocked, Expired, Keys, Len_items
  <2>. QED BY <2>1, <2>2, <2>3, <2>4, <2>5, <2>6, <2>7 DEF Next, Mark
<1>. QED BY <1>1, <1>2, InvHolds, PTL DEF Spec, AbsSpec, Abs!Spec

-----------------------------------------------------------------------------
(* EvictsOldestInserted.                                                   *)

\* h has a slot behind all slots of g.
Behind(g, h) ==
    \E k \in 1..Len(order) : order[k] = h /\ \A j \in 1..Len(order) : order[j] = g => j < k

\* The slice remembers the order of insertion by the last slot of every host,
\* whatever stale and repeated slots come before it.
SlicesInsertion ==
    \A g \in Keys, h \in Keys : g # h /\ Behind(g, h) => <<g, h>> \in older

\* A step that adds no host and moves no slot of the hosts that stay in front of
\* another one keeps the correspondence.
LEMMA InsertionKept ==
    ASSUME SlicesInsertion, Keys' \subseteq Keys,
           older' = (older \cup (Keys \X (Keys' \ Keys))) \cap (Keys' \X Keys'),
           \A g \in Keys', h \in Keys' : g # h /\ Behind(g, h)' => Behind(g, h)
    PROVE  SlicesInsertion'
BY DEF SlicesInsertion

\* Unmark closes the gap its slot leaves and keeps the order of the others.
LEMMA UnmarkBehind ==
    ASSUME TypeOK, NEW x \in Hosts, Unmark(x), NEW g \in Hosts \ {x}, NEW h \in Hosts \ {x},
           Behind(g, h)'
    PROVE  Behind(g, h)
<1>1. CASE ~ \E i \in 1..Len(order) : order[i] = x
  BY <1>1 DEF Unmark, WithoutFirst, Behind
<1>2. CASE \E i \in 1..Len(order) : order[i] = x
  <2> DEFINE T == {i \in 1..Len(order) : order[i] = x}
             f == FirstSlot(x)
  <2>1. T \in SUBSET Nat /\ T # {}
    BY <1>2
  <2>2. \E i \in 1..Len(order) : IsFirstSlot(x, i)
    <3>1. PICK i \in T : \A j \in T : i <= j
      BY <2>1, LeastNat
    <3>. QED BY <3>1 DEF IsFirstSlot, TypeOK
  <2>3. f \in 1..Len(order) /\ order[f] = x /\ Len(order) \in Nat
    BY <2>2 DEF FirstSlot, IsFirstSlot, TypeOK
  <2>4. order' = [k \in 1..(Len(order) - 1) |-> IF k < f THEN order[k] ELSE order[k + 1]]
    BY <1>2 DEF Unmark, WithoutFirst
  <2> HIDE DEF f
  <2>5. Len(order') = Len(order) - 1
    <3>1. \A k \in 1..(Len(order) - 1) : order'[k] \in Hosts
      BY <2>3, <2>4 DEF TypeOK
    <3>. QED BY <2>3, <2>4, <3>1
  <2>6. PICK k \in 1..Len(order') : order'[k] = h /\ \A j \in 1..Len(order') : order'[j] = g => j < k
    BY DEF Behind
  <2> DEFINE p == IF k < f THEN k ELSE k + 1
  <2>7. p \in 1..Len(order) /\ order[p] = h
    BY <2>3, <2>4, <2>5, <2>6
  <2>8. ASSUME NEW j \in 1..Len(order), order[j] = g PROVE j < p
    <3>1. j # f
      BY <2>3, <2>8
    <3>2. CASE j < f
      <4>1. j \in 1..Len(order') /\ order'[j] = g
        BY <2>3, <2>4, <2>5, <2>8, <3>2
      <4>. QED BY <2>3, <2>5, <2>6, <4>1
    <3>3. CASE j > f
      <4>1. j - 1 \in 1..Len(order') /\ ~(j - 1 < f) /\ (j - 1) + 1 = j
        BY <2>3, <2>5, <3>3
      <4>2. order'[j - 1] = g
        BY <2>4, <2>5, <2>8, <4>1
      <4>3. j - 1 < k
        BY <2>6, <4>1, <4>2
      <4>. QED BY <2>3, <2>5, <3>3, <4>3
    <3>. QED BY <2>3, <3>1, <3>2, <3>3
  <2>. QED BY <2>7, <2>8 DEF Behind
<1>. QED BY <1>1, <1>2

\* A new host goes to the end of what is left of the slice: i slots are popped,
\* none of them of a host that stays.
LEMMA MarkBehind ==
    ASSUME TypeOK, NEW x \in Hosts, NEW i \in 0..Len(order), NEW t \in Seq(Hosts),
           Len(t) = Len(order) - i, \A k \in 1..Len(t) : t[k] = order[i + k],
           order' = Append(t, x),
           NEW g \in Hosts, \A j \in 1..i : order[j] # g,
           NEW h \in Hosts \ {x},
           Behind(g, h)'
    PROVE  g # x /\ Behind(g, h)
<1>1. /\ Len(order) \in Nat /\ Len(t) \in Nat /\ Len(order') = Len(t) + 1 /\ order'[Len(t) + 1] = x
      /\ \A k \in 1..Len(t) : order'[k] = t[k]
  BY DEF TypeOK
<1>2. PICK k \in 1..Len(order') : order'[k] = h /\ \A j \in 1..Len(order') : order'[j] = g => j < k
  BY DEF Behind
<1>3. k \in 1..Len(t) /\ i + k \in 1..Len(order) /\ order[i + k] = h
  <2>1. k # Len(t) + 1
    BY <1>1, <1>2
  <2>2. k \in 1..Len(t)
    BY <1>1, <1>2, <2>1
  <2>. QED BY <1>1, <1>2, <2>2
<1>4. g # x
  BY <1>1, <1>2, <1>3, SMTT(30)
<1>5. ASSUME NEW j \in 1..Len(order), order[j] = g PROVE j < i + k
  <2>1. CASE j <= i
    BY <1>1, <1>5, <2>1
  <2>2. CASE j > i
    <3>1. j - i \in 1..Len(t) /\ i + (j - i) = j
      BY <1>1, <2>2
    <3>2. order'[j - i] = g /\ j - i \in 1..Len(order')
      BY <1>1, <1>5, <3>1
    <3>3. j - i < k
      BY <1>2, <3>2
    <3>. QED BY <1>1, <1>3, <3>3
  <2>. QED BY <1>1, <2>1, <2>2
<1>. QED BY <1>3, <1>4, <1>5 DEF Behind

\* The Mark of a new host, with or without an eviction before it.
LEMMA MarkInsertion ==
    ASSUME TypeOK, SlicesInsertion, NEW x \in Hosts \ Keys, NEW i \in 0..Len(order), NEW t \in Seq(Hosts),
           Len(t) = Len(order) - i, \A k \in 1..Len(t) : t[k] = order[i + k],
           order' = Append(t, x),
           x \in Keys', Keys' \subseteq Keys \cup {x},
           \A g \in Keys' : g # x => \A j \in 1..i : order[j] # g,
           older' = (older \cup (Keys \X (Keys' \ Keys))) \cap (Keys' \X Keys')
    PROVE  SlicesInsertion'
<1> SUFFICES ASSUME NEW g \in Keys', NEW h \in Keys', g # h, Behind(g, h)'
             PROVE  <<g, h>> \in older'
  BY DEF SlicesInsertion
<1>0. g \in Hosts /\ h \in Hosts
  BY DEF Keys
<1>1. CASE h = x
  BY <1>1
<1>2. CASE h # x /\ g # x
  <2>1. Behind(g, h)
    BY <1>0, <1>2, MarkBehind
  <2>. QED BY <1>2, <2>1 DEF SlicesInsertion
<1>3. CASE h # x /\ g = x
  <2>1. /\ Len(t) \in Nat /\ Len(order') = Len(t) + 1 /\ order'[Len(t) + 1] = x
    OBVIOUS
  <2>2. PICK k \in 1..Len(order') : \A j \in 1..Len(order') : order'[j] = x => j < k
    BY <1>3 DEF Behind
  <2>. QED BY <2>1, <2>2, SMTT(30)
<1>. QED BY <1>1, <1>2, <1>3

\* Every step keeps the correspondence.
LEMMA InsertionStep == Inv /\ SlicesInsertion /\ [MCNext]_<<vars, older>> => SlicesInsertion'
<1> SUFFICES ASSUME Inv, SlicesInsertion, [MCNext]_<<vars, older>> PROVE SlicesInsertion'
  OBVIOUS
<1>0. TypeOK /\ Keys \subseteq Hosts
  BY DEF Inv, Keys
<1>1. CASE UNCHANGED <<vars, older>>
  BY <1>1 DEF vars, SlicesInsertion, Keys, Behind
<1>2. CASE MCNext
  <2>0. older' = (older \cup (Keys \X (Keys' \ Keys))) \cap (Keys' \X Keys')
    BY <1>2 DEF MCNext
  <2>1. ASSUME order' = order, Keys' \subseteq Keys PROVE SlicesInsertion'
    BY <2>0, <2>1, InsertionKept DEF Behind
  <2>2. CASE Tick \/ \E h \in Hosts : Lookup(h) \/ MarkKnown(h)
    <3>1. order' = order
      BY <2>2 DEF Tick, Lookup, MarkKnown
    <3>2. Keys' \subseteq Keys
      BY <1>0, <2>2, LookupKeys, MarkKnownKeys, SMTT(30) DEF Tick, Keys
    <3>. QED BY <2>1, <3>1, <3>2
  <2>3. ASSUME NEW x \in Hosts, MarkNew(x) PROVE SlicesInsertion'
    <3>1. Keys' = Keys \cup {x} /\ x \notin Keys /\ order' = Append(order, x)
      BY <1>0, <2>3, MarkNewKeys DEF MarkNew
    <3>2. order \in Seq(Hosts) /\ Len(order) = Len(order) - 0 /\ 0 \in 0..Len(order)
          /\ \A k \in 1..Len(order) : order[k] = order[0 + k]
      BY <1>0 DEF TypeOK
    <3>3. \A g \in Keys' : g # x => \A j \in 1..0 : order[j] # g
      OBVIOUS
    <3>. QED BY <1>0, <2>0, <3>1, <3>2, <3>3, MarkInsertion
  <2>4. ASSUME NEW x \in Hosts, MarkNewFull(x) PROVE SlicesInsertion'
    <3>1. PICK i \in 1..Len(order) : IsOldest(i)
      BY <2>4, FullHasOldest DEF MarkNewFull
    <3> DEFINE t == SubSeq(order, i + 1, Len(order))
    <3>2. order' = Append(t, x) /\ x \notin Keys
      BY <1>0, <2>4, <3>1, EvictEffect DEF MarkNewFull
    <3>3. /\ t \in Seq(Hosts) /\ Len(t) = Len(order) - i /\ i \in 0..Len(order)
          /\ \A k \in 1..Len(t) : t[k] = order[i + k]
      BY <1>0 DEF TypeOK
    <3>4. Keys' = (Keys \ {order[i]}) \cup {x}
      BY <1>0, <2>4, <3>1, MarkNewFullKeys
    <3>5. \A g \in Keys' : g # x => \A j \in 1..i : order[j] # g
      BY <1>0, <3>1, <3>4 DEF IsOldest, TypeOK
    <3> HIDE DEF t
    <3>. QED BY <1>0, <2>0, <3>2, <3>3, <3>4, <3>5, MarkInsertion
  <2>5. ASSUME NEW x \in Hosts, Unmark(x) PROVE SlicesInsertion'
    <3>1. Keys' = Keys \ {x}
      BY <1>0, <2>5, UnmarkKeys
    <3>2. ASSUME NEW g \in Keys', NEW h \in Keys', Behind(g, h)' PROVE Behind(g, h)
      <4>1. g \in Hosts \ {x} /\ h \in Hosts \ {x}
        BY <1>0, <3>1
      <4>. QED BY <1>0, <2>5, <3>2, <4>1, UnmarkBehind
    <3>. QED BY <2>0, <3>1, <3>2, InsertionKept
  <2>. QED BY <1>2, <2>2, <2>3, <2>4, <2>5 DEF MCNext, Next, Mark
<1>. QED BY <1>1, <1>2

\* In a cache of any capacity a Mark that finds it full evicts the host that was
\* inserted first, as long as no host has two slots in the order slice.
THEOREM EvictsOldestHolds == MCSpec => EvictsOldestInserted
<1>1. MCInit => Inv /\ SlicesInsertion
  <2> SUFFICES ASSUME MCInit PROVE Inv /\ SlicesInsertion
    OBVIOUS
  <2>1. Keys = {}
    BY DEF MCInit, Init, Keys
  <2>2. TypeOK
    BY DEF MCInit, Init, TypeOK, Absent
  <2>3. CapBound
    BY <2>1, CapAssumption, FS_EmptySet DEF CapBound, Len_items
  <2>. QED BY <2>1, <2>2, <2>3 DEF Inv, ItemsInOrder, SlicesInsertion
<1>2. Inv /\ SlicesInsertion /\ [MCNext]_<<vars, older>> => (Inv /\ SlicesInsertion)'
  BY InvStep, InsertionStep DEF MCNext, vars
<1>3. Inv /\ SlicesInsertion /\ [MCNext]_<<vars, older>> =>
        \A h \in Hosts : (MarkNewFull(h) /\ IsInjective(order)) => \E v \in Keys \ Keys' : OldestInserted(v)
  <2> SUFFICES ASSUME Inv, SlicesInsertion, NEW h \in Hosts, MarkNewFull(h), IsInjective(order)
               PROVE  \E v \in Keys \ Keys' : OldestInserted(v)
    OBVIOUS
  <2>0. TypeOK /\ Keys \subseteq Hosts
    BY DEF Inv, Keys
  <2>1. PICK i \in 1..Len(order) : IsOldest(i)
    BY FullHasOldest DEF MarkNewFull
  <2>2. order[i] \in Keys \ Keys'
    BY <2>0, <2>1, MarkNewFullKeys
  <2>3. \A j \in 1..Len(order) : order[j] = order[i] => j = i
    BY <2>0 DEF IsInjective, TypeOK
  <2>4. ASSUME NEW g \in Keys \ {order[i]} PROVE <<order[i], g>> \in older
    <3>1. PICK k \in 1..Len(order) : order[k] = g
      BY DEF Inv, ItemsInOrder
    <3>2. k > i
      BY <2>0, <2>1, <3>1 DEF IsOldest, TypeOK
    <3>3. Behind(order[i], g)
      BY <2>0, <2>3, <3>1, <3>2 DEF Behind, TypeOK
    <3>. QED BY <2>2, <3>3 DEF SlicesInsertion
  <2>. QED BY <2>2, <2>4 DEF OldestInserted
<1>. QED BY <1>1, <1>2, <1>3, PTL DEF MCSpec, EvictsOldestInserted
=============================================================================
