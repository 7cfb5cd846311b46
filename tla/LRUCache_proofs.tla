-------------------------- MODULE LRUCache_proofs --------------------------
(***************************************************************************)
(* Proofs about LRUCache for every set of keys and values, every limit and *)
(* every bound on the clock.                                               *)
(***************************************************************************)
EXTENDS LRUCache, FiniteSetTheorems, TLAPS

\* Restricting the Map keeps it a Map of entries, with the entries it keeps.
LEMMA OnlyTyped ==
  ASSUME TypeOK, NEW ks \in SUBSET DOMAIN cache
  PROVE  /\ DOMAIN Only(ks) = ks
         /\ Only(ks) \in [ks -> Entry]
         /\ ks \subseteq Keys
         /\ \A k \in ks : Only(ks)[k] = cache[k]
BY DEF TypeOK, Only

\* The variables keep to their types; a set in progress knows its arguments.
THEOREM Typing == Spec => []TypeOK
<1>1. Init => TypeOK
  BY CacheAssumption DEF Init, TypeOK, Time, Idle, Nothing
<1>2. TypeOK /\ [Next]_vars => TypeOK'
  <2> SUFFICES ASSUME TypeOK, [Next]_vars PROVE TypeOK'
    OBVIOUS
  <2>0. Idle \notin Request
    BY CacheAssumption DEF Idle, Request
  <2>1. CASE Tick
    BY <2>1, CacheAssumption DEF Tick, TypeOK, Time, callVars, histVars
  <2>2. ASSUME NEW k \in Keys, NEW v \in Values, NEW ttl \in TTLs, Set(k, v, ttl) PROVE TypeOK'
    <3>1. cache' = Only(Unexpired) /\ Unexpired \in SUBSET DOMAIN cache
      BY <2>2 DEF Set, Unexpired
    <3> QED
      BY <2>2, <3>1, OnlyTyped DEF Set, TypeOK, Request, histVars
  <2>3. CASE Cleanup
    <3>1. cache' = Only(Unexpired) /\ Unexpired \in SUBSET DOMAIN cache
      BY <2>3 DEF Cleanup, Unexpired
    <3> QED
      BY <2>3, <3>1, OnlyTyped DEF Cleanup, TypeOK, histVars
  <2>4. CASE Trim
    <3>1. PICK k \in Victims : cache' = Only(DOMAIN cache \ {k})
      BY <2>4 DEF Trim
    <3> QED
      BY <2>4, <3>1, OnlyTyped DEF Trim, TypeOK, callVars, histVars
  <2>5. CASE Trimmed
    BY <2>5 DEF Trimmed, TypeOK, histVars
  <2>6. CASE Put
    <3>1. req \in Request
      BY <2>6 DEF Put, TypeOK
    <3>2. PICK kept \in Kept :
            cache' = [k \in kept \cup {req.key} |-> IF k = req.key THEN NewEntry ELSE cache[k]]
      BY <2>6 DEF Put
    <3>3. kept \subseteq DOMAIN cache
      BY <3>2 DEF Kept
    <3>4. at + req.ttl \in Nat
      BY <3>1, CacheAssumption DEF Request, TypeOK, Time
    <3>5. NewEntry \in Entry
      BY <3>1, <3>4 DEF NewEntry, Entry, Request, TypeOK
    <3>6. DOMAIN cache' \subseteq Keys /\ cache' \in [DOMAIN cache' -> Entry]
      BY <3>1, <3>2, <3>3, <3>5 DEF TypeOK, Request
    <3>7. written' \in [Keys -> [value : Values, expiry : Nat] \cup {Nothing}]
      BY <2>6, <3>1, <3>4 DEF Put, TypeOK, Request
    <3>8. usedAt' \in [Keys -> Time]
      BY <2>6, <3>1 DEF Put, TypeOK
    <3> QED
      BY <2>6, <3>6, <3>7, <3>8 DEF Put, TypeOK
  <2>7. ASSUME NEW k \in Keys, Hit(k) PROVE TypeOK'
    <3>1. DOMAIN cache' \subseteq Keys /\ cache' \in [DOMAIN cache' -> Entry]
      BY <2>7 DEF Hit, TypeOK, Entry
    <3> QED
      BY <2>7, <3>1 DEF Hit, TypeOK, Entry, callVars
  <2>8. ASSUME NEW k \in Keys, Miss(k) PROVE TypeOK'
    BY <2>8, OnlyTyped DEF Miss, TypeOK, callVars
  <2>9. ASSUME NEW k \in Keys, Has(k) PROVE TypeOK'
    BY <2>9, OnlyTyped DEF Has, TypeOK, callVars, histVars
  <2>10. ASSUME NEW k \in Keys, Delete(k) PROVE TypeOK'
    BY <2>10, OnlyTyped DEF Delete, TypeOK, callVars
  <2>11. CASE Clear
    BY <2>11, OnlyTyped DEF Clear, TypeOK, callVars
  <2>12. CASE UNCHANGED vars
    BY <2>12 DEF vars, callVars, histVars, TypeOK
  <2> QED
    BY <2>1, <2>2, <2>3, <2>4, <2>5, <2>6, <2>7, <2>8, <2>9, <2>10, <2>11, <2>12 DEF Next
<1> QED
  BY <1>1, <1>2, PTL DEF Spec

-----------------------------------------------------------------------------
(***************************************************************************)
(* The size limit.  That one entry too many is the most there can be rests *)
(* on cleanup: between its end and the insertion nothing is added.         *)
(***************************************************************************)
SizeInv == /\ Size <= MaxSize + 1
           /\ pc = "put" => Size <= MaxSize

\* Fewer keys are no larger a Map, one key more makes it larger by at most one.
LEMMA SizeOf ==
  ASSUME TypeOK, NEW ks \in SUBSET DOMAIN cache, NEW k
  PROVE  /\ Cardinality(ks) \in Nat /\ Size \in Nat
         /\ Cardinality(ks) <= Size
         /\ Cardinality(ks \cup {k}) <= Size + 1
<1>1. IsFiniteSet(DOMAIN cache)
  BY CacheAssumption, FS_Subset DEF TypeOK
<1>2. IsFiniteSet(ks) /\ Cardinality(ks) <= Size
  BY <1>1, FS_Subset DEF Size
<1>3. Cardinality(ks) \in Nat /\ Size \in Nat
  BY <1>1, <1>2, FS_CardinalityType DEF Size
<1>4. Cardinality(ks \cup {k}) = Cardinality(ks) \/ Cardinality(ks \cup {k}) = Cardinality(ks) + 1
  BY <1>2, FS_AddElement
<1> QED
  BY <1>2, <1>3, <1>4

\* Every operation leaves at most one entry too many.
LEMMA SizeStep == TypeOK /\ SizeInv /\ [Next]_vars => SizeInv'
<1> SUFFICES ASSUME TypeOK, SizeInv, [Next]_vars PROVE SizeInv'
  OBVIOUS
<1>0. MaxSize \in Nat
  BY CacheAssumption
<1>1. ASSUME NEW ks \in SUBSET DOMAIN cache, cache' = Only(ks), pc' = "put" => pc = "put"
      PROVE  SizeInv'
  <2>1. Size' = Cardinality(ks)
    BY <1>1, OnlyTyped DEF Size
  <2>2. Cardinality(ks) \in Nat /\ Size \in Nat /\ Cardinality(ks) <= Size
    BY SizeOf
  <2> QED
    BY <1>0, <1>1, <2>1, <2>2 DEF SizeInv
<1>2. ASSUME NEW k \in Keys, NEW v \in Values, NEW ttl \in TTLs, Set(k, v, ttl) PROVE SizeInv'
  BY <1>1, <1>2 DEF Set, Unexpired
<1>3. CASE Cleanup
  BY <1>1, <1>3 DEF Cleanup, Unexpired
<1>4. CASE Trim
  <2>1. PICK k \in Victims : cache' = Only(DOMAIN cache \ {k})
    BY <1>4 DEF Trim
  <2> QED
    BY <1>1, <1>4, <2>1 DEF Trim, callVars
<1>5. CASE Trimmed
  BY <1>0, <1>5 DEF Trimmed, SizeInv, Size
<1>6. CASE Put
  <2>1. PICK kept \in Kept :
          cache' = [k \in kept \cup {req.key} |-> IF k = req.key THEN NewEntry ELSE cache[k]]
    BY <1>6 DEF Put
  <2>2. kept \subseteq DOMAIN cache
    BY <2>1 DEF Kept
  <2>3. Size' = Cardinality(kept \cup {req.key})
    BY <2>1 DEF Size
  <2>4. Size' <= Size + 1 /\ Size <= MaxSize
    BY <1>6, <2>2, <2>3, SizeOf DEF Put, SizeInv
  <2>5. Size \in Nat /\ Size' \in Nat
    <3>1. IsFiniteSet(kept)
      BY <2>2, CacheAssumption, FS_Subset DEF TypeOK
    <3>2. IsFiniteSet(kept \cup {req.key})
      BY <3>1, FS_AddElement
    <3> QED
      BY <2>2, <2>3, <3>2, SizeOf, FS_CardinalityType
  <2> QED
    BY <1>0, <1>6, <2>4, <2>5 DEF Put, SizeInv
<1>7. ASSUME NEW k \in Keys, Hit(k) PROVE SizeInv'
  BY <1>7 DEF Hit, SizeInv, Size, callVars, TypeOK
<1>8. ASSUME NEW k \in Keys, Miss(k) \/ Has(k) \/ Delete(k) PROVE SizeInv'
  BY <1>1, <1>8 DEF Miss, Has, Delete, callVars
<1>9. CASE Clear
  BY <1>1, <1>9 DEF Clear, callVars
<1>10. CASE Tick \/ UNCHANGED vars
  BY <1>10 DEF Tick, vars, callVars, SizeInv, Size
<1> QED
  BY <1>2, <1>3, <1>4, <1>5, <1>6, <1>7, <1>8, <1>9, <1>10 DEF Next

\* The cache never holds more than MaxSize + 1 entries.
THEOREM SizeBound == Spec => []AtMostOneOver
<1>1. Init => SizeInv
  <2> SUFFICES ASSUME Init PROVE SizeInv
    OBVIOUS
  <2>1. Size = 0
    BY FS_EmptySet DEF Init, Size
  <2> QED
    BY <2>1, CacheAssumption DEF SizeInv, Init
<1>2. SizeInv => AtMostOneOver
  BY DEF SizeInv, AtMostOneOver
<1> QED
  BY <1>1, <1>2, SizeStep, Typing, PTL DEF Spec

-----------------------------------------------------------------------------
(***************************************************************************)
(* What the Map holds is what was set.  The entries a call may drop differ *)
(* from call to call; that none of those that stay is ever out of step     *)
(* with the last set that counts is the invariant the rest follows from.   *)
(***************************************************************************)
InStep(m, k) == /\ m[k].value = written[k].value
                /\ m[k].expiry = written[k].expiry
                /\ m[k].lastAccess = usedAt[k]

Mirror == /\ \A k \in DOMAIN cache : InStep(cache, k)
          /\ at <= now

\* Dropping entries, setting one, a hit, a delete: none leaves an entry that
\* differs from the last set or the last use of its key.
LEMMA MirrorStep == TypeOK /\ Mirror /\ [Next]_vars => Mirror'
<1> SUFFICES ASSUME TypeOK, Mirror, [Next]_vars PROVE Mirror'
  OBVIOUS
<1>0. now \in Int /\ at \in Int /\ at <= now
  BY CacheAssumption DEF TypeOK, Mirror, Time
<1>1. ASSUME NEW ks \in SUBSET DOMAIN cache, cache' = Only(ks),
             \A k \in ks : written'[k] = written[k] /\ usedAt'[k] = usedAt[k],
             at' <= now'
      PROVE  Mirror'
  BY <1>1, OnlyTyped DEF Mirror, InStep
<1>2. ASSUME NEW k \in Keys, NEW v \in Values, NEW ttl \in TTLs, Set(k, v, ttl) PROVE Mirror'
  BY <1>0, <1>1, <1>2 DEF Set, Unexpired, histVars
<1>3. CASE Cleanup
  BY <1>0, <1>1, <1>3 DEF Cleanup, Unexpired, histVars
<1>4. CASE Trim
  <2>1. PICK k \in Victims : cache' = Only(DOMAIN cache \ {k})
    BY <1>4 DEF Trim
  <2> QED
    BY <1>0, <1>1, <1>4, <2>1 DEF Trim, callVars, histVars
<1>5. CASE Trimmed
  BY <1>0, <1>5 DEF Trimmed, Mirror, InStep, histVars
<1>6. CASE Put
  <2>1. PICK kept \in Kept :
          cache' = [k \in kept \cup {req.key} |-> IF k = req.key THEN NewEntry ELSE cache[k]]
    BY <1>6 DEF Put
  <2>2. kept \subseteq DOMAIN cache /\ DOMAIN cache \subseteq Keys /\ req.key \in Keys
    BY <1>6, <2>1 DEF Kept, Put, TypeOK, Request
  <2>3. ASSUME NEW k \in DOMAIN cache' PROVE InStep(cache, k)'
    <3>1. CASE k = req.key
      BY <1>6, <2>1, <2>2, <3>1 DEF Put, TypeOK, InStep, NewEntry
    <3>2. CASE k # req.key
      BY <1>6, <2>1, <2>2, <3>2 DEF Put, TypeOK, Mirror, InStep
    <3> QED
      BY <3>1, <3>2
  <2> QED
    BY <1>0, <1>6, <2>3 DEF Put, Mirror
<1>7. ASSUME NEW k \in Keys, Hit(k) PROVE Mirror'
  <2>1. DOMAIN cache' = DOMAIN cache
    BY <1>7 DEF Hit
  <2>2. ASSUME NEW j \in DOMAIN cache PROVE InStep(cache, j)'
    BY <1>7, <2>2 DEF Hit, TypeOK, Entry, Mirror, InStep
  <2> QED
    BY <1>0, <1>7, <2>1, <2>2 DEF Hit, Mirror, callVars
<1>8. ASSUME NEW k \in Keys, Miss(k) PROVE Mirror'
  BY <1>0, <1>1, <1>8 DEF Miss, callVars
<1>9. ASSUME NEW k \in Keys, Has(k) PROVE Mirror'
  BY <1>0, <1>1, <1>9 DEF Has, callVars, histVars
<1>10. ASSUME NEW k \in Keys, Delete(k) PROVE Mirror'
  BY <1>0, <1>1, <1>10 DEF Delete, callVars, TypeOK
<1>11. CASE Clear
  BY <1>0, <1>1, <1>11 DEF Clear, callVars
<1>12. CASE Tick
  BY <1>0, <1>12 DEF Tick, Mirror, InStep, callVars, histVars
<1>13. CASE UNCHANGED vars
  BY <1>13 DEF vars, callVars, histVars, Mirror, InStep
<1> QED
  BY <1>2, <1>3, <1>4, <1>5, <1>6, <1>7, <1>8, <1>9, <1>10, <1>11, <1>12, <1>13 DEF Next

\* The Map is in step with the sets and uses in every reachable state.
LEMMA Mirroring == Spec => []Mirror
<1>1. Init => Mirror
  BY DEF Init, Mirror
<1> QED
  BY <1>1, MirrorStep, Typing, PTL DEF Spec

\* An entry that has not expired is lost to delete, clear or eviction only;
\* eviction happens when the cache is full and hits a key that none of the
\* remaining keys was left unused longer than.
THEOREM EvictionIsLRU == Spec => LosesOnlyTheDispensable
<1>1. TypeOK /\ Mirror /\ [Next]_vars =>
        [\A k \in DOMAIN cache \ DOMAIN cache' :
           \/ Expired(k)
           \/ Delete(k)
           \/ Clear
           \/ /\ Size >= MaxSize
              /\ \A j \in DOMAIN cache \cap DOMAIN cache' : usedAt[k] <= usedAt[j]]_vars
  <2> SUFFICES ASSUME TypeOK, Mirror, Next,
                      NEW k \in DOMAIN cache, k \notin DOMAIN cache',
                      ~Expired(k), ~Delete(k), ~Clear
               PROVE  /\ Size >= MaxSize
                      /\ \A j \in DOMAIN cache : usedAt[k] <= usedAt[j]
    BY DEF TypeOK
  <2>1. ASSUME k \in Victims PROVE \A j \in DOMAIN cache : usedAt[k] <= usedAt[j]
    BY <2>1 DEF Victims, Mirror, InStep
  <2>2. Size \in Nat /\ MaxSize \in Nat
    BY SizeOf, CacheAssumption
  <2>3. CASE Trim
    <3>1. PICK v \in Victims : cache' = Only(DOMAIN cache \ {v})
      BY <2>3 DEF Trim
    <3>2. k = v
      BY <3>1 DEF Only
    <3> QED
      BY <2>1, <2>2, <2>3, <3>1, <3>2 DEF Trim
  <2>4. CASE Put
    <3>1. PICK kept \in Kept :
            cache' = [j \in kept \cup {req.key} |-> IF j = req.key THEN NewEntry ELSE cache[j]]
      BY <2>4 DEF Put
    <3>2. k \notin kept
      BY <3>1
    <3>3. ~(Size < MaxSize) /\ \E v \in Victims : kept = DOMAIN cache \ {v}
      BY <3>1, <3>2 DEF Kept
    <3>4. k \in Victims
      BY <3>2, <3>3
    <3> QED
      BY <2>1, <2>2, <3>3, <3>4
  <2>5. ASSUME NEW j \in Keys, NEW v \in Values, NEW ttl \in TTLs, Set(j, v, ttl) PROVE FALSE
    BY <2>5 DEF Set, Only, Unexpired
  <2>6. CASE Cleanup
    BY <2>6 DEF Cleanup, Only, Unexpired
  <2>7. CASE Tick \/ Trimmed
    BY <2>7 DEF Tick, Trimmed
  <2>8. ASSUME NEW j \in Keys, Hit(j) \/ Miss(j) \/ Has(j) \/ Delete(j) PROVE FALSE
    <3>1. CASE Hit(j)
      BY <3>1 DEF Hit
    <3>2. CASE Miss(j) \/ Has(j)
      BY <3>2 DEF Miss, Has, Only
    <3>3. CASE Delete(j)
      BY <3>3 DEF Delete, Only
    <3> QED
      BY <2>8, <3>1, <3>2, <3>3
  <2> QED
    BY <2>3, <2>4, <2>5, <2>6, <2>7, <2>8 DEF Next
<1> QED
  BY <1>1, Typing, Mirroring, PTL DEF Spec, LosesOnlyTheDispensable

-----------------------------------------------------------------------------

\* get never answers with a value that was replaced, deleted or has expired:
\* the cache implements a store that may forget but not lie.
THEOREM Refinement == Spec => ImplementsStore
<1>1. Init => Store!Init
  BY DEF Init, Store!Init, Nothing, Store!Nothing
<1>2. TypeOK /\ Mirror /\ [Next]_vars => [Store!Next]_(Store!storeVars)
  <2> SUFFICES ASSUME TypeOK, Mirror, [Next]_vars
               PROVE  Store!Next \/ UNCHANGED Store!storeVars
    OBVIOUS
  <2> USE DEF Store!storeVars
  <2>1. CASE Tick
    BY <2>1 DEF Tick, histVars, Store!Next, Store!Pass
  <2>2. ASSUME NEW k \in Keys, NEW v \in Values, NEW ttl \in TTLs, Set(k, v, ttl)
        PROVE  UNCHANGED Store!storeVars
    BY <2>2 DEF Set, histVars
  <2>3. CASE Cleanup \/ Trim \/ Trimmed
    BY <2>3 DEF Cleanup, Trim, Trimmed, histVars
  <2>4. CASE Put
    <3>1. req \in Request /\ at \in Nat /\ now \in Nat /\ at <= now
      BY <2>4, CacheAssumption DEF Put, TypeOK, Mirror, Time
    <3>2. req.key \in Keys /\ req.value \in Values /\ req.ttl \in TTLs /\ req.ttl \in Nat
      BY <3>1, CacheAssumption DEF Request
    <3>3. now - at \in 0..now /\ now - (now - at) + req.ttl = at + req.ttl
      BY <3>1, <3>2
    <3>4. written' = [written EXCEPT ![req.key] =
                        [value |-> req.value, expiry |-> now - (now - at) + req.ttl]]
      BY <2>4, <3>3 DEF Put
    <3>5. \E v \in Values, ttl \in TTLs, late \in 0..now :
            written' = [written EXCEPT ![req.key] = [value |-> v, expiry |-> now - late + ttl]]
      BY <3>2, <3>3, <3>4, Zenon
    <3>6. Store!Write(req.key)
      BY <2>4, <3>5 DEF Put, Store!Write
    <3> QED
      BY <3>2, <3>6 DEF Store!Next
  <2>5. ASSUME NEW k \in Keys, Hit(k) PROVE Store!Next
    <3>1. answer' = written[k].value /\ ~(now > written[k].expiry)
      BY <2>5 DEF Hit, Mirror, InStep, Expired
    <3>2. now <= written[k].expiry
      <4>1. cache[k] \in Entry /\ cache[k].expiry = written[k].expiry
        BY <2>5 DEF Hit, TypeOK, Mirror, InStep
      <4>2. now \in Int /\ written[k].expiry \in Int
        BY <4>1, CacheAssumption DEF Entry, TypeOK, Time
      <4> QED
        BY <3>1, <4>2
    <3> QED
      BY <2>5, <3>1, <3>2 DEF Hit, Store!Next, Store!LookUp
  <2>6. ASSUME NEW k \in Keys, Miss(k) PROVE Store!Next
    BY <2>6 DEF Miss, Store!Next, Store!LookUp
  <2>7. ASSUME NEW k \in Keys, Has(k) PROVE UNCHANGED Store!storeVars
    BY <2>7 DEF Has, histVars
  <2>8. ASSUME NEW k \in Keys, Delete(k) PROVE Store!Next
    <3>1. written' = [j \in Keys |-> IF j \in {k} THEN Store!Nothing ELSE written[j]]
      BY <2>8 DEF Delete, TypeOK, Nothing, Store!Nothing
    <3> QED
      BY <2>8, <3>1 DEF Delete, Store!Next, Store!Erase
  <2>9. CASE Clear
    <3>1. written' = [j \in Keys |-> IF j \in Keys THEN Store!Nothing ELSE written[j]]
      BY <2>9 DEF Clear, Nothing, Store!Nothing
    <3> QED
      BY <2>9, <3>1 DEF Clear, Store!Next, Store!Erase
  <2>10. CASE UNCHANGED vars
    BY <2>10 DEF vars, histVars
  <2> QED
    BY <2>1, <2>2, <2>3, <2>4, <2>5, <2>6, <2>7, <2>8, <2>9, <2>10 DEF Next
<1> QED
  BY <1>1, <1>2, Typing, Mirroring, PTL DEF Spec, ImplementsStore, Store!Spec
=============================================================================
