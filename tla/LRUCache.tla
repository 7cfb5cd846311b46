------------------------------ MODULE LRUCache ------------------------------
(***************************************************************************)
(* LRUCacheService: a Map with a size limit, a time to live per entry and  *)
(* eviction of the least recently used entry.                              *)
(*                                                                         *)
(* Every method runs to completion without an await, so calls do not       *)
(* interleave; but the clock goes on during a call, and set() reads        *)
(* Date.now() three times: in cleanup, for its own stamps, in evictLRU.    *)
(* A call of set or cleanup is therefore a sequence of steps between which *)
(* only the clock may move.  The order of the Map, which decides between   *)
(* entries last used in the same millisecond, is left open.                *)
(***************************************************************************)
EXTENDS Integers, FiniteSets

CONSTANTS
  Keys, Values,
  TTLs,       \* times to live that callers pass
  MaxSize,    \* 1000 in the code
  Missing,    \* null: no value
  MaxTime     \* bound on the clock

ASSUME CacheAssumption ==
  /\ IsFiniteSet(Keys)
  /\ TTLs \subseteq Nat
  /\ MaxSize \in Nat \ {0}
  /\ MaxTime \in Nat
  /\ Missing \notin Values

Time  == 0..MaxTime
Entry == [value : Values, expiry : Nat, lastAccess : Time]

VARIABLES
  now,      \* Date.now()
  cache,    \* the Map: a function on the keys that are present
  pc,       \* where the current call of set or cleanup is
  req,      \* what set was called with; Idle between calls and in cleanup
  at,       \* set's own reading of the clock
  answer,   \* what get last returned
  written,  \* written[k]: value and expiry of the last set that counts (history)
  usedAt    \* usedAt[k]: when k was last set or hit (history)

callVars == <<pc, req, at>>
histVars == <<answer, written, usedAt>>
vars     == <<now, cache, callVars, histVars>>

Nothing == [value |-> Missing, expiry |-> -1]
Request == [key : Keys, value : Values, ttl : TTLs]
Idle    == [key |-> Missing, value |-> Missing, ttl |-> 0]

TypeOK ==
  /\ now \in Time
  /\ DOMAIN cache \subseteq Keys
  /\ cache \in [DOMAIN cache -> Entry]
  /\ pc \in {"idle", "trim", "put"}
  /\ req \in Request \cup {Idle}
  /\ (pc = "put") => req \in Request
  /\ (pc = "idle") => req = Idle
  /\ at \in Time
  /\ answer \in Values \cup {Missing}
  /\ written \in [Keys -> [value : Values, expiry : Nat] \cup {Nothing}]
  /\ usedAt \in [Keys -> Time]

Init ==
  /\ now = 0
  /\ cache = [k \in {} |-> Nothing]
  /\ pc = "idle"
  /\ req = Idle
  /\ at = 0
  /\ answer = Missing
  /\ written = [k \in Keys |-> Nothing]
  /\ usedAt = [k \in Keys |-> 0]

-----------------------------------------------------------------------------
(* Helpers *)

Expired(k)  == now > cache[k].expiry
Size        == Cardinality(DOMAIN cache)
Only(ks)    == [k \in ks |-> cache[k]]
Unexpired   == {k \in DOMAIN cache : ~Expired(k)}

\* Mutant: only expired entries, of which cleanup has left none, are victims.
ExpiredVictims == {k \in DOMAIN cache : Expired(k)}

\* evictLRU: entries used before this millisecond, none of them used earlier;
\* if every entry was used in this one there is no victim.  (An entry under the
\* empty string would be chosen and kept, see `if (lruKey)`; no caller has one.)
Victims == {k \in DOMAIN cache :
              /\ cache[k].lastAccess < now
              /\ \A j \in DOMAIN cache : cache[k].lastAccess <= cache[j].lastAccess}

-----------------------------------------------------------------------------
(* Actions *)

Tick ==
  /\ now < MaxTime
  /\ now' = now + 1
  /\ UNCHANGED <<cache, callVars, histVars>>

\* set up to and including the first loop of cleanup.
Set(k, v, ttl) ==
  /\ pc = "idle"
  /\ cache' = Only(Unexpired)
  /\ req' = [key |-> k, value |-> v, ttl |-> ttl]
  /\ pc' = "trim"
  /\ UNCHANGED <<now, at, histVars>>

\* cleanup, called by getStats and by ResilienceService.forceCleanup.
Cleanup ==
  /\ pc = "idle"
  /\ cache' = Only(Unexpired)
  /\ pc' = "trim"
  /\ UNCHANGED <<now, req, at, histVars>>

\* One turn of cleanup's while loop.  Without a victim the loop spins: the
\* step is disabled until the clock has moved.
Trim ==
  /\ pc = "trim" /\ Size > MaxSize
  /\ \E k \in Victims : cache' = Only(DOMAIN cache \ {k})
  /\ UNCHANGED <<now, callVars, histVars>>

\* Mutant: cleanup removes expired entries only.
TrimmedUnchecked ==
  /\ pc = "trim"
  /\ at' = now
  /\ pc' = IF req = Idle THEN "idle" ELSE "put"
  /\ UNCHANGED <<now, cache, req, histVars>>

\* Mutant: a cleanup on its own goes on as if set had called it.
TrimmedForSet ==
  /\ pc = "trim" /\ Size <= MaxSize
  /\ at' = now
  /\ pc' = "put"
  /\ UNCHANGED <<now, cache, req, histVars>>

\* cleanup returns; set goes on and reads the clock for its stamps.
Trimmed ==
  /\ pc = "trim" /\ Size <= MaxSize
  /\ at' = now
  /\ pc' = IF req = Idle THEN "idle" ELSE "put"
  /\ UNCHANGED <<now, cache, req, histVars>>

NewEntry == [value |-> req.value, expiry |-> at + req.ttl, lastAccess |-> at]

\* The keys that are left to make room for a new one.
Kept == IF req.key \in DOMAIN cache \/ Size < MaxSize \/ Victims = {}
        THEN {DOMAIN cache}
        ELSE {DOMAIN cache \ {k} : k \in Victims}

\* The rest of set: update the entry, or evict if the cache is full and add it.
Put ==
  /\ pc = "put"
  /\ \E kept \in Kept :
       cache' = [k \in kept \cup {req.key} |-> IF k = req.key THEN NewEntry ELSE cache[k]]
  /\ written' = [written EXCEPT ![req.key] = [value |-> req.value, expiry |-> at + req.ttl]]
  /\ usedAt' = [usedAt EXCEPT ![req.key] = at]
  /\ pc' = "idle"
  /\ req' = Idle
  /\ UNCHANGED <<now, at, answer>>

\* Mutant: a hit does not count as a use.
GetWithoutTouch(k) ==
  /\ pc = "idle"
  /\ k \in DOMAIN cache /\ ~Expired(k)
  /\ answer' = cache[k].value
  /\ usedAt' = [usedAt EXCEPT ![k] = now]
  /\ UNCHANGED <<now, cache, callVars, written>>

\* Mutant: the expiry of the entry is not looked at.
HitUnchecked(k) ==
  /\ pc = "idle"
  /\ k \in DOMAIN cache
  /\ cache' = [cache EXCEPT ![k].lastAccess = now]
  /\ answer' = cache[k].value
  /\ usedAt' = [usedAt EXCEPT ![k] = now]
  /\ UNCHANGED <<now, callVars, written>>

\* get finds an entry that has not expired.
Hit(k) ==
  /\ pc = "idle"
  /\ k \in DOMAIN cache /\ ~Expired(k)
  /\ cache' = [cache EXCEPT ![k].lastAccess = now]
  /\ answer' = cache[k].value
  /\ usedAt' = [usedAt EXCEPT ![k] = now]
  /\ UNCHANGED <<now, callVars, written>>

\* get finds nothing, or an expired entry, which it removes.
Miss(k) ==
  /\ pc = "idle"
  /\ k \in DOMAIN cache => Expired(k)
  /\ cache' = Only(DOMAIN cache \ {k})
  /\ answer' = Missing
  /\ UNCHANGED <<now, callVars, written, usedAt>>

\* has: as get, but a look is not a use.
Has(k) ==
  /\ pc = "idle"
  /\ cache' = Only(DOMAIN cache \ {j \in DOMAIN cache : j = k /\ Expired(j)})
  /\ UNCHANGED <<now, callVars, histVars>>

Delete(k) ==
  /\ pc = "idle"
  /\ cache' = Only(DOMAIN cache \ {k})
  /\ written' = [written EXCEPT ![k] = Nothing]
  /\ UNCHANGED <<now, callVars, answer, usedAt>>

Clear ==
  /\ pc = "idle"
  /\ cache' = Only({})
  /\ written' = [k \in Keys |-> Nothing]
  /\ UNCHANGED <<now, callVars, answer, usedAt>>

Next == \/ Tick
        \/ \E k \in Keys, v \in Values, ttl \in TTLs : Set(k, v, ttl)
        \/ Cleanup \/ Trim \/ Trimmed \/ Put
        \/ \E k \in Keys : Hit(k) \/ Miss(k) \/ Has(k) \/ Delete(k)
        \/ Clear

Spec == Init /\ [][Next]_vars

\* A synchronous call runs until it returns, and the clock moves meanwhile.
FairSpec == Spec /\ WF_vars(Tick) /\ WF_vars(Trim \/ Trimmed \/ Put)

-----------------------------------------------------------------------------
(* Properties *)

\* The cache exceeds its limit by one entry at most: set can find no victim
\* and add all the same, but the cleanup of the next set brings it back.
AtMostOneOver == Size <= MaxSize + 1

\* An entry that has not expired is given up (other than by delete and clear)
\* only when the cache is full, and only if no entry that stays was used
\* in an earlier millisecond.
LosesOnlyTheDispensable ==
  [][\A k \in DOMAIN cache \ DOMAIN cache' :
       \/ Expired(k)
       \/ Delete(k)
       \/ Clear
       \/ /\ Size >= MaxSize
          /\ \A j \in DOMAIN cache \cap DOMAIN cache' : usedAt[k] <= usedAt[j]]_vars

\* cleanup's while loop, which spins as long as every entry was used in the
\* current millisecond, ends once the clock has moved on.
CleanupEnds == (pc = "trim" /\ now < MaxTime) ~> pc # "trim"

\* What get answers was written last and has not expired.
Store == INSTANCE TTLStore
ImplementsStore == Store!Spec

\* lru-cache.service.ts, in set: "strict size limit enforcement".
StrictSizeLimit == pc = "idle" => Size <= MaxSize
=============================================================================
