------------------------- MODULE Resilience_proofs -------------------------
(***************************************************************************)
(* Proofs about Resilience for every set of calls, operations and breaker  *)
(* addresses, every retry policy, threshold, recovery timeout and lifetime *)
(* of a cached breaker.                                                    *)
(***************************************************************************)
EXTENDS Resilience, BreakerOps_proofs, FiniteSetTheorems, TLAPS

(***************************************************************************)
(* The heap.  What is on it is what the cache or a call refers to.         *)
(***************************************************************************)

\* An entry and a call under way keep their breaker alive, ...
LEMMA Keeps ==
  /\ \A o \in Ops : cache[o] # NoEntry => cache[o].breaker \in Referenced
  /\ \A c \in Calls : Held(c) => call[c].breaker \in Referenced
BY DEF Referenced

\* ... and nothing else does.
LEMMA KeepsOnly ==
  ASSUME NEW S,
         \A o \in Ops : cache[o] # NoEntry => cache[o].breaker \in S,
         \A c \in Calls : Held(c) => call[c].breaker \in S
  PROVE  Referenced \subseteq S
BY DEF Referenced

\* The same of the state after a step.
LEMMA KeepsNext ==
  /\ \A o \in Ops : cache'[o] # NoEntry => cache'[o].breaker \in Referenced'
  /\ \A c \in Calls : Held(c)' => call'[c].breaker \in Referenced'
BY DEF Referenced, Held

\* What nothing refers to after a step is gone.
LEMMA KeepsOnlyNext ==
  ASSUME NEW S,
         \A o \in Ops : cache'[o] # NoEntry => cache'[o].breaker \in S,
         \A c \in Calls : Held(c)' => call'[c].breaker \in S
  PROVE  Referenced' \subseteq S
BY DEF Referenced, Held

\* A step that changes no entry's breaker and no breaker of a call under way
\* refers to what was referred to.
LEMMA SameReferences ==
  ASSUME \A o \in Ops : cache'[o] # NoEntry <=> cache[o] # NoEntry,
         \A o \in Ops : cache[o] # NoEntry => cache'[o].breaker = cache[o].breaker,
         \A c \in Calls : Held(c)' <=> Held(c),
         \A c \in Calls : Held(c) => call'[c].breaker = call[c].breaker
  PROVE  Referenced' = Referenced
<1>1. Referenced' \subseteq Referenced
  BY Keeps, KeepsOnlyNext
<1>2. Referenced \subseteq Referenced'
  BY KeepsNext, KeepsOnly
<1> QED
  BY <1>1, <1>2

\* The addresses in entries and of calls under way are addresses of breakers.
LEMMA Addresses ==
  ASSUME TypeOK
  PROVE  /\ \A o \in Ops : cache[o] \in Slot
         /\ \A o \in Ops : cache[o] # NoEntry =>
              /\ cache[o].breaker \in Referenced /\ cache[o].breaker \in Breakers
              /\ heap[cache[o].breaker] \in Breaker
         /\ \A c \in Calls : call[c] \in CallState
         /\ \A c \in Calls : Held(c) =>
              /\ call[c].breaker \in Referenced /\ call[c].breaker \in Breakers
              /\ heap[call[c].breaker] \in Breaker
BY Keeps DEF TypeOK

\* What a call that starts, ends or goes to sleep looks like.
LEMMA StartedIs ==
  ASSUME NEW b \in Breakers, NEW attempt \in 0..(MaxAttempts - 1)
  PROVE  /\ Started(b, attempt) \in CallState
         /\ Started(b, attempt).breaker = b
         /\ Started(b, attempt).at \in Running
<1>1. 0 \in 0..MaxDelay
  BY ResilienceAssumption
<1> QED
  BY <1>1 DEF Started, CallState, Stages, Running

\* Idle is a state of a call, and its own stage.
LEMMA IdleIs == Idle \in CallState /\ Idle.at = "idle"
<1>1. 0 \in 0..MaxDelay /\ 0 \in 0..(MaxAttempts - 1)
  BY ResilienceAssumption
<1> QED
  BY <1>1 DEF Idle, CallState, Stages

\* A call that sleeps goes on to an attempt within the policy's.
LEMMA NextAttemptIs ==
  ASSUME TypeOK, NEW c \in Calls
  PROVE  /\ NextAttempt(c) \in CallState
         /\ \/ NextAttempt(c).at = "idle"
            \/ NextAttempt(c).at = "asleep" /\ NextAttempt(c).breaker = call[c].breaker
<1>0. call[c] \in CallState
  BY DEF TypeOK
<1>1. CASE call[c].attempt = MaxAttempts - 1
  BY <1>1, IdleIs DEF NextAttempt
<1>2. CASE call[c].attempt # MaxAttempts - 1
  <2>1. call[c].attempt \in 0..(MaxAttempts - 1) /\ call[c].attempt + 1 \in 0..(MaxAttempts - 1)
    BY <1>0, <1>2, ResilienceAssumption DEF CallState
  <2>2. CalculateDelay(call[c].attempt) \in 0..MaxDelay
    <3> DEFINE delay == BaseDelay * BackoffMultiplier^call[c].attempt
    <3>1. delay \in Nat /\ MaxDelay \in Nat
      BY <2>1, ResilienceAssumption
    <3> HIDE DEF delay
    <3>2. Capped(delay, MaxDelay) \in 0..MaxDelay
      BY <3>1 DEF Capped
    <3> QED
      BY <3>2 DEF CalculateDelay, delay
  <2>3. NextAttempt(c) = [call[c] EXCEPT !.at = "asleep", !.attempt = @ + 1,
                                         !.wait = CalculateDelay(call[c].attempt)]
    BY <1>2 DEF NextAttempt
  <2> QED
    BY <1>0, <2>1, <2>2, <2>3 DEF CallState, Stages
<1> QED
  BY <1>1, <1>2

-----------------------------------------------------------------------------
(***************************************************************************)
(* Type correctness.                                                       *)
(***************************************************************************)

\* The part of TypeOK about the heap and its history.
HeapOK ==
  /\ DOMAIN heap = Referenced /\ Referenced \subseteq Breakers
  /\ \A b \in Referenced : heap[b] \in Breaker
  /\ DOMAIN struck = Referenced
  /\ \A b \in Referenced : struck[b] \in Nat

\* A step that writes at most one breaker, and refers to no other that is new,
\* leaves the heap in order.
LEMMA UpdateTyped ==
  ASSUME TypeOK, NEW b \in Breakers, NEW value \in Breaker, NEW strikes \in Nat,
         Update(b, value, strikes),
         \A x \in Referenced' : x \in Referenced \/ x = b
  PROVE  HeapOK'
<1>1. /\ DOMAIN heap' = Referenced' /\ DOMAIN struck' = Referenced'
      /\ \A x \in Referenced' : x = b  => heap'[x] = value /\ struck'[x] = strikes
      /\ \A x \in Referenced' : x # b  => heap'[x] = heap[x] /\ struck'[x] = struck[x]
  BY DEF Update
<1>2. Referenced \subseteq Breakers /\ \A x \in Referenced : heap[x] \in Breaker /\ struck[x] \in Nat
  BY DEF TypeOK
<1> QED
  BY <1>1, <1>2 DEF HeapOK

\* A heap that only loses what nothing refers to keeps its types.
LEMMA CollectTyped ==
  ASSUME TypeOK, Collect, Referenced' \subseteq Referenced
  PROVE  HeapOK'
<1>1. /\ DOMAIN heap' = Referenced' /\ DOMAIN struck' = Referenced'
      /\ \A x \in Referenced' : heap'[x] = heap[x] /\ struck'[x] = struck[x]
  BY DEF Collect
<1> QED
  BY <1>1 DEF HeapOK, TypeOK

\* isOpen at a breaker that is referred to.
LEMMA ConsultTyped ==
  ASSUME TypeOK, NEW b \in Referenced, Consult(b), Referenced' \subseteq Referenced
  PROVE  HeapOK'
<1>1. b \in Breakers /\ Consulted(heap[b]) \in Breaker /\ struck[b] \in Nat
  BY MethodsTyped DEF TypeOK
<1>2. (IF Consulted(heap[b]) = heap[b] THEN struck[b] ELSE 0) \in Nat
  BY <1>1
<1> QED
  BY <1>1, <1>2, UpdateTyped DEF Consult

\* A call that moves on takes up no breaker but one that is referred to.
LEMMA CallMoves ==
  ASSUME TypeOK, NEW c \in Calls, NEW new \in CallState,
         call' = [call EXCEPT ![c] = new], cache' = cache,
         new.at \in {"idle", "refused"} \/ new.breaker \in Referenced
  PROVE  /\ call' \in [Calls -> CallState] /\ call'[c] = new
         /\ \A d \in Calls : d # c => call'[d] = call[d]
         /\ Referenced' \subseteq Referenced
<1>1. /\ call' \in [Calls -> CallState] /\ call'[c] = new
      /\ \A d \in Calls : d # c => call'[d] = call[d]
  BY DEF TypeOK
<1>2. \A o \in Ops : cache'[o] # NoEntry => cache'[o].breaker \in Referenced
  BY Keeps
<1>3. ASSUME NEW d \in Calls, Held(d)' PROVE call'[d].breaker \in Referenced
  BY <1>1, <1>3, Keeps DEF Held
<1> QED
  BY <1>1, <1>2, <1>3, KeepsOnlyNext

\* No step of a call, of the clock, of the dependency or of a health request
\* leaves a breaker, an entry or a call in disorder, and the heap holds
\* exactly what is referred to.
LEMMA TypeStep == TypeOK /\ [Next]_vars => TypeOK'
<1> SUFFICES ASSUME TypeOK, [Next]_vars PROVE TypeOK'
  OBVIOUS
<1>a. /\ cache \in [Ops -> Slot] /\ call \in [Calls -> CallState]
      /\ up \in BOOLEAN /\ HeapOK
  BY DEF TypeOK, HeapOK
<1>b. ASSUME cache' \in [Ops -> Slot], call' \in [Calls -> CallState], up' \in BOOLEAN, HeapOK'
      PROVE  TypeOK'
  BY <1>b DEF TypeOK, HeapOK
<1>c. 0 \in 0..(MaxAttempts - 1)
  BY ResilienceAssumption
<1>d. ASSUME HeapOK, Referenced' = Referenced, heap' = heap, struck' = struck PROVE HeapOK'
  BY <1>d DEF HeapOK
<1>1. ASSUME NEW c \in Calls, NEW o \in Ops, Refuse(c, o) PROVE TypeOK'
  <2> DEFINE new == [call[c] EXCEPT !.at = "refused"]
  <2>1. new \in CallState /\ new.at = "refused"
    BY <1>a DEF CallState, Stages
  <2>2. call' = [call EXCEPT ![c] = new] /\ cache' = cache
    BY <1>1 DEF Refuse
  <2> HIDE DEF new
  <2>3. /\ call' \in [Calls -> CallState] /\ call'[c] = new
        /\ \A d \in Calls : d # c => call'[d] = call[d]
    BY <2>1, <2>2, CallMoves
  <2>4. Referenced' = Referenced
    BY <1>1, <2>1, <2>2, <2>3, SameReferences DEF Refuse, Held
  <2> QED
    BY <1>1, <1>a, <1>b, <1>d, <2>3, <2>4 DEF Refuse
<1>2. ASSUME NEW c \in Calls, NEW o \in Ops, Begin(c, o) PROVE TypeOK'
  <2> DEFINE b   == cache[o].breaker
             new == Started(b, 0)
  <2>1. b \in Breakers /\ b \in Referenced /\ heap[b] \in Breaker
    BY <1>2, Addresses DEF Begin, Found
  <2>2. new \in CallState /\ new.breaker \in Referenced
    BY <1>c, <2>1, StartedIs
  <2>3. call' = [call EXCEPT ![c] = new] /\ cache' = cache /\ up' = up /\ Consult(b)
    BY <1>2 DEF Begin
  <2> HIDE DEF b, new
  <2>4. call' \in [Calls -> CallState] /\ Referenced' \subseteq Referenced
    BY <2>2, <2>3, CallMoves
  <2>5. HeapOK'
    BY <2>1, <2>3, <2>4, ConsultTyped
  <2> QED
    BY <1>a, <1>b, <2>3, <2>4, <2>5
<1>3. ASSUME NEW c \in Calls, NEW o \in Ops, Create(c, o) PROVE TypeOK'
  <2>1. PICK b \in Fresh :
          /\ cache' = [cache EXCEPT ![o] = [breaker |-> b, age |-> 0]]
          /\ call' = [call EXCEPT ![c] = Started(b, 0)]
          /\ Update(b, NewBreaker, 0)
    BY <1>3 DEF Create
  <2>2. b \in Breakers
    BY DEF Fresh, Free
  <2> DEFINE new   == Started(b, 0)
             entry == [breaker |-> b, age |-> 0]
  <2>3. new \in CallState /\ new.breaker = b
    BY <1>c, <2>2, StartedIs
  <2>4. entry \in Slot /\ entry.breaker = b
    BY <2>2, ResilienceAssumption DEF Slot
  <2>5. cache' = [cache EXCEPT ![o] = entry] /\ call' = [call EXCEPT ![c] = new]
    BY <2>1
  <2> HIDE DEF new, entry
  <2>6. cache' \in [Ops -> Slot] /\ call' \in [Calls -> CallState]
    BY <1>a, <2>3, <2>4, <2>5
  <2>7. \A x \in Referenced' : x \in Referenced \cup {b}
    <3>1. \A p \in Ops : cache'[p] # NoEntry => cache'[p].breaker \in Referenced \cup {b}
      BY <1>a, <2>4, <2>5, Keeps
    <3>2. \A d \in Calls : Held(d)' => call'[d].breaker \in Referenced \cup {b}
      BY <1>a, <2>3, <2>5, Keeps DEF Held
    <3> QED
      BY <3>1, <3>2, KeepsOnlyNext
  <2>8. HeapOK'
    BY <2>1, <2>2, <2>7, NewBreakerTyped, UpdateTyped
  <2> QED
    BY <1>3, <1>a, <1>b, <2>6, <2>8 DEF Create
<1>4. ASSUME NEW c \in Calls, Succeed(c) \/ FailAttempt(c) PROVE TypeOK'
  <2> DEFINE b == call[c].breaker
  <2>1. b \in Breakers /\ b \in Referenced /\ heap[b] \in Breaker /\ struck[b] \in Nat
    BY <1>4, Addresses DEF Succeed, FailAttempt, Held, TypeOK
  <2>2. PICK new \in CallState :
          /\ call' = [call EXCEPT ![c] = new] /\ cache' = cache /\ up' = up
          /\ new.at = "idle" \/ new.breaker \in Referenced
    BY <1>4, <2>1, IdleIs, NextAttemptIs DEF Succeed, FailAttempt
  <2>3. PICK value \in Breaker, strikes \in Nat : Update(b, value, strikes)
    BY <1>4, <2>1, MethodsTyped DEF Succeed, FailAttempt
  <2> HIDE DEF b
  <2>4. call' \in [Calls -> CallState] /\ Referenced' \subseteq Referenced
    BY <2>2, CallMoves
  <2>5. HeapOK'
    BY <2>1, <2>3, <2>4, UpdateTyped
  <2> QED
    BY <1>a, <1>b, <2>2, <2>4, <2>5
<1>5. ASSUME NEW c \in Calls, Retry(c) PROVE TypeOK'
  <2> DEFINE b   == call[c].breaker
             new == Started(b, call[c].attempt)
  <2>1. b \in Breakers /\ b \in Referenced /\ heap[b] \in Breaker
    BY <1>5, Addresses DEF Retry, Awake, Held
  <2>2. new \in CallState /\ new.breaker \in Referenced
    BY <1>a, <2>1, StartedIs DEF CallState
  <2>3. call' = [call EXCEPT ![c] = new] /\ cache' = cache /\ up' = up /\ Consult(b)
    BY <1>5 DEF Retry
  <2> HIDE DEF b, new
  <2>4. call' \in [Calls -> CallState] /\ Referenced' \subseteq Referenced
    BY <2>2, <2>3, CallMoves
  <2>5. HeapOK'
    BY <2>1, <2>3, <2>4, ConsultTyped
  <2> QED
    BY <1>a, <1>b, <2>3, <2>4, <2>5
<1>6. ASSUME NEW c \in Calls, RetryRefused(c) PROVE TypeOK'
  <2>1. call[c].breaker \in Referenced
    BY <1>6, Addresses DEF RetryRefused, Awake, Held
  <2>2. PICK new \in CallState :
          /\ call' = [call EXCEPT ![c] = new] /\ cache' = cache /\ up' = up
          /\ new.at = "idle" \/ new.breaker \in Referenced
    BY <1>6, <2>1, NextAttemptIs DEF RetryRefused
  <2>3. call' \in [Calls -> CallState] /\ Referenced' \subseteq Referenced
    BY <2>2, CallMoves
  <2>4. HeapOK'
    BY <1>6, <2>3, CollectTyped DEF RetryRefused
  <2> QED
    BY <1>a, <1>b, <2>2, <2>3, <2>4
<1>7. ASSUME NEW c \in Calls, Return(c) PROVE TypeOK'
  <2>1. call' = [call EXCEPT ![c] = Idle] /\ cache' = cache
    BY <1>7 DEF Return
  <2>2. /\ call' \in [Calls -> CallState] /\ call'[c] = Idle
        /\ \A d \in Calls : d # c => call'[d] = call[d]
    BY <2>1, IdleIs, CallMoves
  <2>3. Referenced' = Referenced
    BY <1>7, <2>1, <2>2, IdleIs, SameReferences DEF Return, Held
  <2> QED
    BY <1>7, <1>a, <1>b, <1>d, <2>2, <2>3 DEF Return
<1>8. CASE Cleanup \/ ClearCache
  <2>1. /\ DOMAIN cache' = Ops /\ cache' = [o \in Ops |-> cache'[o]]
        /\ \A o \in Ops : cache'[o] = NoEntry \/ cache'[o] = cache[o]
    BY <1>8 DEF Cleanup, ClearCache
  <2>2. NoEntry \in Slot
    BY ResilienceAssumption DEF NoEntry, Slot
  <2>3. cache' \in [Ops -> Slot]
    BY <1>a, <2>1, <2>2
  <2>4. call' = call /\ up' = up /\ Collect
    BY <1>8 DEF Cleanup, ClearCache
  <2>5. Referenced' \subseteq Referenced
    BY <2>1, <2>4, Keeps, KeepsOnlyNext DEF Held
  <2>6. HeapOK'
    BY <2>4, <2>5, CollectTyped
  <2> QED
    BY <1>a, <1>b, <2>3, <2>4, <2>6
<1>9. CASE Tick
  <2>1. ASSUME NEW o \in Ops
        PROVE  /\ cache'[o] \in Slot /\ (cache'[o] # NoEntry <=> cache[o] # NoEntry)
               /\ cache[o] # NoEntry => cache'[o].breaker = cache[o].breaker
    <3>1. CASE cache[o] = NoEntry
      BY <1>9, <1>a, <3>1 DEF Tick
    <3>2. CASE cache[o] # NoEntry
      <4>1. cache'[o] = [cache[o] EXCEPT !.age = Capped(cache[o].age + 1, Lifetime + 1)]
        BY <1>9, <3>2 DEF Tick
      <4>2. cache[o] \in Slot /\ cache[o].age \in 0..(Lifetime + 1)
        BY <1>a DEF Slot
      <4>3. Capped(cache[o].age + 1, Lifetime + 1) \in 1..(Lifetime + 1)
        BY <4>2, ResilienceAssumption DEF Capped
      <4>4. cache'[o] \in Slot /\ cache'[o].breaker = cache[o].breaker /\ cache'[o].age # 0
        BY <4>1, <4>2, <4>3 DEF Slot
      <4> QED
        BY <3>2, <4>4 DEF NoEntry
    <3> QED
      BY <3>1, <3>2
  <2>2. ASSUME NEW c \in Calls
        PROVE  /\ call'[c] \in CallState
               /\ call'[c].at = call[c].at /\ call'[c].breaker = call[c].breaker
    <3>1. call'[c] = [call[c] EXCEPT !.wait = IF call[c].wait = 0 THEN 0 ELSE call[c].wait - 1]
      BY <1>9 DEF Tick
    <3>2. call[c] \in CallState /\ call[c].wait \in 0..MaxDelay
      BY <1>a DEF CallState
    <3>3. (IF call[c].wait = 0 THEN 0 ELSE call[c].wait - 1) \in 0..MaxDelay
      BY <3>2, ResilienceAssumption
    <3> QED
      BY <3>1, <3>2, <3>3 DEF CallState
  <2>3. cache' \in [Ops -> Slot] /\ call' \in [Calls -> CallState]
    <3>1. cache' = [o \in Ops |-> cache'[o]] /\ call' = [c \in Calls |-> call'[c]]
      BY <1>9 DEF Tick
    <3> QED
      BY <2>1, <2>2, <3>1
  <2>4. Referenced' = Referenced
    BY <2>1, <2>2, SameReferences DEF Held
  <2>5. HeapOK'
    <3>1. /\ DOMAIN heap' = DOMAIN heap /\ struck' = struck
          /\ \A b \in DOMAIN heap : heap'[b] = Aged(heap[b])
      BY <1>9 DEF Tick
    <3> QED
      BY <1>a, <2>4, <3>1, MethodsTyped DEF HeapOK
  <2> QED
    BY <1>9, <1>a, <1>b, <2>3, <2>5 DEF Tick
<1>10. CASE Break
  <2>1. ASSUME NEW c \in Calls
        PROVE  /\ call'[c] \in CallState
               /\ Held(c)' <=> Held(c)
               /\ call'[c].breaker = call[c].breaker
    <3>1. \/ call'[c] = call[c]
          \/ call[c].at = "good" /\ call'[c] = [call[c] EXCEPT !.at = "bad"]
      BY <1>10 DEF Break
    <3> QED
      BY <1>a, <3>1 DEF CallState, Stages, Running, Held
  <2>2. call' \in [Calls -> CallState]
    <3>1. call' = [c \in Calls |-> call'[c]]
      BY <1>10 DEF Break
    <3> QED
      BY <2>1, <3>1
  <2>3. Referenced' = Referenced
    BY <1>10, <2>1, SameReferences DEF Break
  <2> QED
    BY <1>10, <1>a, <1>b, <1>d, <2>2, <2>3 DEF Break
<1>11. CASE Repair
  <2>1. Referenced' = Referenced
    BY <1>11, SameReferences DEF Repair, Held
  <2> QED
    BY <1>11, <1>a, <1>b, <1>d, <2>1 DEF Repair
<1>12. CASE UNCHANGED vars
  <2>1. Referenced' = Referenced
    BY <1>12, SameReferences DEF vars, Held
  <2> QED
    BY <1>12, <1>a, <1>b, <1>d, <2>1 DEF vars
<1> QED
  BY <1>1, <1>2, <1>3, <1>4, <1>5, <1>6, <1>7, <1>8, <1>9, <1>10, <1>11, <1>12 DEF Next, Ask, Go

\* The heap holds the breakers that the cache or a call refers to and no
\* other, all of them in order, whatever is dropped, cleared or replaced while
\* calls hold on to their breakers.
THEOREM Typing == Spec => []TypeOK
<1>1. Init => TypeOK
  <2> SUFFICES ASSUME Init PROVE TypeOK
    OBVIOUS
  <2>1. NoEntry \in Slot
    BY ResilienceAssumption DEF NoEntry, Slot
  <2>2. cache \in [Ops -> Slot] /\ call \in [Calls -> CallState]
    BY <2>1, IdleIs DEF Init
  <2>3. Referenced = {}
    BY IdleIs DEF Init, Referenced, Held
  <2> QED
    BY <2>2, <2>3 DEF Init, TypeOK
<1> QED
  BY <1>1, TypeStep, PTL DEF Spec

-----------------------------------------------------------------------------
(***************************************************************************)
(* What can happen to one breaker in one step.                             *)
(***************************************************************************)

\* The calls whose operation runs on b.
RunningOn(b) == {c \in Calls : call[c].at \in Running /\ call[c].breaker = b}

\* It is put into the cache, for a call that found none.
Made(b)   == b \notin Referenced /\ heap'[b] = NewBreaker /\ struck'[b] = 0

\* Nothing happens to it, except that a call on it may have been dropped.
Spared(b) == /\ b \in Referenced /\ heap'[b] = heap[b] /\ struck'[b] = struck[b]
             /\ RunningOn(b)' \subseteq RunningOn(b)

\* isOpen lets a call through, which may move it to HALF_OPEN.
Asked(b)  == /\ b \in Referenced /\ ~IsOpen(heap[b])
             /\ heap'[b] = Consulted(heap[b])
             /\ heap'[b] # heap[b] => struck'[b] = 0
             /\ heap'[b] = heap[b] => struck'[b] = struck[b]

\* An operation that ran on it succeeds.
Worked(b) == /\ b \in Referenced
             /\ heap'[b] = Succeeded(heap[b]) /\ struck'[b] = 0
             /\ \E c \in RunningOn(b) : RunningOn(b)' = RunningOn(b) \ {c}

\* An operation that ran on it fails.
FailedOn(b) == /\ b \in Referenced
               /\ heap'[b] = Failed(heap[b]) /\ struck'[b] = struck[b] + 1
               /\ \E c \in RunningOn(b) : FailAttempt(c) /\ RunningOn(b)' = RunningOn(b) \ {c}

\* Time passes.
Waited(b) == /\ b \in Referenced /\ Tick
             /\ heap'[b] = Aged(heap[b]) /\ struck'[b] = struck[b]
             /\ RunningOn(b)' = RunningOn(b)

\* A call that moves on leaves the calls that run on a breaker as they are,
\* itself apart.
LEMMA RunningMoves ==
  ASSUME TypeOK, NEW c \in Calls, NEW new \in CallState,
         call' = [call EXCEPT ![c] = new], NEW b
  PROVE  /\ new.at \notin Running => RunningOn(b)' = RunningOn(b) \ {c}
         /\ new.breaker # b => RunningOn(b)' \subseteq RunningOn(b)
<1>1. /\ call'[c] = new
      /\ \A d \in Calls : d # c => call'[d] = call[d]
  BY DEF TypeOK
<1> QED
  BY <1>1 DEF RunningOn

\* A call that starts on x has asked x and no other breaker.
LEMMA AskedOf ==
  ASSUME TypeOK, NEW c \in Calls, NEW x \in Referenced, ~IsOpen(heap[x]),
         NEW new \in CallState, new.breaker = x,
         call' = [call EXCEPT ![c] = new], cache' = cache, Consult(x),
         NEW b \in Referenced'
  PROVE  Spared(b) \/ Asked(b)
<1>1. b \in Referenced
  BY CallMoves
<1>2. CASE b = x
  BY <1>1, <1>2 DEF Consult, Update, Asked
<1>3. CASE b # x
  <2>1. RunningOn(b)' \subseteq RunningOn(b)
    BY <1>3, RunningMoves
  <2> QED
    BY <1>1, <1>3, <2>1 DEF Consult, Update, Spared
<1> QED
  BY <1>2, <1>3

\* A step makes a breaker, leaves it alone, asks it, reports a success or a
\* failure to it, or lets it wait.  It is asked only if it admits, so that
\* the calls that run on an open breaker become fewer and never more.
LEMMA BreakerStep ==
  ASSUME TypeOK, Next, NEW b \in Referenced'
  PROVE  Made(b) \/ Spared(b) \/ Asked(b) \/ Worked(b) \/ FailedOn(b) \/ Waited(b)
<1>a. /\ cache \in [Ops -> Slot] /\ call \in [Calls -> CallState]
      /\ DOMAIN heap = Referenced /\ DOMAIN struck = Referenced
  BY DEF TypeOK
<1>c. 0 \in 0..(MaxAttempts - 1)
  BY ResilienceAssumption
<1>1. ASSUME NEW c \in Calls, NEW o \in Ops, Refuse(c, o) PROVE Spared(b)
  <2> DEFINE new == [call[c] EXCEPT !.at = "refused"]
  <2>1. new \in CallState /\ new.at = "refused"
    BY <1>a DEF CallState, Stages
  <2>2. call' = [call EXCEPT ![c] = new] /\ cache' = cache
    BY <1>1 DEF Refuse
  <2> HIDE DEF new
  <2>3. b \in Referenced
    BY <2>1, <2>2, CallMoves
  <2>4. RunningOn(b)' = RunningOn(b) \ {c}
    BY <2>1, <2>2, RunningMoves DEF Running
  <2> QED
    BY <1>1, <2>3, <2>4 DEF Refuse, Spared
<1>2. ASSUME NEW c \in Calls, NEW o \in Ops, Begin(c, o) PROVE Spared(b) \/ Asked(b)
  <2> DEFINE x   == cache[o].breaker
             new == Started(x, 0)
  <2>1. x \in Breakers /\ x \in Referenced /\ heap[x] \in Breaker /\ ~IsOpen(heap[x])
    BY <1>2, Addresses DEF Begin, Found, Refuses, CachedBreaker
  <2>2. new \in CallState /\ new.breaker = x
    BY <1>c, <2>1, StartedIs
  <2>3. call' = [call EXCEPT ![c] = new] /\ cache' = cache /\ Consult(x)
    BY <1>2 DEF Begin
  <2> HIDE DEF x, new
  <2> QED
    BY <2>1, <2>2, <2>3, AskedOf
<1>3. ASSUME NEW c \in Calls, NEW o \in Ops, Create(c, o) PROVE Made(b) \/ Spared(b)
  <2>1. PICK x \in Fresh :
          /\ cache' = [cache EXCEPT ![o] = [breaker |-> x, age |-> 0]]
          /\ call' = [call EXCEPT ![c] = Started(x, 0)]
          /\ Update(x, NewBreaker, 0)
    BY <1>3 DEF Create
  <2>2. x \in Breakers /\ x \notin Referenced
    BY DEF Fresh, Free
  <2> DEFINE new   == Started(x, 0)
             entry == [breaker |-> x, age |-> 0]
  <2>3. new \in CallState /\ new.breaker = x
    BY <1>c, <2>2, StartedIs
  <2>4. entry.breaker = x /\ cache' = [cache EXCEPT ![o] = entry] /\ call' = [call EXCEPT ![c] = new]
    BY <2>1
  <2> HIDE DEF new, entry
  <2>5. b \in Referenced \cup {x}
    <3>1. \A p \in Ops : cache'[p] # NoEntry => cache'[p].breaker \in Referenced \cup {x}
      BY <1>a, <2>4, Keeps
    <3>2. \A d \in Calls : Held(d)' => call'[d].breaker \in Referenced \cup {x}
      BY <1>a, <2>3, <2>4, Keeps DEF Held
    <3> QED
      BY <3>1, <3>2, KeepsOnlyNext
  <2>6. CASE b = x
    BY <2>1, <2>2, <2>6 DEF Update, Made
  <2>7. CASE b # x
    <3>1. RunningOn(b)' \subseteq RunningOn(b)
      BY <2>3, <2>4, <2>7, RunningMoves
    <3> QED
      BY <2>1, <2>5, <2>7, <3>1 DEF Update, Spared
  <2> QED
    BY <2>6, <2>7
<1>4. ASSUME NEW c \in Calls, Succeed(c) PROVE Spared(b) \/ Worked(b)
  <2>1. /\ call' = [call EXCEPT ![c] = Idle] /\ cache' = cache
        /\ Update(call[c].breaker, Succeeded(heap[call[c].breaker]), 0)
        /\ call[c].at \in Running
    BY <1>4 DEF Succeed, Running
  <2>2. b \in Referenced /\ RunningOn(b)' = RunningOn(b) \ {c}
    BY <2>1, IdleIs, CallMoves, RunningMoves DEF Running
  <2>3. CASE b = call[c].breaker
    BY <2>1, <2>2, <2>3 DEF Update, Worked, RunningOn
  <2>4. CASE b # call[c].breaker
    BY <2>1, <2>2, <2>4 DEF Update, Spared
  <2> QED
    BY <2>3, <2>4
<1>5. ASSUME NEW c \in Calls, FailAttempt(c) PROVE Spared(b) \/ FailedOn(b)
  <2>1. /\ call' = [call EXCEPT ![c] = NextAttempt(c)] /\ cache' = cache
        /\ Update(call[c].breaker, Failed(heap[call[c].breaker]), struck[call[c].breaker] + 1)
        /\ call[c].at \in Running /\ call[c].breaker \in Referenced
    BY <1>5, Keeps DEF FailAttempt, Running, Held
  <2>2. b \in Referenced /\ RunningOn(b)' = RunningOn(b) \ {c}
    BY <2>1, NextAttemptIs, CallMoves, RunningMoves DEF Running
  <2>3. CASE b = call[c].breaker
    BY <1>5, <2>1, <2>2, <2>3 DEF Update, FailedOn, RunningOn
  <2>4. CASE b # call[c].breaker
    BY <2>1, <2>2, <2>4 DEF Update, Spared
  <2> QED
    BY <2>3, <2>4
<1>6. ASSUME NEW c \in Calls, Retry(c) PROVE Spared(b) \/ Asked(b)
  <2> DEFINE x   == call[c].breaker
             new == Started(x, call[c].attempt)
  <2>1. x \in Breakers /\ x \in Referenced /\ heap[x] \in Breaker /\ ~IsOpen(heap[x])
    BY <1>6, Addresses DEF Retry, Awake, Held
  <2>2. new \in CallState /\ new.breaker = x
    BY <1>a, <2>1, StartedIs DEF CallState
  <2>3. call' = [call EXCEPT ![c] = new] /\ cache' = cache /\ Consult(x)
    BY <1>6 DEF Retry
  <2> HIDE DEF x, new
  <2> QED
    BY <2>1, <2>2, <2>3, AskedOf
<1>7. ASSUME NEW c \in Calls, RetryRefused(c) PROVE Spared(b)
  <2>1. /\ call' = [call EXCEPT ![c] = NextAttempt(c)] /\ cache' = cache
        /\ Collect /\ call[c].breaker \in Referenced
    BY <1>7, Keeps DEF RetryRefused, Awake, Held
  <2>2. b \in Referenced /\ RunningOn(b)' = RunningOn(b) \ {c}
    BY <2>1, NextAttemptIs, CallMoves, RunningMoves DEF Running
  <2> QED
    BY <2>1, <2>2 DEF Collect, Spared
<1>8. ASSUME NEW c \in Calls, Return(c) PROVE Spared(b)
  <2>1. call' = [call EXCEPT ![c] = Idle] /\ cache' = cache
    BY <1>8 DEF Return
  <2>2. b \in Referenced /\ RunningOn(b)' = RunningOn(b) \ {c}
    BY <2>1, IdleIs, CallMoves, RunningMoves DEF Running
  <2> QED
    BY <1>8, <2>2 DEF Return, Spared
<1>9. CASE Cleanup \/ ClearCache
  <2>1. \A o \in Ops : cache'[o] = NoEntry \/ cache'[o] = cache[o]
    BY <1>9 DEF Cleanup, ClearCache
  <2>2. call' = call /\ Collect
    BY <1>9 DEF Cleanup, ClearCache
  <2>3. b \in Referenced /\ RunningOn(b)' = RunningOn(b)
    BY <2>1, <2>2, Keeps, KeepsOnlyNext DEF Held, RunningOn
  <2> QED
    BY <2>2, <2>3 DEF Collect, Spared
<1>10. CASE Tick
  <2>1. \A c \in Calls : call'[c].at = call[c].at /\ call'[c].breaker = call[c].breaker
    <3>1. ASSUME NEW c \in Calls
          PROVE  call'[c].at = call[c].at /\ call'[c].breaker = call[c].breaker
      <4>1. call'[c] = [call[c] EXCEPT !.wait = IF call[c].wait = 0 THEN 0 ELSE call[c].wait - 1]
        BY <1>10 DEF Tick
      <4> QED
        BY <1>a, <4>1 DEF CallState
    <3> QED
      BY <3>1
  <2>2. \A o \in Ops : cache'[o] # NoEntry =>
                         cache[o] # NoEntry /\ cache'[o].breaker = cache[o].breaker
    <3>1. ASSUME NEW o \in Ops, cache[o] # NoEntry PROVE cache'[o].breaker = cache[o].breaker
      <4>1. cache'[o] = [cache[o] EXCEPT !.age = Capped(cache[o].age + 1, Lifetime + 1)]
        BY <1>10, <3>1 DEF Tick
      <4> QED
        BY <1>a, <4>1 DEF Slot
    <3>2. ASSUME NEW o \in Ops, cache[o] = NoEntry PROVE cache'[o] = NoEntry
      BY <1>10, <3>2 DEF Tick
    <3> QED
      BY <3>1, <3>2
  <2>3. b \in Referenced
    BY <2>1, <2>2, Keeps, KeepsOnlyNext DEF Held
  <2>4. RunningOn(b)' = RunningOn(b)
    BY <2>1 DEF RunningOn
  <2> QED
    BY <1>10, <1>a, <2>3, <2>4 DEF Tick, Waited
<1>11. CASE Break
  <2>1. ASSUME NEW c \in Calls
        PROVE  /\ Held(c)' <=> Held(c)
               /\ call'[c].at \in Running <=> call[c].at \in Running
               /\ call'[c].breaker = call[c].breaker
    <3>1. \/ call'[c] = call[c]
          \/ call[c].at = "good" /\ call'[c] = [call[c] EXCEPT !.at = "bad"]
      BY <1>11 DEF Break
    <3> QED
      BY <1>a, <3>1 DEF CallState, Stages, Running, Held
  <2>2. b \in Referenced
    BY <1>11, <2>1, SameReferences DEF Break
  <2>3. RunningOn(b)' = RunningOn(b)
    BY <2>1 DEF RunningOn
  <2> QED
    BY <1>11, <2>2, <2>3 DEF Break, Spared
<1>12. CASE Repair
  <2>1. b \in Referenced
    BY <1>12, SameReferences DEF Repair, Held
  <2> QED
    BY <1>12, <2>1 DEF Repair, Spared, RunningOn
<1> QED
  BY <1>1, <1>2, <1>3, <1>4, <1>5, <1>6, <1>7, <1>8, <1>9, <1>10, <1>11, <1>12 DEF Next, Ask, Go

-----------------------------------------------------------------------------
(***************************************************************************)
(* Failures per window.  The bound itself is not inductive: once a breaker *)
(* is open, every call that still runs on it may strike once more, so the  *)
(* strikes must be counted together with those calls; and before it opens, *)
(* the strikes must be below the threshold, which holds because the count  *)
(* that opens it is at least as high.                                      *)
(***************************************************************************)
WindowInv ==
  \A b \in Referenced :
    /\ heap[b].state # "OPEN" => struck[b] <= heap[b].failures /\ struck[b] < FailureThreshold
    /\ heap[b].state = "OPEN" =>
         struck[b] + Cardinality(RunningOn(b)) < FailureThreshold + Cardinality(Calls)

\* How many calls can run on a breaker, and how many are left when one stops.
LEMMA Runners ==
  ASSUME NEW b
  PROVE  /\ IsFiniteSet(RunningOn(b)) /\ Cardinality(RunningOn(b)) \in Nat
         /\ Cardinality(Calls) \in Nat /\ Cardinality(RunningOn(b)) <= Cardinality(Calls)
         /\ \A S : S \subseteq RunningOn(b) =>
              Cardinality(S) \in Nat /\ Cardinality(S) <= Cardinality(RunningOn(b))
         /\ \A c \in RunningOn(b) :
              Cardinality(RunningOn(b) \ {c}) = Cardinality(RunningOn(b)) - 1
<1>1. RunningOn(b) \in SUBSET Calls /\ IsFiniteSet(Calls)
  BY ResilienceAssumption DEF RunningOn
<1>2. IsFiniteSet(RunningOn(b)) /\ Cardinality(RunningOn(b)) <= Cardinality(Calls)
  BY <1>1, FS_Subset
<1>3. Cardinality(RunningOn(b)) \in Nat /\ Cardinality(Calls) \in Nat
  BY <1>1, <1>2, FS_CardinalityType
<1>4. ASSUME NEW S, S \subseteq RunningOn(b)
      PROVE  Cardinality(S) \in Nat /\ Cardinality(S) <= Cardinality(RunningOn(b))
  <2>1. IsFiniteSet(S) /\ Cardinality(S) <= Cardinality(RunningOn(b))
    BY <1>2, <1>4, FS_Subset
  <2> QED
    BY <2>1, FS_CardinalityType
<1>5. ASSUME NEW c \in RunningOn(b)
      PROVE  Cardinality(RunningOn(b) \ {c}) = Cardinality(RunningOn(b)) - 1
  BY <1>2, FS_RemoveElement
<1> QED
  BY <1>2, <1>3, <1>4, <1>5

\* Whatever happens to a breaker, the strikes and the calls that can still
\* strike stay within the bound.
LEMMA WindowStep == TypeOK /\ TypeOK' /\ WindowInv /\ [Next]_vars => WindowInv'
<1> SUFFICES ASSUME TypeOK, TypeOK', WindowInv, [Next]_vars PROVE WindowInv'
  OBVIOUS
<1>1. CASE UNCHANGED vars
  <2>1. Referenced' = Referenced
    BY <1>1, SameReferences DEF vars, Held
  <2> QED
    BY <1>1, <2>1 DEF vars, WindowInv, RunningOn
<1>2. CASE Next
  <2> SUFFICES ASSUME NEW b \in Referenced'
               PROVE  /\ heap'[b].state # "OPEN" =>
                           struck'[b] <= heap'[b].failures /\ struck'[b] < FailureThreshold
                      /\ heap'[b].state = "OPEN" =>
                           struck'[b] + Cardinality(RunningOn(b)') < FailureThreshold + Cardinality(Calls)
    BY DEF WindowInv
  <2> DEFINE T == FailureThreshold
             N == Cardinality(Calls)
             r == Cardinality(RunningOn(b))
  <2>0. /\ T \in Nat /\ T > 0 /\ N \in Nat /\ r \in Nat /\ r <= N
        /\ heap'[b] \in Breaker /\ struck'[b] \in Nat
    BY BreakerAssumption, Runners DEF TypeOK
  <2>a. b \in Referenced =>
          /\ heap[b] \in Breaker /\ struck[b] \in Nat
          /\ heap[b].state # "OPEN" => struck[b] <= heap[b].failures /\ struck[b] < T
          /\ heap[b].state = "OPEN" => struck[b] + r < T + N
    BY DEF TypeOK, WindowInv
  <2>1. CASE Made(b)
    BY <2>1, BreakerAssumption DEF Made, NewBreaker
  <2>2. CASE Spared(b)
    <3>1. Cardinality(RunningOn(b)') \in Nat /\ Cardinality(RunningOn(b)') <= r
      BY <2>2, Runners DEF Spared
    <3> QED
      BY <2>0, <2>2, <2>a, <3>1 DEF Spared
  <2>3. CASE Asked(b)
    <3>1. heap'[b].state # "OPEN" /\ heap'[b].failures = heap[b].failures
      BY <2>3, <2>a, IsOpenIs DEF Asked
    <3>2. CASE heap'[b] = heap[b]
      BY <2>3, <2>a, <3>1, <3>2 DEF Asked
    <3>3. CASE heap'[b] # heap[b]
      <4>1. struck'[b] = 0 /\ heap'[b].failures \in Nat
        BY <2>0, <2>3, <3>3 DEF Asked, Breaker
      <4> QED
        BY <2>0, <3>1, <4>1
    <3> QED
      BY <3>2, <3>3
  <2>4. CASE Worked(b)
    <3>1. struck'[b] = 0 /\ heap'[b].failures = 0
      BY <2>4, <2>a, OnSuccessIs DEF Worked
    <3>2. Cardinality(RunningOn(b)') = r - 1
      BY <2>4, Runners DEF Worked
    <3> QED
      BY <2>0, <3>1, <3>2
  <2>5. CASE FailedOn(b)
    <3>1. Cardinality(RunningOn(b)') = r - 1 /\ struck'[b] = struck[b] + 1
      BY <2>5, Runners DEF FailedOn
    <3>2. CASE heap'[b].state # "OPEN"
      <4>1. /\ heap[b].state # "OPEN" /\ heap'[b].failures = heap[b].failures + 1
            /\ heap[b].failures + 1 < T
        BY <2>5, <2>a, <3>2, OnFailureIs DEF FailedOn
      <4>2. heap[b].failures \in Nat
        BY <2>5, <2>a DEF FailedOn, Breaker
      <4> QED
        BY <2>0, <2>5, <2>a, <3>1, <3>2, <4>1, <4>2 DEF FailedOn
    <3>3. CASE heap'[b].state = "OPEN"
      BY <2>0, <2>5, <2>a, <3>1, <3>3 DEF FailedOn
    <3> QED
      BY <3>2, <3>3
  <2>6. CASE Waited(b)
    BY <2>6, <2>a, AgedIs DEF Waited
  <2> QED
    BY <1>2, <2>1, <2>2, <2>3, <2>4, <2>5, <2>6, BreakerStep
<1> QED
  BY <1>1, <1>2

\* Between two probes a dependency takes at most the threshold of failures
\* and one more for every other call that was under way.
THEOREM Window == Spec => []FailuresPerWindow
<1>1. Init => WindowInv
  BY IdleIs DEF Init, WindowInv, Referenced, Held
<1>2. Spec => []WindowInv
  BY <1>1, WindowStep, Typing, PTL DEF Spec
<1>3. TypeOK /\ WindowInv => FailuresPerWindow
  <2> SUFFICES ASSUME TypeOK, WindowInv, NEW b \in Referenced
               PROVE  struck[b] <= FailureThreshold + Cardinality(Calls) - 1
    BY DEF FailuresPerWindow
  <2>1. struck[b] \in Nat /\ FailureThreshold \in Nat
    BY BreakerAssumption DEF TypeOK
  <2>2. Cardinality(Calls) \in Nat /\ Cardinality(RunningOn(b)) \in Nat
    BY Runners
  <2> QED
    BY <2>1, <2>2 DEF WindowInv
<1> QED
  BY <1>2, <1>3, Typing, PTL

-----------------------------------------------------------------------------
(***************************************************************************)
(* Refusals.                                                               *)
(***************************************************************************)

\* A breaker that refuses is listed by the health status, which then says
\* degraded: get and the listing draw the line of expiry at the same tick.
THEOREM Reported == Spec => []RefusalIsReported
<1>1. TypeOK => RefusalIsReported
  <2> SUFFICES ASSUME TypeOK, NEW o \in Ops, Refuses(o) PROVE ResilienceStatus = "degraded"
    BY DEF RefusalIsReported
  <2>1. cache[o] # NoEntry /\ cache[o].age \in 0..(Lifetime + 1) /\ ~(cache[o].age > Lifetime)
    BY DEF TypeOK, Slot, Refuses, Found, Expired
  <2>2. Shown(o)
    BY <2>1, ResilienceAssumption DEF Shown
  <2>3. CachedBreaker(o).state = "OPEN"
    BY DEF Refuses, IsOpen
  <2> QED
    BY <2>2, <2>3 DEF ResilienceStatus
<1> QED
  BY <1>1, Typing, PTL

\* Neither a late success or failure, a retry, a new call of another
\* operation nor a tidying of the cache lifts a refusal.
THEOREM TimeLifts == Spec => OnlyTimeLifts
<1>1. TypeOK /\ TypeOK' /\ [Next]_vars =>
        [\A o \in Ops : Refuses(o) /\ ~Refuses(o)' => Tick \/ ClearCache]_vars
  <2> SUFFICES ASSUME TypeOK, TypeOK', Next, NEW o \in Ops, Refuses(o), ~Tick, ~ClearCache
               PROVE  Refuses(o)'
    OBVIOUS
  <2> DEFINE b == cache[o].breaker
  <2>1. cache[o] # NoEntry /\ ~Expired(o) /\ IsOpen(heap[b]) /\ b \in Referenced /\ heap[b] \in Breaker
    BY Addresses DEF Refuses, Found, CachedBreaker
  <2>2. cache'[o] = cache[o]
    <3>1. ASSUME NEW c \in Calls, NEW p \in Ops, Create(c, p) PROVE cache'[o] = cache[o]
      <4>1. p # o
        BY <2>1, <3>1 DEF Create, Found
      <4> QED
        BY <3>1, <4>1 DEF Create, TypeOK
    <3>2. CASE Cleanup
      BY <2>1, <3>2 DEF Cleanup
    <3>3. ASSUME NEW c \in Calls, NEW p \in Ops, Refuse(c, p) \/ Begin(c, p) PROVE cache' = cache
      BY <3>3 DEF Refuse, Begin
    <3>4. ASSUME NEW c \in Calls, Go(c) PROVE cache' = cache
      BY <3>4 DEF Go, Succeed, FailAttempt, Retry, RetryRefused, Return
    <3>5. CASE Break \/ Repair
      BY <3>5 DEF Break, Repair
    <3> QED
      BY <3>1, <3>2, <3>3, <3>4, <3>5 DEF Next, Ask
  <2>3. b \in Referenced'
    BY <2>1, <2>2, KeepsNext
  <2>4. IsOpen(heap'[b])
    <3>1. CASE Spared(b)
      BY <2>1, <3>1 DEF Spared
    <3>2. CASE Worked(b)
      BY <2>1, <3>2, OnSuccessIs DEF Worked
    <3>3. CASE FailedOn(b)
      BY <2>1, <3>3, OnFailureIs DEF FailedOn, IsOpen
    <3> HIDE DEF b
    <3> QED
      BY <2>1, <2>3, <3>1, <3>2, <3>3, BreakerStep DEF Made, Asked, Waited
  <2> QED
    BY <2>1, <2>2, <2>4 DEF Refuses, Found, Expired, CachedBreaker
<1> QED
  BY <1>1, Typing, PTL DEF Spec, OnlyTimeLifts

\* Only a failure of the operation starts the wait of a breaker anew.
THEOREM FailuresProlong == Spec => OnlyFailuresProlong
<1>1. TypeOK /\ [Next]_vars =>
        [\A b \in Referenced \cap Referenced' :
           heap'[b].age < heap[b].age =>
             \E c \in Calls : call[c].breaker = b /\ FailAttempt(c)]_vars
  <2> SUFFICES ASSUME TypeOK, Next, NEW b \in Referenced, b \in Referenced',
                      heap'[b].age < heap[b].age
               PROVE  \E c \in Calls : call[c].breaker = b /\ FailAttempt(c)
    OBVIOUS
  <2>1. heap[b] \in Breaker /\ heap[b].age \in Int
    BY DEF TypeOK, Breaker
  <2>2. CASE Spared(b)
    BY <2>1, <2>2 DEF Spared
  <2>3. CASE Asked(b)
    BY <2>1, <2>3, IsOpenIs DEF Asked
  <2>4. CASE Worked(b)
    BY <2>1, <2>4, OnSuccessIs DEF Worked
  <2>5. CASE FailedOn(b)
    BY <2>5 DEF FailedOn, RunningOn
  <2>6. CASE Waited(b)
    <3>1. Aged(heap[b]).age \in Int
      BY <2>1, MethodsTyped DEF Breaker
    <3> QED
      BY <2>1, <2>6, <3>1, AgedIs DEF Waited
  <2> QED
    BY <2>2, <2>3, <2>4, <2>5, <2>6, BreakerStep DEF Made
<1> QED
  BY <1>1, Typing, PTL DEF Spec, OnlyFailuresProlong
=============================================================================
