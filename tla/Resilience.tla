----------------------------- MODULE Resilience -----------------------------
(***************************************************************************)
(* ResilienceService.execute: calls, each with its retries, over circuit   *)
(* breakers that live in an expiring cache which health requests read,     *)
(* tidy and clear.                                                         *)
(*                                                                         *)
(* A call looks its breaker up once and keeps that object through all its  *)
(* attempts, while the cache may drop it and hand a new one to later       *)
(* calls.  Breakers are therefore objects on a heap; one that neither the  *)
(* cache nor a call refers to is collected.  Calls run without an await    *)
(* from the look-up to the start of the operation, from its end to the     *)
(* sleep, and from the sleep to the next start.                            *)
(*                                                                         *)
(* Callers pass the same options with the same operation name, so the      *)
(* cache of retry policies returns equal policies and is left out; names   *)
(* are fewer than the places of a cache, so nothing is evicted.            *)
(***************************************************************************)
EXTENDS BreakerOps, FiniteSets

CONSTANTS
  Calls,        \* concurrent calls of execute
  Ops,          \* operation names: payment-service, payment-webhook
  Breakers,     \* addresses of breaker objects
  NoBreaker,
  MaxAttempts, BaseDelay, BackoffMultiplier, MaxDelay,  \* of the retry policy, in ticks
  Lifetime,     \* time to live of a cached breaker: 3600000 ms in the code, in ticks
  CacheSize     \* 1000 in the code

ASSUME ResilienceAssumption ==
  /\ Breakers \subseteq Nat
  /\ NoBreaker \notin Breakers
  /\ MaxAttempts \in Nat \ {0}
  /\ MaxDelay \in Nat
  /\ \A n \in 0..MaxAttempts : BaseDelay * BackoffMultiplier^n \in Nat
  /\ Lifetime \in Nat
  /\ IsFiniteSet(Calls) /\ IsFiniteSet(Ops)
  /\ CacheSize \in Nat /\ Cardinality(Ops) <= CacheSize

VARIABLES
  heap,     \* the breakers that are referred to
  cache,    \* cache[o]: the breaker stored under o and its age there
  call,     \* call[c]: where c is, its breaker, the number of its attempt, its sleep
  up,       \* the dependency behind the operations works
  struck    \* struck[b]: operations that failed on b since a success or a probe (history)

vars == <<heap, cache, call, up, struck>>

Running == {"good", "bad"}     \* how the operation that runs will end
Stages  == Running \cup {"idle", "asleep", "refused"}

CallState == [at : Stages, breaker : Breakers \cup {NoBreaker},
              attempt : 0..(MaxAttempts - 1), wait : 0..MaxDelay]
Idle      == [at |-> "idle", breaker |-> NoBreaker, attempt |-> 0, wait |-> 0]

Slot    == [breaker : Breakers \cup {NoBreaker}, age : 0..(Lifetime + 1)]
NoEntry == [breaker |-> NoBreaker, age |-> 0]

Held(c)    == call[c].at \notin {"idle", "refused"}
Referenced == {cache[o].breaker : o \in {p \in Ops : cache[p] # NoEntry}}
              \cup {call[c].breaker : c \in {d \in Calls : Held(d)}}

TypeOK ==
  /\ cache \in [Ops -> Slot]
  /\ call \in [Calls -> CallState]
  /\ DOMAIN heap = Referenced /\ Referenced \subseteq Breakers
  /\ \A b \in Referenced : heap[b] \in Breaker
  /\ DOMAIN struck = Referenced
  /\ \A b \in Referenced : struck[b] \in Nat
  /\ up \in BOOLEAN

Init ==
  /\ heap = [b \in {} |-> NewBreaker]
  /\ cache = [o \in Ops |-> NoEntry]
  /\ call = [c \in Calls |-> Idle]
  /\ up = TRUE
  /\ struck = [b \in {} |-> 0]

-----------------------------------------------------------------------------
(* Helpers *)

\* What the cache's get finds under o; an entry is expired after its last tick.
Expired(o) == cache[o].age > Lifetime
Found(o)   == cache[o] # NoEntry /\ ~Expired(o)
CachedBreaker(o) == heap[cache[o].breaker]

\* The next execute of o would be refused.
Refuses(o) == Found(o) /\ IsOpen(CachedBreaker(o))

\* The address of a new object: the first that is free.
Free  == Breakers \ Referenced
Fresh == {b \in Free : \A a \in Free : b <= a}

CalculateDelay(attempt) == Capped(BaseDelay * BackoffMultiplier^attempt, MaxDelay)

\* An operation that starts now, on breaker b.
Started(b, attempt) == [at |-> IF up THEN "good" ELSE "bad", breaker |-> b,
                        attempt |-> attempt, wait |-> 0]

\* Mutant: a failed attempt is not counted.
NextAttemptUncounted(c) ==
  [call[c] EXCEPT !.at = "asleep", !.wait = CalculateDelay(call[c].attempt)]

\* Mutant: one attempt too many.
NextAttemptOffByOne(c) ==
  IF call[c].attempt = MaxAttempts
  THEN Idle
  ELSE [call[c] EXCEPT !.at = "asleep", !.attempt = @ + 1,
                       !.wait = CalculateDelay(call[c].attempt)]

\* RetryPolicy after an attempt that threw: give up or sleep.
NextAttempt(c) ==
  IF call[c].attempt = MaxAttempts - 1
  THEN Idle
  ELSE [call[c] EXCEPT !.at = "asleep", !.attempt = @ + 1,
                       !.wait = CalculateDelay(call[c].attempt)]

\* The breaker at b becomes what is given; objects without reference go.
Update(b, value, strikes) ==
  /\ heap'   = [x \in Referenced' |-> IF x = b THEN value ELSE heap[x]]
  /\ struck' = [x \in Referenced' |-> IF x = b THEN strikes ELSE struck[x]]

\* isOpen(), which lets a probe through after the recovery timeout.
Consult(b) ==
  Update(b, Consulted(heap[b]), IF Consulted(heap[b]) = heap[b] THEN struck[b] ELSE 0)

Collect ==
  /\ heap'   = [x \in Referenced' |-> heap[x]]
  /\ struck' = [x \in Referenced' |-> struck[x]]

-----------------------------------------------------------------------------
(* Actions of a call *)

\* execute finds an open breaker and throws.
Refuse(c, o) ==
  /\ call[c].at = "idle"
  /\ Refuses(o)
  /\ call' = [call EXCEPT ![c].at = "refused"]
  /\ UNCHANGED <<heap, cache, up, struck>>

\* execute finds a breaker that admits it and starts the first attempt.
Begin(c, o) ==
  /\ call[c].at = "idle"
  /\ Found(o) /\ ~Refuses(o)
  /\ call' = [call EXCEPT ![c] = Started(cache[o].breaker, 0)]
  /\ UNCHANGED <<cache, up>>
  /\ Consult(cache[o].breaker)

\* execute finds no breaker, or an expired one, and makes one.
Create(c, o) ==
  /\ call[c].at = "idle"
  /\ ~Found(o)
  /\ \E b \in Fresh :
       /\ cache' = [cache EXCEPT ![o] = [breaker |-> b, age |-> 0]]
       /\ call' = [call EXCEPT ![c] = Started(b, 0)]
       /\ Update(b, NewBreaker, 0)
  /\ UNCHANGED up

\* The operation succeeded: onSuccess, the answer.
Succeed(c) ==
  /\ call[c].at = "good"
  /\ call' = [call EXCEPT ![c] = Idle]
  /\ UNCHANGED <<cache, up>>
  /\ Update(call[c].breaker, Succeeded(heap[call[c].breaker]), 0)

\* The operation failed: onFailure, then the retry policy.
FailAttempt(c) ==
  /\ call[c].at = "bad"
  /\ call' = [call EXCEPT ![c] = NextAttempt(c)]
  /\ UNCHANGED <<cache, up>>
  /\ Update(call[c].breaker, Failed(heap[call[c].breaker]), struck[call[c].breaker] + 1)

Awake(c) == call[c].at = "asleep" /\ call[c].wait = 0

\* Mutant: the breaker is around the retries, not inside them.
RetryUnguarded(c) ==
  /\ Awake(c)
  /\ call' = [call EXCEPT ![c] = Started(@.breaker, @.attempt)]
  /\ UNCHANGED <<cache, up>>
  /\ Consult(call[c].breaker)

\* The sleep is over and the breaker admits the next attempt.
Retry(c) ==
  /\ Awake(c)
  /\ ~IsOpen(heap[call[c].breaker])
  /\ call' = [call EXCEPT ![c] = Started(@.breaker, @.attempt)]
  /\ UNCHANGED <<cache, up>>
  /\ Consult(call[c].breaker)

\* Mutant: the breaker counts its own refusal as a failure.
RetryRefusedCounting(c) ==
  /\ Awake(c)
  /\ IsOpen(heap[call[c].breaker])
  /\ call' = [call EXCEPT ![c] = NextAttempt(c)]
  /\ UNCHANGED <<cache, up>>
  /\ Update(call[c].breaker, Failed(heap[call[c].breaker]), struck[call[c].breaker])

\* The breaker refuses the attempt; the retry policy takes that for a failure
\* of it, the breaker does not.
RetryRefused(c) ==
  /\ Awake(c)
  /\ IsOpen(heap[call[c].breaker])
  /\ call' = [call EXCEPT ![c] = NextAttempt(c)]
  /\ UNCHANGED <<cache, up>>
  /\ Collect

\* A refused caller has its answer.
Return(c) ==
  /\ call[c].at = "refused"
  /\ call' = [call EXCEPT ![c] = Idle]
  /\ UNCHANGED <<heap, cache, up, struck>>

-----------------------------------------------------------------------------
(* Requests to /health, the clock and the dependency *)

\* getStats, part of every health status, and force-cleanup.
Cleanup ==
  /\ \E o \in Ops : Expired(o)
  /\ cache' = [o \in Ops |-> IF Expired(o) THEN NoEntry ELSE cache[o]]
  /\ UNCHANGED <<call, up>>
  /\ Collect

ClearCache ==
  /\ \E o \in Ops : cache[o] # NoEntry
  /\ cache' = [o \in Ops |-> NoEntry]
  /\ UNCHANGED <<call, up>>
  /\ Collect

\* Mutant: an entry counts as expired at its last tick.
ShownStrictly(o) == cache[o] # NoEntry /\ cache[o].age < Lifetime

\* getHealthStatus lists the breakers that have not expired ...
Shown(o) == cache[o] # NoEntry /\ cache[o].age <= Lifetime

\* ... and getResilienceStatus sums up, here over the breakers and their cache;
\* the cache of retry policies and the memory of both can degrade it as well.
Usage == 100 * Cardinality({o \in Ops : cache[o] # NoEntry /\ ~Expired(o)})
ResilienceStatus ==
  IF \/ Usage > 90 * CacheSize
     \/ \E o \in Ops : Shown(o) /\ CachedBreaker(o).state = "OPEN"
  THEN "degraded"
  ELSE "healthy"

Tick ==
  /\ heap' = [b \in DOMAIN heap |-> Aged(heap[b])]
  /\ cache' = [o \in Ops |-> IF cache[o] = NoEntry THEN NoEntry
                             ELSE [cache[o] EXCEPT !.age = Capped(@ + 1, Lifetime + 1)]]
  /\ call' = [c \in Calls |-> [call[c] EXCEPT !.wait = IF @ = 0 THEN 0 ELSE @ - 1]]
  /\ UNCHANGED <<up, struck>>

\* The dependency breaks, and with it any of the operations under way.
Break ==
  /\ up
  /\ up' = FALSE
  /\ \E hit \in SUBSET {c \in Calls : call[c].at = "good"} :
       call' = [c \in Calls |-> IF c \in hit THEN [call[c] EXCEPT !.at = "bad"] ELSE call[c]]
  /\ UNCHANGED <<heap, cache, struck>>

Repair ==
  /\ ~up
  /\ up' = TRUE
  /\ UNCHANGED <<heap, cache, call, struck>>

Ask(c, o) == Refuse(c, o) \/ Begin(c, o) \/ Create(c, o)
Go(c)     == Succeed(c) \/ FailAttempt(c) \/ Retry(c) \/ RetryRefused(c) \/ Return(c)

Next == \/ \E c \in Calls : Go(c) \/ \E o \in Ops : Ask(c, o)
        \/ Cleanup \/ ClearCache \/ Tick \/ Break \/ Repair

Spec == Init /\ [][Next]_vars

\* Operations settle, timers fire and the clock goes on; nobody has to call,
\* to look at /health or to repair anything.
Fairness == WF_vars(Tick) /\ \A c \in Calls : WF_vars(Go(c))

FairSpec == Spec /\ Fairness

-----------------------------------------------------------------------------
(* Properties *)

\* A failing dependency is spared: between two probes, or since the last
\* success, a breaker passes at most its threshold of failures plus the calls
\* that were under way when it opened, however many retries wake up meanwhile.
FailuresPerWindow ==
  \A b \in Referenced : struck[b] <= FailureThreshold + Cardinality(Calls) - 1

\* Health and traffic agree on what has expired: whenever the next call of an
\* operation would be refused, the health status says degraded.
RefusalIsReported ==
  \A o \in Ops : Refuses(o) => ResilienceStatus = "degraded"

\* An operation that is refused stays refused until time has passed or the
\* cache is cleared: neither a late success nor a retry nor a tidying of the
\* cache lifts the protection.
OnlyTimeLifts ==
  [][\A o \in Ops : Refuses(o) /\ ~Refuses(o)' => Tick \/ ClearCache]_vars

\* Every call ends, with its attempts used up at the latest, also if a
\* breaker refuses every retry or is replaced in the cache meanwhile.
CallsEnd == \A c \in Calls : call[c].at # "idle" ~> call[c].at = "idle"

\* Nothing but a failure of the operation prolongs the protection: a retry that
\* is refused uses up an attempt of its call, but neither it nor the refusal of
\* a new call makes the breaker wait longer for its probe.
OnlyFailuresProlong ==
  [][\A b \in Referenced \cap Referenced' :
       heap'[b].age < heap[b].age =>
         \E c \in Calls : call[c].breaker = b /\ FailAttempt(c)]_vars
=============================================================================
