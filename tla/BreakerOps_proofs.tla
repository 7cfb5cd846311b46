------------------------- MODULE BreakerOps_proofs -------------------------
(***************************************************************************)
(* Lemmas about the methods of CircuitBreaker as operators on a breaker,   *)
(* for every threshold and recovery timeout.  The proofs about one breaker *)
(* and those about breakers in a cache rest on them.                       *)
(***************************************************************************)
EXTENDS BreakerOps, TLAPS

\* The fields of a breaker.
LEMMA Fields ==
  ASSUME NEW b \in Breaker
  PROVE  /\ b = [state |-> b.state, failures |-> b.failures, age |-> b.age]
         /\ b.state \in States
         /\ b.failures \in 0..FailureThreshold
         /\ b.age \in 0..RecoveryTimeout
BY DEF Breaker

\* A breaker that was just made is closed.
LEMMA NewBreakerTyped == NewBreaker \in Breaker
BY BreakerAssumption DEF NewBreaker, Breaker, States

\* Every method leaves a breaker a breaker: isOpen, onSuccess, onFailure and
\* the passing of time keep its fields in their ranges.
LEMMA MethodsTyped ==
  ASSUME NEW b \in Breaker
  PROVE  /\ Consulted(b) \in Breaker
         /\ Succeeded(b) \in Breaker
         /\ Failed(b) \in Breaker
         /\ Aged(b) \in Breaker
<1>2. Consulted(b) \in Breaker
  BY Fields DEF Breaker, States, Consulted
<1>3. Succeeded(b) \in Breaker
  <2>1. 0 \in 0..FailureThreshold
    BY BreakerAssumption
  <2> QED
    BY Fields, <2>1 DEF Breaker, States, Succeeded
<1>4. Failed(b) \in Breaker
  <2>1. Capped(b.failures + 1, FailureThreshold) \in 0..FailureThreshold
    BY Fields, BreakerAssumption DEF Capped
  <2>2. 0 \in 0..RecoveryTimeout
    BY BreakerAssumption
  <2> QED
    BY Fields, <2>1, <2>2 DEF Breaker, States, Failed
<1>5. Aged(b) \in Breaker
  <2>1. Capped(b.age + 1, RecoveryTimeout) \in 0..RecoveryTimeout
    BY Fields, BreakerAssumption DEF Capped
  <2> QED
    BY Fields, <2>1 DEF Breaker, Aged
<1> QED
  BY <1>2, <1>3, <1>4, <1>5

\* isOpen touches the state only, and only when it lets a probe through.
LEMMA IsOpenIs ==
  ASSUME NEW b \in Breaker
  PROVE  /\ Consulted(b).failures = b.failures /\ Consulted(b).age = b.age
         /\ b.state # "OPEN" => Consulted(b) = b
         /\ b.state = "OPEN" /\ ~IsOpen(b) => Consulted(b).state = "HALF_OPEN"
<1>1. Consulted(b).failures = b.failures /\ Consulted(b).age = b.age
  BY Fields DEF Consulted
<1>2. b.state # "OPEN" => Consulted(b) = b
  BY Fields DEF Consulted
<1>3. b.state = "OPEN" /\ ~IsOpen(b) => Consulted(b).state = "HALF_OPEN"
  BY Fields DEF Consulted
<1> QED
  BY <1>1, <1>2, <1>3

\* onSuccess clears the count, and an open breaker stays open for as long as
\* it would have.
LEMMA OnSuccessIs ==
  ASSUME NEW b \in Breaker
  PROVE  /\ Succeeded(b).failures = 0 /\ Succeeded(b).age = b.age
         /\ IsOpen(b) => IsOpen(Succeeded(b))
BY Fields DEF Succeeded, IsOpen

\* onFailure starts the wait anew; the breaker is open afterwards unless it
\* was not before and the count is still below the threshold.
LEMMA OnFailureIs ==
  ASSUME NEW b \in Breaker
  PROVE  /\ Failed(b).age = 0
         /\ b.state = "OPEN" => IsOpen(Failed(b))
         /\ Failed(b).state # "OPEN" =>
              /\ b.state # "OPEN"
              /\ Failed(b).failures = b.failures + 1
              /\ b.failures + 1 < FailureThreshold
BY Fields, BreakerAssumption DEF Failed, Capped, IsOpen

\* Time changes the time only.
LEMMA AgedIs ==
  ASSUME NEW b \in Breaker
  PROVE  /\ Aged(b).state = b.state /\ Aged(b).failures = b.failures
         /\ b.age <= Aged(b).age
<1>1. b.age <= Capped(b.age + 1, RecoveryTimeout)
  BY Fields, BreakerAssumption DEF Capped
<1> QED
  BY <1>1, Fields DEF Aged
=============================================================================
