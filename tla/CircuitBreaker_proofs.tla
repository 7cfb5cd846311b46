----------------------- MODULE CircuitBreaker_proofs -----------------------
(***************************************************************************)
(* Proofs about CircuitBreaker for every threshold, recovery timeout and   *)
(* set of callers.                                                         *)
(***************************************************************************)
EXTENDS CircuitBreaker, BreakerOps_proofs, TLAPS

\* The fields of a breaker keep to their types: state, failureCount and the
\* time since lastFailureTime, for any number of concurrent execute() calls.
THEOREM Typing == Spec => []TypeOK
<1>1. Init => TypeOK
  BY NewBreakerTyped DEF Init, TypeOK
<1>2. TypeOK /\ [Next]_vars => TypeOK'
  <2> SUFFICES ASSUME TypeOK, [Next]_vars PROVE TypeOK'
    OBVIOUS
  <2> USE DEF TypeOK
  <2>1. ASSUME NEW c \in Callers, Admit(c) PROVE TypeOK'
    BY <2>1, MethodsTyped DEF Admit, Running
  <2>2. ASSUME NEW c \in Callers, Refuse(c) PROVE TypeOK'
    BY <2>2, MethodsTyped DEF Refuse
  <2>3. ASSUME NEW c \in Callers, Succeed(c) PROVE TypeOK'
    BY <2>3, MethodsTyped DEF Succeed
  <2>4. ASSUME NEW c \in Callers, FailCall(c) PROVE TypeOK'
    BY <2>4, MethodsTyped DEF FailCall
  <2>5. ASSUME NEW c \in Callers, Return(c) PROVE TypeOK'
    BY <2>5 DEF Return
  <2>6. CASE Tick
    BY <2>6, MethodsTyped DEF Tick
  <2>7. CASE Break
    BY <2>7 DEF Break, Running
  <2>8. CASE Repair
    BY <2>8 DEF Repair
  <2>9. CASE UNCHANGED vars
    BY <2>9 DEF vars
  <2> QED
    BY <2>1, <2>2, <2>3, <2>4, <2>5, <2>6, <2>7, <2>8, <2>9 DEF Next, Ask, Settle
<1> QED
  BY <1>1, <1>2, PTL DEF Spec

-----------------------------------------------------------------------------

\* The two invariants hold each other up: that the threshold is reached on
\* the way out of CLOSED needs the count, and only ArmedUntilSpared says what
\* the count is while the breaker is away.
CountInv == ClosedBelowThreshold /\ ArmedUntilSpared

\* A step of any caller, of the clock or of the dependency keeps failureCount
\* and state in accord.
LEMMA CountInvStep == TypeOK /\ CountInv /\ [Next]_vars => CountInv'
<1> SUFFICES ASSUME TypeOK, CountInv, [Next]_vars PROVE CountInv'
  OBVIOUS
<1>0. breaker \in Breaker /\ spared \in BOOLEAN
  BY DEF TypeOK
<1> USE BreakerAssumption, <1>0 DEF CountInv, ClosedBelowThreshold, ArmedUntilSpared, Reached
<1>1. ASSUME NEW c \in Callers, Admit(c) PROVE CountInv'
  BY <1>1 DEF Admit, Consulted, IsOpen, Breaker, States
<1>2. ASSUME NEW c \in Callers, Refuse(c) PROVE CountInv'
  BY <1>2 DEF Refuse, Consulted, IsOpen, Breaker, States
<1>3. ASSUME NEW c \in Callers, Succeed(c) PROVE CountInv'
  <2>1. breaker'.failures = 0 /\ 0 # FailureThreshold
    BY <1>3 DEF Succeed, Succeeded, Breaker
  <2>2. breaker'.state # "CLOSED" => spared'
    BY <1>3 DEF Succeed, Succeeded, Breaker, States
  <2> QED
    BY <2>1, <2>2
<1>4. ASSUME NEW c \in Callers, FailCall(c) PROVE CountInv'
  BY <1>4 DEF FailCall, Failed, Capped, Breaker, States
<1>5. ASSUME NEW c \in Callers, Return(c) PROVE CountInv'
  BY <1>5 DEF Return
<1>6. CASE Tick
  BY <1>6 DEF Tick, Aged, Breaker
<1>7. CASE Break
  BY <1>7 DEF Break
<1>8. CASE Repair
  BY <1>8 DEF Repair
<1>9. CASE UNCHANGED vars
  BY <1>9 DEF vars
<1> QED
  BY <1>1, <1>2, <1>3, <1>4, <1>5, <1>6, <1>7, <1>8, <1>9 DEF Next, Ask, Settle

\* failureCount and state agree in every reachable state.
THEOREM Counting == Spec => []CountInv
<1>1. Init => CountInv
  BY BreakerAssumption
  DEF Init, NewBreaker, CountInv, ClosedBelowThreshold, ArmedUntilSpared, Reached
<1> QED
  BY <1>1, CountInvStep, Typing, PTL DEF Spec

\* A closed breaker has counted fewer failures than failureThreshold.
THEOREM ClosedBelow == Spec => []ClosedBelowThreshold
<1>1. CountInv => ClosedBelowThreshold
  BY DEF CountInv
<1> QED
  BY <1>1, Counting, PTL

\* Without a success since the breaker left CLOSED the count stands at
\* failureThreshold.
THEOREM Armed == Spec => []ArmedUntilSpared
<1>1. CountInv => ArmedUntilSpared
  BY DEF CountInv
<1> QED
  BY <1>1, Counting, PTL

\* The first failed probe sends a half-open breaker back to OPEN, however
\* many probes run, as long as no call succeeded since it left CLOSED.
THEOREM ProbeReopens == Spec => FailedProbeReopens
<1>1. TypeOK /\ CountInv /\ [Next]_vars =>
        [\A c \in Callers :
           /\ breaker.state = "HALF_OPEN" /\ ~spared
           /\ FailCall(c)
           => breaker'.state = "OPEN"]_vars
  <2> SUFFICES ASSUME TypeOK, CountInv, NEW c \in Callers,
                      breaker.state = "HALF_OPEN", ~spared, FailCall(c)
               PROVE  breaker'.state = "OPEN"
    OBVIOUS
  <2>1. breaker.failures = FailureThreshold
    BY DEF CountInv, ArmedUntilSpared, Reached
  <2> QED
    BY <2>1, BreakerAssumption DEF FailCall, Failed
<1> QED
  BY <1>1, Typing, Counting, PTL DEF Spec, FailedProbeReopens

\* An open breaker becomes closed only through HALF_OPEN and a success.
THEOREM ClosesByProbe == Spec => ClosesThroughHalfOpen
<1>1. TypeOK /\ [Next]_vars =>
        [breaker.state # "CLOSED" /\ breaker'.state = "CLOSED"
           => breaker.state = "HALF_OPEN" /\ \E c \in Callers : Succeed(c)]_vars
  <2> SUFFICES ASSUME TypeOK, Next, breaker.state # "CLOSED", breaker'.state = "CLOSED"
               PROVE  breaker.state = "HALF_OPEN" /\ \E c \in Callers : Succeed(c)
    OBVIOUS
  <2>0. breaker \in Breaker
    BY DEF TypeOK
  <2>1. ASSUME NEW c \in Callers, Admit(c) \/ Refuse(c) PROVE FALSE
    BY <2>0, <2>1 DEF Admit, Refuse, Consulted, Breaker
  <2>2. ASSUME NEW c \in Callers, Succeed(c) PROVE breaker.state = "HALF_OPEN"
    BY <2>0, <2>2 DEF Succeed, Succeeded, Breaker
  <2>3. ASSUME NEW c \in Callers, FailCall(c) PROVE FALSE
    BY <2>0, <2>3 DEF FailCall, Failed, Breaker
  <2>4. ASSUME NEW c \in Callers, Return(c) PROVE FALSE
    BY <2>4 DEF Return
  <2>5. CASE Tick
    BY <2>0, <2>5 DEF Tick, Aged, Breaker
  <2>6. CASE Break \/ Repair
    BY <2>6 DEF Break, Repair
  <2> QED
    BY <2>1, <2>2, <2>3, <2>4, <2>5, <2>6 DEF Next, Ask, Settle
<1> QED
  BY <1>1, Typing, PTL DEF Spec, ClosesThroughHalfOpen
=============================================================================
