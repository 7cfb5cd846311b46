----------------------------- MODULE BreakerOps -----------------------------
(***************************************************************************)
(* The CircuitBreaker object as a value and its methods as operators on    *)
(* that value, for the modules in which breakers live: CircuitBreaker (one *)
(* object with concurrent callers) and those that keep breakers in a cache.*)
(*                                                                         *)
(* A breaker is [state, failures, age].  The code compares failureCount    *)
(* with failureThreshold only and resets it to 0 only, so failures stops   *)
(* at the threshold; it compares the time since lastFailureTime with       *)
(* recoveryTimeout only, so age, that difference, stops there.             *)
(***************************************************************************)
EXTENDS Integers

CONSTANTS FailureThreshold,   \* 5 unless the caller says otherwise
          RecoveryTimeout     \* 60000 ms; here in ticks of the clock

ASSUME BreakerAssumption == /\ FailureThreshold \in Nat \ {0}
                            /\ RecoveryTimeout \in Nat \ {0}

States  == {"CLOSED", "OPEN", "HALF_OPEN"}
Breaker == [state : States, failures : 0..FailureThreshold, age : 0..RecoveryTimeout]

\* lastFailureTime starts at 0, long ago.
NewBreaker == [state |-> "CLOSED", failures |-> 0, age |-> RecoveryTimeout]

Capped(n, limit) == IF n < limit THEN n ELSE limit

\* Mutant: an open breaker never lets a probe through.
IsOpenForever(b) == b.state = "OPEN"

\* isOpen: what it returns, and what it leaves behind.
IsOpen(b) == b.state = "OPEN" /\ b.age < RecoveryTimeout

\* Mutant: the count starts again with the probes.
ConsultedResettingCount(b) ==
  IF b.state = "OPEN" /\ ~IsOpen(b)
  THEN [b EXCEPT !.state = "HALF_OPEN", !.failures = 0]
  ELSE b

Consulted(b) == [b EXCEPT !.state = IF @ = "OPEN" /\ ~IsOpen(b) THEN "HALF_OPEN" ELSE @]

\* Mutant: a success takes one failure off instead of all.
SucceededDecrementing(b) ==
  [b EXCEPT !.failures = @ - 1,
            !.state    = IF @ = "HALF_OPEN" THEN "CLOSED" ELSE @]

\* Mutant: any success closes the breaker.
SucceededClosing(b) == [b EXCEPT !.failures = 0, !.state = "CLOSED"]

\* Mutant: a success does not close the breaker.
SucceededWithoutClosing(b) == [b EXCEPT !.failures = 0]

Succeeded(b) ==
  [b EXCEPT !.failures = 0,
            !.state    = IF @ = "HALF_OPEN" THEN "CLOSED" ELSE @]

\* Mutant: the breaker opens one failure too late.
FailedOffByOne(b) ==
  [state    |-> IF b.failures >= FailureThreshold THEN "OPEN" ELSE b.state,
   failures |-> Capped(b.failures + 1, FailureThreshold),
   age      |-> 0]

\* Mutant: only a closed breaker can open.
FailedWhenClosed(b) ==
  [state    |-> IF b.state = "CLOSED" /\ b.failures + 1 >= FailureThreshold
                THEN "OPEN" ELSE b.state,
   failures |-> Capped(b.failures + 1, FailureThreshold),
   age      |-> 0]

Failed(b) ==
  [state    |-> IF b.failures + 1 >= FailureThreshold THEN "OPEN" ELSE b.state,
   failures |-> Capped(b.failures + 1, FailureThreshold),
   age      |-> 0]

\* One tick of the clock.
Aged(b) == [b EXCEPT !.age = Capped(@ + 1, RecoveryTimeout)]
=============================================================================
