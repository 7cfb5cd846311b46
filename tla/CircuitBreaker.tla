--------------------------- MODULE CircuitBreaker ---------------------------
(***************************************************************************)
(* One CircuitBreaker object with concurrent callers of execute().         *)
(*                                                                         *)
(* execute() consults isOpen() and starts the operation without an await   *)
(* in between, then awaits the operation; while it does, other callers     *)
(* start and finish.  A call that was admitted before the breaker opened   *)
(* therefore reports its success or failure to a breaker in any state.     *)
(***************************************************************************)
EXTENDS BreakerOps, FiniteSets

CONSTANT Callers

VARIABLES
  breaker,   \* state, failureCount and time since lastFailureTime
  call,      \* call[c]: c's execute(); "good" or "bad" is how a running one will end
  up,        \* the dependency behind the operation works
  spared     \* some call succeeded since the breaker last left CLOSED (history)

vars == <<breaker, call, up, spared>>

Running == {"good", "bad"}

TypeOK ==
  /\ breaker \in Breaker
  /\ call \in [Callers -> Running \cup {"idle", "refused"}]
  /\ up \in BOOLEAN
  /\ spared \in BOOLEAN

Init ==
  /\ breaker = NewBreaker
  /\ call = [c \in Callers |-> "idle"]
  /\ up = TRUE
  /\ spared = FALSE

\* execute() up to its await.  The operation will end well if the dependency
\* works now and does not break before the end.
Admit(c) ==
  /\ call[c] = "idle"
  /\ ~IsOpen(breaker)
  /\ breaker' = Consulted(breaker)
  /\ call' = [call EXCEPT ![c] = IF up THEN "good" ELSE "bad"]
  /\ UNCHANGED <<up, spared>>

\* "Circuit breaker is open" is thrown at once.
Refuse(c) ==
  /\ call[c] = "idle"
  /\ IsOpen(breaker)
  /\ breaker' = Consulted(breaker)
  /\ call' = [call EXCEPT ![c] = "refused"]
  /\ UNCHANGED <<up, spared>>

Succeed(c) ==
  /\ call[c] = "good"
  /\ breaker' = Succeeded(breaker)
  /\ call' = [call EXCEPT ![c] = "idle"]
  /\ spared' = (breaker.state # "CLOSED")
  /\ UNCHANGED up

FailCall(c) ==
  /\ call[c] = "bad"
  /\ breaker' = Failed(breaker)
  /\ call' = [call EXCEPT ![c] = "idle"]
  /\ spared' = (spared /\ breaker.state # "CLOSED")
  /\ UNCHANGED up

\* A refused caller goes on; it may try again.
Return(c) ==
  /\ call[c] = "refused"
  /\ call' = [call EXCEPT ![c] = "idle"]
  /\ UNCHANGED <<breaker, up, spared>>

Tick ==
  /\ breaker.age < RecoveryTimeout
  /\ breaker' = Aged(breaker)
  /\ UNCHANGED <<call, up, spared>>

\* The dependency breaks, and with it any of the operations under way.
Break ==
  /\ up
  /\ up' = FALSE
  /\ \E hit \in SUBSET {c \in Callers : call[c] = "good"} :
       call' = [c \in Callers |-> IF c \in hit THEN "bad" ELSE call[c]]
  /\ UNCHANGED <<breaker, spared>>

Repair ==
  /\ ~up
  /\ up' = TRUE
  /\ UNCHANGED <<breaker, call, spared>>

Ask(c)    == Admit(c) \/ Refuse(c)
Settle(c) == Succeed(c) \/ FailCall(c) \/ Return(c)

Next == \/ \E c \in Callers : Ask(c) \/ Settle(c)
        \/ Tick \/ Break \/ Repair

Spec == Init /\ [][Next]_vars

\* Promises settle and the clock goes on.  Nobody has to call, and the
\* dependency owes us nothing.
Fairness == /\ WF_vars(Tick)
            /\ \A c \in Callers : WF_vars(Settle(c))

FairSpec == Spec /\ Fairness

-----------------------------------------------------------------------------
(* Safety *)

Reached == breaker.failures = FailureThreshold

\* A closed breaker has counted fewer failures than the threshold, whatever
\* calls from before its last opening reported in the meantime.
ClosedBelowThreshold == breaker.state = "CLOSED" => ~Reached

\* As long as no call succeeded since the breaker left CLOSED, the count that
\* opened it stands.
ArmedUntilSpared == breaker.state # "CLOSED" /\ ~spared => Reached

\* Then one failed probe is enough: HALF_OPEN goes back to OPEN at the first
\* failure.  (A call from before that succeeds while the breaker is OPEN
\* resets the count; after it HALF_OPEN takes a full threshold of failures.)
FailedProbeReopens ==
  [][\A c \in Callers :
       /\ breaker.state = "HALF_OPEN" /\ ~spared
       /\ FailCall(c)
       => breaker'.state = "OPEN"]_vars

\* A breaker closes only by a success, reported to a breaker that had let
\* the recovery timeout pass: an OPEN breaker never closes at once, also not
\* by the success of a call that it let through before.
ClosesThroughHalfOpen ==
  [][breaker.state # "CLOSED" /\ breaker'.state = "CLOSED"
       => breaker.state = "HALF_OPEN" /\ \E c \in Callers : Succeed(c)]_vars

(* Liveness *)

Traffic == []<><<\E c \in Callers : Ask(c)>>_vars

\* Once the dependency works for good and calls keep coming, the breaker
\* closes for good, late failures notwithstanding.
RecoversForGood == Traffic /\ <>[]up => <>[](breaker.state = "CLOSED")

\* While it stays broken and calls keep coming, the breaker opens again and
\* again: HALF_OPEN is no way to keep calling a broken dependency.
KeepsTripping == Traffic /\ <>[](~up) => []<>(breaker.state = "OPEN")

\* No caller population is refused forever: calls keep reaching the operation.
KeepsProbing == Traffic => []<><<\E c \in Callers : Admit(c)>>_vars
=============================================================================
