------------------------------ MODULE TTLStore ------------------------------
(***************************************************************************)
(* What a cache with expiry promises: an answer is Missing or the value    *)
(* that was written last under the key, unless that is deleted or has      *)
(* expired.  It may forget anything at any time.                           *)
(***************************************************************************)
EXTENDS Integers

CONSTANTS Keys, Values, TTLs, Missing

VARIABLES
  now,       \* the clock
  written,   \* written[k]: the last write of k that still counts
  answer     \* what the last look-up returned

storeVars == <<now, written, answer>>

\* Nothing written, or nothing that counts any more.
Nothing == [value |-> Missing, expiry |-> -1]

Init == /\ now = 0
        /\ written = [k \in Keys |-> Nothing]
        /\ answer = Missing

\* A write counts for at most its time to live.
Write(k) ==
  /\ \E v \in Values, ttl \in TTLs, late \in 0..now :
       written' = [written EXCEPT ![k] = [value |-> v, expiry |-> now - late + ttl]]
  /\ UNCHANGED <<now, answer>>

LookUp(k) ==
  /\ answer' \in {Missing} \cup (IF now <= written[k].expiry THEN {written[k].value} ELSE {})
  /\ UNCHANGED <<now, written>>

Erase ==
  /\ \E gone \in SUBSET Keys :
       written' = [k \in Keys |-> IF k \in gone THEN Nothing ELSE written[k]]
  /\ UNCHANGED <<now, answer>>

Pass == now' = now + 1 /\ UNCHANGED <<written, answer>>

Next == (\E k \in Keys : Write(k) \/ LookUp(k)) \/ Erase \/ Pass

Spec == Init /\ [][Next]_storeVars
=============================================================================
