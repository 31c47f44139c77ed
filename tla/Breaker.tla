-------------------------------- MODULE Breaker --------------------------------
(***************************************************************************)
(* The circuit breaker as its header draws it: one provider, one state      *)
(* machine, one request at a time.                                          *)
(*                                                                         *)
(*   CLOSED --FailureThreshold consecutive failures--> OPEN                *)
(*   OPEN   --reset timeout-->                         HALF-OPEN           *)
(*   HALF-OPEN --success--> CLOSED,   HALF-OPEN --failure--> OPEN          *)
(*                                                                         *)
(* CircuitBreaker implements this when a single caller uses it, and does   *)
(* not when two callers overlap.                                           *)
(***************************************************************************)
EXTENDS Naturals

CONSTANT FailureThreshold

VARIABLES state,      \* "closed", "open" or "half-open"
          failures    \* consecutive failures while closed

vars == <<state, failures>>

Init == state = "closed" /\ failures = 0

\* A delivery failed while the circuit was closed.
CountFailure ==
  /\ state = "closed"
  /\ IF failures + 1 >= FailureThreshold
     THEN state' = "open" /\ failures' = 0
     ELSE UNCHANGED state /\ failures' = failures + 1

\* The probe failed.
Reopen ==
  /\ state = "half-open"
  /\ state' = "open"
  /\ UNCHANGED failures

\* A delivery succeeded: the circuit closes, the count starts again.
Succeed ==
  /\ state \in {"closed", "half-open"}
  /\ state' = "closed"
  /\ failures' = 0

\* The reset timeout of an open circuit has passed.
HalfOpen ==
  /\ state = "open"
  /\ state' = "half-open"
  /\ UNCHANGED failures

\* The Redis key expired: a provider nobody has used for long starts afresh.
Forget == state' = "closed" /\ failures' = 0

Next == CountFailure \/ Reopen \/ Succeed \/ HalfOpen \/ Forget

Spec == Init /\ [][Next]_vars
=============================================================================
