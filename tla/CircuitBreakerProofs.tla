-------------------------- MODULE CircuitBreakerProofs --------------------------
(***************************************************************************)
(* The circuit breaker keeps its types and never trips without cause, for  *)
(* any number of callers, any threshold and timeouts, and any faults.      *)
(***************************************************************************)
EXTENDS CircuitBreaker, TLAPS

\* Saturation stays below the top and never overtakes a larger count.
LEMMA SaturateBounds ==
  ASSUME NEW n \in Nat, NEW top \in Nat
  PROVE  /\ Saturate(n, top) \in 0 .. top
         /\ Saturate(n, top) <= n
         /\ n >= top => Saturate(n, top) = top
         /\ n <= top => Saturate(n, top) = n
BY DEF Saturate

\* The initial hash is absent, every caller is idle.
LEMMA InitTripInv == Init => TripInv
BY CircuitAssumption DEF Init, TripInv, TypeOK, NoKey, Labels

\* HSET of the failure count leaves the other fields alone, the TTL of a new key apart.
LEMMA SetFailuresEffect ==
  ASSUME TypeOK, NEW n \in Nat, SetFailures(n)
  PROVE  /\ hash' \in [state    : {"none", "closed", "open", "half-open"},
                       failures : 0 .. FailureThreshold,
                       age      : 0 .. ResetTimeout,
                       ttl      : Nat]
         /\ hash'.state = hash.state
         /\ hash'.failures <= n
<1> DEFINE count == Saturate(n, FailureThreshold)
           life  == IF hash = NoKey THEN Never ELSE hash.ttl
<1>1. count \in 0 .. FailureThreshold /\ count <= n
  BY SaturateBounds, CircuitAssumption
<1>2. life \in Nat
  BY CircuitAssumption DEF TypeOK, Never
<1>3. hash' = [hash EXCEPT !.failures = count, !.ttl = life]
  BY DEF SetFailures
<1> HIDE DEF count, life
<1> QED
  BY <1>1, <1>2, <1>3 DEF TypeOK

\* Every step preserves the invariant.
LEMMA NextTripInv == TripInv /\ [Next]_vars => TripInv'
<1> SUFFICES ASSUME TripInv, [Next]_vars PROVE TripInv'
  OBVIOUS
<1> USE CircuitAssumption
<1>t. /\ FailureThreshold \in Nat /\ FailureThreshold >= 1
      /\ ResetTimeout \in Nat /\ OpenTTL \in Nat /\ ClosedTTL \in Nat
  OBVIOUS
<1>c. ASSUME NEW c \in Callers, Caller(c) PROVE TripInv'
  <2> USE <1>t
  <2>1. CASE Check(c)
    BY <2>1 DEF Check, Goto, TripInv, TypeOK, Labels
  <2>2. CASE ReadAllowed(c)
    BY <2>2 DEF ReadAllowed, Goto, TripInv, TypeOK, Labels
  <2>3. CASE TakeProbe(c)
    BY <2>3 DEF TakeProbe, Goto, TripInv, TypeOK, Labels
  <2>4. CASE Promote(c)
    BY <2>4 DEF Promote, SetState, TTL, Saturate, Goto, TripInv, TypeOK, Labels
  <2>5. CASE Skip(c)
    BY <2>5 DEF Skip, Goto, TripInv, TypeOK, Labels
  <2>6. CASE Deliver(c)
    BY <2>6 DEF Deliver, Goto, TripInv, TypeOK, Labels
  <2>7. CASE ReadSuccess(c)
    BY <2>7 DEF ReadSuccess, Goto, TripInv, TypeOK, Labels
  <2>8. CASE Close(c)
    BY <2>8 DEF Close, SetState, TTL, Saturate, Goto, TripInv, TypeOK, Labels
  <2>9. CASE Reset(c)
    <3>1. SetFailures(0) /\ TypeOK
      BY <2>9 DEF Reset, TripInv
    <3> QED
      BY <2>9, <3>1, SetFailuresEffect DEF Reset, Goto, TripInv, TypeOK, Labels
  <2>10. CASE ReadFailure(c)
    BY <2>10 DEF ReadFailure, Goto, TripInv, TypeOK, Labels
  <2>11. CASE Reopen(c)
    BY <2>11 DEF Reopen, SetState, TTL, Saturate, Goto, TripInv, TypeOK, Labels
  <2>12. CASE Open(c)
    BY <2>12 DEF Open, SetState, TTL, Saturate, Goto, TripInv, TypeOK, Labels
  <2>13. CASE Count(c)
    <3>1. SetFailures(snap[c] + 1) /\ TypeOK /\ snap[c] + 1 \in Nat
      BY <2>13 DEF Count, TripInv, TypeOK
    <3>2. hash'.failures <= snap[c] + 1 /\ hash'.state = hash.state
      BY <3>1, SetFailuresEffect
    <3>3. snap[c] + 1 <= counted + 1 /\ counted' \in 0 .. FailureThreshold
          /\ counted' >= counted /\ (counted' = counted + 1 \/ counted' = FailureThreshold)
      BY <2>13 DEF Count, Saturate, TripInv, TypeOK
    <3>4. TypeOK'
      BY <2>13, <3>1, <3>3, SetFailuresEffect DEF Count, Goto, TypeOK, Labels
    <3>5. hash'.failures <= counted'
      BY <3>2, <3>3, <3>4 DEF TypeOK, TripInv
    <3> QED
      BY <2>13, <3>2, <3>3, <3>4, <3>5 DEF Count, Goto, TripInv, TypeOK, Labels
  <2>14. CASE Expire(c)
    BY <2>14 DEF Expire, NoKey, Goto, TripInv, TypeOK, Labels
  <2> QED
    BY <1>c, <2>1, <2>2, <2>3, <2>4, <2>5, <2>6, <2>7, <2>8, <2>9, <2>10, <2>11,
       <2>12, <2>13, <2>14
    DEF Caller, IsAllowed, RecordSuccess, RecordFailure
<1>r. ASSUME NEW c \in Callers, RedisFails(c) PROVE TripInv'
  BY <1>r DEF RedisFails, Goto, TripInv, TypeOK, Labels
<1>x. ASSUME NEW c \in Callers, Crash(c) PROVE TripInv'
  BY <1>x DEF Crash, TripInv, TypeOK, Labels
<1>k. CASE Tick
  <2> DEFINE aged == IF hash = NoKey THEN 0 ELSE Saturate(hash.age + 1, ResetTimeout)
             left == IF hash.ttl \in {0, Never} THEN hash.ttl ELSE hash.ttl - 1
  <2>1. aged \in 0 .. ResetTimeout
    BY <1>t DEF Saturate, TripInv, TypeOK
  <2>2. left \in Nat
    BY DEF TripInv, TypeOK
  <2>3. hash' = IF hash.ttl = 1 THEN NoKey ELSE [hash EXCEPT !.age = aged, !.ttl = left]
    BY <1>k DEF Tick
  <2> HIDE DEF aged, left
  <2>h. hash' \in [state    : {"none", "closed", "open", "half-open"},
                   failures : 0 .. FailureThreshold,
                   age      : 0 .. ResetTimeout,
                   ttl      : Nat]
    <3>1. CASE hash.ttl = 1
      BY <3>1, <1>t, <2>3 DEF NoKey
    <3>2. CASE hash.ttl # 1
      BY <3>2, <2>1, <2>2, <2>3 DEF TripInv, TypeOK
    <3> QED
      BY <3>1, <3>2
  <2>p. probe' \in 0 .. ResetTimeout
    BY <1>k, <1>t DEF Tick, TripInv, TypeOK
  <2>4. TypeOK'
    BY <1>k, <2>h, <2>p DEF Tick, TripInv, TypeOK
  <2>5. CASE hash.ttl = 1
    <3>1. hash'.failures = 0 /\ hash'.state = "none"
      BY <2>3, <2>5 DEF NoKey
    <3> QED
      BY <1>k, <1>t, <2>4, <3>1 DEF Tick, TripInv, TypeOK
  <2>6. CASE hash.ttl # 1
    <3>1. hash' = [hash EXCEPT !.age = aged, !.ttl = left]
      BY <2>3, <2>6
    <3>2. hash'.failures = hash.failures /\ hash'.state = hash.state
      BY <3>1 DEF TripInv, TypeOK
    <3> QED
      BY <1>k, <1>t, <2>4, <3>2 DEF Tick, TripInv, TypeOK
  <2> QED
    BY <2>5, <2>6
<1>u. CASE UNCHANGED vars
  BY <1>u DEF vars, TripInv, TypeOK
<1> QED
  BY <1>c, <1>r, <1>x, <1>k, <1>u DEF Next

\* The inductive invariant holds of every behaviour of the breaker.
THEOREM TripInvariant == Spec => []TripInv
BY InitTripInv, NextTripInv, PTL DEF Spec

\* TypeOK holds of every behaviour: whatever the callers and the clock do, the
\* hash, the probe key and the callers keep the types of circuit-breaker.ts.
THEOREM TypeCorrect == Spec => []TypeOK
<1>1. TripInv => TypeOK
  BY DEF TripInv
<1> QED
  BY <1>1, TripInvariant, PTL

\* NoSpuriousTrip holds of every behaviour: no request is refused, and no circuit
\* is tripped, before FailureThreshold failure reports have been written.
THEOREM NeverTripsSpuriously == Spec => []NoSpuriousTrip
<1>1. TripInv => NoSpuriousTrip
  BY DEF TripInv, NoSpuriousTrip
<1> QED
  BY <1>1, TripInvariant, PTL

-----------------------------------------------------------------------------
(* A provider that one dispatch uses at a time.                            *)

Alone == \A c, d \in Callers : c = d

\* Nobody writes, and no time passes, between what the one caller reads and what it
\* writes for that reason.
SoloInv ==
  \A c \in Callers :
    /\ pc[c] = "promote" => hash.state = "open"
    /\ pc[c] \in {"close", "reopen"} => hash.state = "half-open"
    /\ pc[c] \in {"count", "open"} => hash.state # "half-open" /\ snap[c] = hash.failures
    /\ pc[c] = "count" => snap[c] + 1 < FailureThreshold
    /\ pc[c] = "open" => snap[c] + 1 >= FailureThreshold

LEMMA NextSolo ==
  ASSUME Alone, "stall" \notin Faults, TypeOK, SoloInv, [Next]_vars
  PROVE  SoloInv'
<1> SUFFICES ASSUME NEW c \in Callers
             PROVE  /\ pc'[c] = "promote" => hash'.state = "open"
                    /\ pc'[c] \in {"close", "reopen"} => hash'.state = "half-open"
                    /\ pc'[c] \in {"count", "open"} =>
                         hash'.state # "half-open" /\ snap'[c] = hash'.failures
                    /\ pc'[c] = "count" => snap'[c] + 1 < FailureThreshold
                    /\ pc'[c] = "open" => snap'[c] + 1 >= FailureThreshold
  BY DEF SoloInv
<1>c. \A d \in Callers : d = c
  BY DEF Alone
<1>1. CASE ReadAllowed(c) \/ ReadSuccess(c) \/ ReadFailure(c)
  <2>1. hash' = hash /\ snap[c] \in 0 .. FailureThreshold /\ hash.failures \in 0 .. FailureThreshold
    BY <1>1 DEF ReadAllowed, ReadSuccess, ReadFailure, TypeOK
  <2>2. CASE ReadAllowed(c)
    BY <2>1, <2>2 DEF ReadAllowed, Goto, TypeOK
  <2>3. CASE ReadSuccess(c)
    BY <2>1, <2>3 DEF ReadSuccess, Goto, TypeOK
  <2>4. CASE ReadFailure(c)
    <3>1. FailureThreshold \in Nat /\ snap'[c] = hash.failures
      BY <2>4, CircuitAssumption DEF ReadFailure, TypeOK
    <3> QED
      BY <2>1, <2>4, <3>1 DEF ReadFailure, Goto, TypeOK
  <2> QED
    BY <1>1, <2>2, <2>3, <2>4
<1>2. CASE \/ Check(c) \/ TakeProbe(c) \/ Promote(c) \/ Skip(c) \/ Deliver(c) \/ Close(c)
           \/ Reset(c) \/ Reopen(c) \/ Open(c) \/ Count(c) \/ Expire(c) \/ RedisFails(c)
           \/ Crash(c)
  <2>1. pc'[c] \in Labels \ {"promote", "close", "reopen", "count", "open"}
    BY <1>2 DEF Check, TakeProbe, Promote, Skip, Deliver, Close, Reset, Reopen, Open, Count,
                Expire, RedisFails, Crash, Goto, TypeOK, Labels
  <2> QED
    BY <2>1
<1>3. CASE Tick
  <2>1. pc[c] \in {"idle", "deliver", "probing"} /\ pc' = pc
    BY <1>3 DEF Tick
  <2> QED
    BY <2>1
<1>4. CASE UNCHANGED vars
  BY <1>4 DEF vars, SoloInv
<1> QED
  BY <1>c, <1>1, <1>2, <1>3, <1>4
     DEF Next, Caller, IsAllowed, RecordSuccess, RecordFailure

\* The state and the count that the header's machine sees.
State == IF hash.state = "none" THEN "closed" ELSE hash.state
Failures == IF hash.state \in {"none", "closed"} THEN hash.failures ELSE 0

\* A key that is gone is a closed circuit with a fresh count.
LEMMA SoloStep ==
  ASSUME Alone, "stall" \notin Faults, TypeOK, SoloInv, [Next]_vars
  PROVE  [SequentialBreaker!Next]_(SequentialBreaker!vars)
<1> USE DEF SequentialBreaker!vars
<1>t. /\ FailureThreshold \in Nat /\ FailureThreshold >= 1
      /\ hash.state \in {"none", "closed", "open", "half-open"}
      /\ hash.failures \in 0 .. FailureThreshold
  BY CircuitAssumption DEF TypeOK
<1>s. ASSUME UNCHANGED <<State, Failures>>
      PROVE  [SequentialBreaker!Next]_(SequentialBreaker!vars)
  BY <1>s DEF State, Failures
<1>h. ASSUME hash' = hash PROVE [SequentialBreaker!Next]_(SequentialBreaker!vars)
  BY <1>h
<1>f. ASSUME NEW n \in Nat, SetFailures(n)
      PROVE  /\ hash'.state = hash.state
             /\ n <= FailureThreshold => hash'.failures = n
  <2>1. hash'.state = hash.state
    BY <1>f, SetFailuresEffect
  <2>2. hash'.failures = Saturate(n, FailureThreshold)
    BY <1>f DEF SetFailures, TypeOK
  <2> QED
    BY <1>t, <2>1, <2>2, SaturateBounds
<1>w. ASSUME NEW s \in {"closed", "open", "half-open"}, NEW n, SetState(s, n)
      PROVE  hash'.state = s /\ hash'.failures = Saturate(n, FailureThreshold)
  BY <1>w DEF SetState
<1>1. ASSUME NEW c \in Callers, Caller(c)
      PROVE  [SequentialBreaker!Next]_(SequentialBreaker!vars)
  <2>1. CASE Promote(c)
    <3>1. hash.state = "open" /\ hash'.state = "half-open"
      BY <1>w, <2>1 DEF Promote, Goto, SoloInv
    <3> QED
      BY <3>1 DEF SequentialBreaker!Next, SequentialBreaker!HalfOpen
  <2>2. CASE Close(c)
    <3>1. hash.state = "half-open" /\ hash'.state = "closed" /\ hash'.failures = 0
      BY <1>t, <1>w, <2>2 DEF Close, Goto, SoloInv, Saturate
    <3> QED
      BY <3>1 DEF SequentialBreaker!Next, SequentialBreaker!Succeed
  <2>3. CASE Reset(c)
    <3>1. hash'.state = hash.state /\ hash'.failures = 0
      BY <1>t, <1>f, <2>3 DEF Reset
    <3>2. CASE hash.state \in {"none", "closed"}
      BY <3>1, <3>2 DEF SequentialBreaker!Next, SequentialBreaker!Succeed
    <3>3. CASE hash.state \notin {"none", "closed"}
      BY <1>s, <3>1, <3>3 DEF State, Failures
    <3> QED
      BY <3>2, <3>3
  <2>4. CASE Reopen(c)
    <3>1. hash.state = "half-open" /\ hash'.state = "open"
      BY <1>w, <2>4 DEF Reopen, Goto, SoloInv
    <3> QED
      BY <3>1 DEF SequentialBreaker!Next, SequentialBreaker!Reopen
  <2>5. CASE Open(c)
    <3>1. /\ hash'.state = "open" /\ hash.state # "half-open"
          /\ hash.failures + 1 >= FailureThreshold
      BY <1>w, <2>5 DEF Open, Goto, SoloInv
    <3>2. CASE hash.state = "open"
      BY <1>s, <3>1, <3>2 DEF State, Failures
    <3>3. CASE hash.state \in {"none", "closed"}
      BY <3>1, <3>3 DEF SequentialBreaker!Next, SequentialBreaker!CountFailure
    <3> QED
      BY <1>t, <3>1, <3>2, <3>3
  <2>6. CASE Count(c)
    <3>1. /\ hash.state # "half-open" /\ hash.failures + 1 < FailureThreshold
          /\ SetFailures(hash.failures + 1)
      BY <2>6 DEF Count, Goto, SoloInv
    <3>2. hash'.state = hash.state /\ hash'.failures = hash.failures + 1
      BY <1>t, <1>f, <3>1
    <3>3. CASE hash.state = "open"
      BY <1>s, <3>2, <3>3 DEF State, Failures
    <3>4. CASE hash.state \in {"none", "closed"}
      BY <1>t, <3>1, <3>2, <3>4 DEF SequentialBreaker!Next, SequentialBreaker!CountFailure
    <3> QED
      BY <1>t, <3>1, <3>3, <3>4
  <2>7. CASE Expire(c)
    <3>1. hash'.state = hash.state /\ hash'.failures = hash.failures
      BY <2>7 DEF Expire, TypeOK
    <3> QED
      BY <1>s, <3>1 DEF State, Failures
  <2>8. CASE \/ Check(c) \/ ReadAllowed(c) \/ TakeProbe(c) \/ Skip(c) \/ Deliver(c)
             \/ ReadSuccess(c) \/ ReadFailure(c)
    BY <1>h, <2>8 DEF Check, ReadAllowed, TakeProbe, Skip, Deliver, ReadSuccess, ReadFailure
  <2> QED
    BY <1>1, <2>1, <2>2, <2>3, <2>4, <2>5, <2>6, <2>7, <2>8
       DEF Caller, IsAllowed, RecordSuccess, RecordFailure
<1>2. ASSUME NEW c \in Callers, RedisFails(c) \/ Crash(c)
      PROVE  [SequentialBreaker!Next]_(SequentialBreaker!vars)
  BY <1>2, <1>h DEF RedisFails, Crash
<1>3. CASE Tick
  <2>1. CASE hash' = NoKey
    BY <2>1 DEF NoKey, SequentialBreaker!Next, SequentialBreaker!Forget
  <2>2. CASE hash' # NoKey
    <3>1. hash'.state = hash.state /\ hash'.failures = hash.failures
      BY <1>3, <2>2 DEF Tick, TypeOK
    <3> QED
      BY <1>s, <3>1 DEF State, Failures
  <2> QED
    BY <2>1, <2>2
<1>4. CASE UNCHANGED vars
  BY <1>h, <1>4 DEF vars
<1> QED
  BY <1>1, <1>2, <1>3, <1>4 DEF Next

\* ImplementsBreaker: used by one dispatch at a time, with processes that die and Redis
\* calls that throw but with no time between the read and the write of one operation,
\* the Redis-backed breaker is the state machine that its header draws
\* (packages/core/src/circuit-breaker.ts:1-40), a closed one where the key is gone.
THEOREM SoloImplementsBreaker ==
  ASSUME Alone, "stall" \notin Faults
  PROVE  Spec => ImplementsBreaker
<1>1. Init => SequentialBreaker!Init
  BY DEF Init, NoKey, SequentialBreaker!Init
<1>2. Init => SoloInv
  BY DEF Init, SoloInv
<1>3. TypeOK /\ SoloInv /\ [Next]_vars => SoloInv'
  BY NextSolo
<1>4. TypeOK /\ SoloInv /\ [Next]_vars => [SequentialBreaker!Next]_(SequentialBreaker!vars)
  BY SoloStep
<1> QED
  BY <1>1, <1>2, <1>3, <1>4, TypeCorrect, PTL DEF Spec, ImplementsBreaker, SequentialBreaker!Spec
=============================================================================
