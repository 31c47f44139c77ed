----------------------------- MODULE CircuitBreaker -----------------------------
(***************************************************************************)
(* The Redis-backed circuit breaker of one provider                        *)
(* (packages/core/src/circuit-breaker.ts), used by concurrent dispatches.  *)
(*                                                                         *)
(* Every Redis round trip is a step of its own: a caller acts on the hash  *)
(* it read before the others' writes.  Time is counted in ticks; the age   *)
(* of the last transition stops at ResetTimeout and failures at            *)
(* FailureThreshold, the only values the code compares them with.          *)
(***************************************************************************)
EXTENDS Naturals, FiniteSets

CONSTANTS
  Callers,            \* dispatches that use this provider
  FailureThreshold,   \* config.failureThreshold
  ResetTimeout,       \* config.resetTimeoutMs, in ticks
  OpenTTL,            \* TTL of a hash set to open or half-open, in ticks
  ClosedTTL,          \* the hour a closed hash lives, in ticks
  Faults              \* which of {"redis", "crash", "stall"} happen

ASSUME CircuitAssumption ==
  /\ FailureThreshold \in Nat \ {0}
  /\ ResetTimeout \in Nat \ {0}
  /\ OpenTTL \in Nat /\ OpenTTL > 2 * ResetTimeout
  /\ ClosedTTL \in Nat \ {0}
  /\ Faults \subseteq {"redis", "crash", "stall"}

VARIABLES
  hash,      \* emito:cb:{provider}
  probe,     \* ticks left on emito:cb:{provider}:probe, 0 when it is absent
  pc,        \* where each caller stands
  snap,      \* the failure count each caller last read
  counted    \* history: failure reports written to the hash, up to the threshold

vars == <<hash, probe, pc, snap, counted>>

-----------------------------------------------------------------------------
(* The hash.                                                               *)

Never == ClosedTTL + 1     \* the TTL of a key on which EXPIRE was never called

NoKey == [state |-> "none", failures |-> 0, age |-> 0, ttl |-> 0]

Saturate(n, top) == IF n > top THEN top ELSE n

TTL(state) == IF state = "closed" THEN ClosedTTL ELSE OpenTTL

SetState(state, failures) ==
  hash' = [state    |-> state,
           failures |-> Saturate(failures, FailureThreshold),
           age      |-> 0,
           ttl      |-> TTL(state)]

\* HSET of the one field: it creates the hash, without a TTL, when it is gone.
SetFailures(failures) ==
  hash' = [hash EXCEPT !.failures = Saturate(failures, FailureThreshold),
                       !.ttl = IF hash = NoKey THEN Never ELSE @]

Elapsed == hash.age >= ResetTimeout

Goto(c, from, to) == pc[c] = from /\ pc' = [pc EXCEPT ![c] = to]

Init ==
  /\ hash = NoKey
  /\ probe = 0
  /\ pc = [c \in Callers |-> "idle"]
  /\ snap = [c \in Callers |-> 0]
  /\ counted = 0

-----------------------------------------------------------------------------
(* isAllowed.                                                              *)

Check(c) ==
  /\ Goto(c, "idle", "check")
  /\ UNCHANGED <<hash, probe, snap, counted>>

\* Mutant: a refusal starts the window anew.
ReadAllowedRenews(c) ==
  /\ \/ hash.state \in {"none", "closed"} /\ Goto(c, "check", "deliver") /\ UNCHANGED hash
     \/ hash.state = "half-open" /\ Goto(c, "check", "probe") /\ UNCHANGED hash
     \/ hash.state = "open" /\ Elapsed /\ Goto(c, "check", "promote") /\ UNCHANGED hash
     \/ hash.state = "open" /\ ~Elapsed /\ Goto(c, "check", "denied")
        /\ SetState("open", hash.failures)
  /\ UNCHANGED <<probe, snap, counted>>

\* HGETALL, and the branch on what it returned.
ReadAllowed(c) ==
  /\ \/ hash.state \in {"none", "closed"} /\ Goto(c, "check", "deliver")
     \/ hash.state = "half-open" /\ Goto(c, "check", "probe")
     \/ hash.state = "open" /\ Elapsed /\ Goto(c, "check", "promote")
     \/ hash.state = "open" /\ ~Elapsed /\ Goto(c, "check", "denied")
  /\ UNCHANGED <<hash, probe, snap, counted>>

\* Mutant: the lock lives as long as the hash.
TakeProbeLong(c) ==
  /\ IF probe = 0
     THEN Goto(c, "probe", "probing") /\ probe' = OpenTTL
     ELSE Goto(c, "probe", "denied") /\ UNCHANGED probe
  /\ UNCHANGED <<hash, snap, counted>>

\* SET probe NX EX.
TakeProbe(c) ==
  /\ IF probe = 0
     THEN Goto(c, "probe", "probing") /\ probe' = ResetTimeout
     ELSE Goto(c, "probe", "denied") /\ UNCHANGED probe
  /\ UNCHANGED <<hash, snap, counted>>

\* The caller that found the window over moves to half-open; it takes no lock.
Promote(c) ==
  /\ Goto(c, "promote", "probing")
  /\ SetState("half-open", 0)
  /\ UNCHANGED <<probe, snap, counted>>

\* The dispatcher skips the provider.
Skip(c) ==
  /\ Goto(c, "denied", "idle")
  /\ UNCHANGED <<hash, probe, snap, counted>>

-----------------------------------------------------------------------------
(* The delivery, and the report of its outcome.  A request that a half-open *)
(* circuit let through is "probing".                                       *)

Deliver(c) ==
  /\ \E from \in {"deliver", "probing"}, outcome \in {"succeeded", "failed"} :
       Goto(c, from, outcome)
  /\ UNCHANGED <<hash, probe, snap, counted>>

ReadSuccess(c) ==
  /\ IF hash.state = "half-open"
     THEN Goto(c, "succeeded", "close")
     ELSE Goto(c, "succeeded", "reset")
  /\ UNCHANGED <<hash, probe, snap, counted>>

Close(c) ==
  /\ Goto(c, "close", "idle")
  /\ SetState("closed", 0)
  /\ UNCHANGED <<probe, snap, counted>>

Reset(c) ==
  /\ Goto(c, "reset", "expire")
  /\ SetFailures(0)
  /\ UNCHANGED <<probe, snap, counted>>

\* Mutants: the circuit trips one failure early, or one late.
ReadFailureEarly(c) ==
  /\ \/ hash.state = "half-open" /\ Goto(c, "failed", "reopen")
     \/ /\ hash.state # "half-open"
        /\ IF hash.failures + 2 >= FailureThreshold
           THEN Goto(c, "failed", "open")
           ELSE Goto(c, "failed", "count")
  /\ snap' = [snap EXCEPT ![c] = hash.failures]
  /\ UNCHANGED <<hash, probe, counted>>

ReadFailureLate(c) ==
  /\ \/ hash.state = "half-open" /\ Goto(c, "failed", "reopen")
     \/ /\ hash.state # "half-open"
        /\ IF hash.failures >= FailureThreshold
           THEN Goto(c, "failed", "open")
           ELSE Goto(c, "failed", "count")
  /\ snap' = [snap EXCEPT ![c] = hash.failures]
  /\ UNCHANGED <<hash, probe, counted>>

ReadFailure(c) ==
  /\ \/ hash.state = "half-open" /\ Goto(c, "failed", "reopen")
     \/ /\ hash.state # "half-open"
        /\ IF hash.failures + 1 >= FailureThreshold
           THEN Goto(c, "failed", "open")
           ELSE Goto(c, "failed", "count")
  /\ snap' = [snap EXCEPT ![c] = hash.failures]
  /\ UNCHANGED <<hash, probe, counted>>

Reopen(c) ==
  /\ Goto(c, "reopen", "idle")
  /\ SetState("open", FailureThreshold)
  /\ UNCHANGED <<probe, snap, counted>>

Open(c) ==
  /\ Goto(c, "open", "idle")
  /\ SetState("open", snap[c] + 1)
  /\ counted' = Saturate(counted + 1, FailureThreshold)
  /\ UNCHANGED <<probe, snap>>

Count(c) ==
  /\ Goto(c, "count", "expire")
  /\ SetFailures(snap[c] + 1)
  /\ counted' = Saturate(counted + 1, FailureThreshold)
  /\ UNCHANGED <<probe, snap>>

\* EXPIRE 3600 after an HSET; nothing when the key has gone in between.
Expire(c) ==
  /\ Goto(c, "expire", "idle")
  /\ hash' = IF hash = NoKey THEN NoKey ELSE [hash EXCEPT !.ttl = ClosedTTL]
  /\ UNCHANGED <<probe, snap, counted>>

-----------------------------------------------------------------------------
(* Faults and time.                                                        *)

\* A Redis call throws: isAllowed answers yes, a report is dropped.
RedisFails(c) ==
  /\ "redis" \in Faults
  /\ \/ \E from \in {"check", "probe", "promote"} : Goto(c, from, "deliver")
     \/ \E from \in {"succeeded", "close", "reset", "failed", "reopen",
                     "open", "count", "expire"} : Goto(c, from, "idle")
  /\ UNCHANGED <<hash, probe, snap, counted>>

\* The process dies with its request in flight; another takes its place.
Crash(c) ==
  /\ "crash" \in Faults
  /\ pc[c] # "idle"
  /\ pc' = [pc EXCEPT ![c] = "idle"]
  /\ UNCHANGED <<hash, probe, snap, counted>>

\* Time passes between operations and during deliveries; between the read and
\* the write of one operation only when a caller stalls.
Tick ==
  /\ "stall" \in Faults \/ \A c \in Callers : pc[c] \in {"idle", "deliver", "probing"}
  /\ hash' = IF hash.ttl = 1 THEN NoKey
             ELSE [hash EXCEPT
                     !.age = IF hash = NoKey THEN 0 ELSE Saturate(@ + 1, ResetTimeout),
                     !.ttl = IF @ \in {0, Never} THEN @ ELSE @ - 1]
  /\ probe' = IF probe = 0 THEN 0 ELSE probe - 1
  /\ UNCHANGED <<pc, snap, counted>>

IsAllowed(c) == Check(c) \/ ReadAllowed(c) \/ TakeProbe(c) \/ Promote(c) \/ Skip(c)

RecordSuccess(c) == ReadSuccess(c) \/ Close(c) \/ Reset(c)

RecordFailure(c) == ReadFailure(c) \/ Reopen(c) \/ Open(c) \/ Count(c)

\* Everything a live caller does.
Caller(c) ==
  IsAllowed(c) \/ Deliver(c) \/ RecordSuccess(c) \/ RecordFailure(c) \/ Expire(c)

Next ==
  \/ \E c \in Callers : Caller(c) \/ RedisFails(c) \/ Crash(c)
  \/ Tick

Spec == Init /\ [][Next]_vars

\* The event loop resumes every awaiting caller, dispatches keep coming, and
\* the clock moves.  Nothing is assumed of faults or of delivery outcomes.
FairSpec == Spec /\ WF_vars(Tick) /\ \A c \in Callers : WF_vars(Caller(c))

-----------------------------------------------------------------------------
(* Properties.                                                             *)

Labels == {"idle", "check", "probe", "promote", "denied", "deliver", "probing",
           "succeeded", "close", "reset", "failed", "reopen", "open", "count",
           "expire"}

\* Every variable keeps its type: what the hash, the probe key and the callers
\* of circuit-breaker.ts can hold.
TypeOK ==
  /\ hash \in [state    : {"none", "closed", "open", "half-open"},
               failures : 0 .. FailureThreshold,
               age      : 0 .. ResetTimeout,
               ttl      : Nat]
  /\ probe \in 0 .. ResetTimeout
  /\ pc \in [Callers -> Labels]
  /\ snap \in [Callers -> 0 .. FailureThreshold]
  /\ counted \in 0 .. FailureThreshold

\* However the callers interleave, whatever expires or crashes, the circuit
\* trips and a request is refused only after FailureThreshold failure reports
\* have been written: a lost update can delay the trip (recordFailure reads,
\* then writes) but stale counts never add up to failures that did not happen.
NoSpuriousTrip ==
  \/ counted = FailureThreshold
  \/ /\ hash.state \notin {"open", "half-open"}
     /\ \A c \in Callers : pc[c] # "denied"

\* Why NoSpuriousTrip holds: every count in the hash, or carried by a caller
\* between its read and its write, is a number of reports already written, and
\* whoever acts on a tripped circuit read it tripped.
TripInv ==
  /\ TypeOK
  /\ hash.failures <= counted
  /\ hash.state \in {"open", "half-open"} => counted = FailureThreshold
  /\ \A c \in Callers :
       /\ snap[c] <= counted
       /\ pc[c] \in {"probe", "promote", "denied", "reopen"} => counted = FailureThreshold
       /\ pc[c] = "open" => snap[c] + 1 >= FailureThreshold

\* A tripped circuit does not refuse for ever: once processes stop dying and
\* Redis answers, it closes or lets a new probe through, even when the last
\* probe died holding the lock or a straggler's failure restarted the window,
\* because the window and the probe lock run out by themselves and a refusal
\* never renews them.
Recovers ==
  <>[][Tick \/ \E c \in Callers : Caller(c)]_vars =>
    (hash.state \in {"open", "half-open"}) ~>
      (hash.state \in {"none", "closed"} \/ \E c \in Callers : pc[c] = "probing")

\* The state machine of the header, for callers that do not overlap.
SequentialBreaker ==
  INSTANCE Breaker WITH
    state    <- IF hash.state = "none" THEN "closed" ELSE hash.state,
    failures <- IF hash.state \in {"none", "closed"} THEN hash.failures ELSE 0

\* With one caller the Redis-backed breaker implements the state machine its
\* header draws.
ImplementsBreaker == SequentialBreaker!Spec

\* The header and the interface promise a single probe in HALF-OPEN.
SingleProbe == Cardinality({c \in Callers : pc[c] = "probing"}) <= 1
=============================================================================
