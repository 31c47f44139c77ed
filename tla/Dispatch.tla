-------------------------------- MODULE Dispatch --------------------------------
(***************************************************************************)
(* dispatch() and executeWithRetry() (packages/core/src/dispatch): several  *)
(* notifications of one channel are delivered at the same time, sharing the *)
(* suppression list, the push tokens and the round-robin counter.           *)
(*                                                                         *)
(* A step is what runs between two awaits.  The circuit breaker's answers   *)
(* are arbitrary here (CircuitBreaker models it), a provider's answer is    *)
(* an acceptance, a permanent rejection or a retryable failure, and any     *)
(* repository call may fail.                                               *)
(***************************************************************************)
EXTENDS Naturals, FiniteSets

CONSTANTS
  Notifs,        \* notifications being dispatched
  Providers,     \* the channel's providers
  Rank,          \* their position in the configuration
  Strategy,      \* "priority", "round_robin" or "weighted"
  MaxAttempts,   \* retryPolicy.maxAttempts
  Addresses,
  Address,       \* the address each notification goes to
  Tokens,        \* the push tokens of each notification; {} unless Push
  Push,          \* whether the channel is push
  RRPeriod,      \* the round-robin counter is kept modulo this multiple of 1..|Providers|
  Faults         \* which of {"db", "crash"} happen

ASSUME DispatchAssumption ==
  /\ IsFiniteSet(Providers)
  /\ Rank \in [Providers -> Nat]
  /\ Strategy \in {"priority", "round_robin", "weighted"}
  /\ MaxAttempts \in Nat \ {0}
  /\ Address \in [Notifs -> Addresses]
  /\ Push \in BOOLEAN
  /\ DOMAIN Tokens = Notifs
  /\ RRPeriod \in Nat \ {0}

VARIABLES
  \* locals of each dispatch
  pc, exhausted, current, attempt, attempts, todo, verdict,
  \* shared
  rr,           \* the module-level round-robin counter of the channel
  row,          \* the notifications table: status and attempts
  dlq,          \* the dead-letter table: [notif, attempts]
  suppressed,   \* the suppression list
  active,       \* the push tokens still active
  calls,        \* history: deliver() calls, per notification and provider
  made          \* history: deliver() calls, per notification

local  == <<exhausted, current, attempt, attempts, todo, verdict>>
tables == <<row, dlq, suppressed, active>>
vars   == <<pc, exhausted, current, attempt, attempts, todo, verdict, rr, row, dlq,
            suppressed, active, calls, made>>

None == "none"
AllTokens == UNION {Tokens[n] : n \in Notifs}

Goto(n, from, to) == pc[n] = from /\ pc' = [pc EXCEPT ![n] = to]

\* send() inserts the row as pending before it dispatches.
Init ==
  /\ pc = [n \in Notifs |-> "idle"]
  /\ exhausted = [n \in Notifs |-> {}]
  /\ current = [n \in Notifs |-> None]
  /\ attempt = [n \in Notifs |-> 0]
  /\ attempts = [n \in Notifs |-> 0]
  /\ todo = [n \in Notifs |-> {}]
  /\ verdict = [n \in Notifs |-> None]
  /\ rr = 0
  /\ row = [n \in Notifs |-> [status |-> "pending", attempts |-> 0]]
  /\ dlq = {}
  /\ suppressed = {}
  /\ active = AllTokens
  /\ calls = [n \in Notifs |-> [p \in Providers |-> 0]]
  /\ made = [n \in Notifs |-> 0]

-----------------------------------------------------------------------------
(* Choosing a provider.                                                    *)

\* Mutant: the result of the lookup is ignored.
CheckSuppressionIgnored(n) ==
  /\ Goto(n, "idle", "select")
  /\ UNCHANGED <<local, rr, tables, calls, made>>

CheckSuppression(n) ==
  /\ IF Address[n] \in suppressed
     THEN /\ Goto(n, "idle", "mark_suppressed")
          /\ verdict' = [verdict EXCEPT ![n] = "suppressed"]
     ELSE Goto(n, "idle", "select") /\ UNCHANGED verdict
  /\ UNCHANGED <<exhausted, current, attempt, attempts, todo, rr, tables, calls, made>>

Available(n) == Providers \ exhausted[n]

\* Mutant: the configured order is ignored.
ChoicesUnordered(n) == Available(n)

\* strategy.selectProvider: the first, the next in turn, or any (by weight).
Choices(n) ==
  LET avail == Available(n)
      before(p) == {q \in avail : Rank[q] < Rank[p]}
  IN {p \in avail :
        /\ Strategy = "priority" => before(p) = {}
        /\ Strategy = "round_robin" => Cardinality(before(p)) = rr % Cardinality(avail)}

Select(n) ==
  /\ \E p \in Choices(n) :
       /\ Goto(n, "select", "gate")
       /\ current' = [current EXCEPT ![n] = p]
       /\ rr' = IF Strategy = "round_robin" THEN (rr + 1) % RRPeriod ELSE rr
  /\ UNCHANGED <<exhausted, attempt, attempts, todo, verdict, tables, calls, made>>

\* Mutant: the dead letter is written while providers are left.
NoProviderLeftEarly(n) ==
  /\ exhausted[n] # {}
  /\ Goto(n, "select", "dead_letter")
  /\ UNCHANGED <<local, rr, tables, calls, made>>

NoProviderLeft(n) ==
  /\ Available(n) = {}
  /\ Goto(n, "select", "dead_letter")
  /\ UNCHANGED <<local, rr, tables, calls, made>>

\* Mutant: a refused provider stays available.
GateForgets(n) ==
  /\ Goto(n, "gate", "deliver") \/ Goto(n, "gate", "select")
  /\ UNCHANGED <<local, rr, tables, calls, made>>

\* The circuit breaker lets the provider through, or it counts as exhausted.
Gate(n) ==
  /\ \/ Goto(n, "gate", "deliver") /\ UNCHANGED exhausted
     \/ /\ Goto(n, "gate", "select")
        /\ exhausted' = [exhausted EXCEPT ![n] = @ \cup {current[n]}]
  /\ UNCHANGED <<current, attempt, attempts, todo, verdict, rr, tables, calls, made>>

-----------------------------------------------------------------------------
(* executeWithRetry: one deliver() call and what its answer leads to.  The  *)
(* attempt history joins the dispatch's when the provider is done.          *)

Call(n) ==
  /\ calls' = [calls EXCEPT ![n][current[n]] = @ + 1]
  /\ made' = [made EXCEPT ![n] = @ + 1]

\* Mutant: the history of the providers tried before is dropped.
ConcludeOverwrites(n, v) ==
  /\ verdict' = [verdict EXCEPT ![n] = v]
  /\ attempts' = [attempts EXCEPT ![n] = attempt[n] + 1]
  /\ attempt' = [attempt EXCEPT ![n] = 0]

Conclude(n, v) ==
  /\ verdict' = [verdict EXCEPT ![n] = v]
  /\ attempts' = [attempts EXCEPT ![n] = @ + attempt[n] + 1]
  /\ attempt' = [attempt EXCEPT ![n] = 0]

Accepted(n) ==
  /\ \E invalid \in SUBSET Tokens[n] :
       todo' = [todo EXCEPT ![n] = invalid]
  /\ Goto(n, "deliver", "succeeded")
  /\ Call(n)
  /\ Conclude(n, "accepted")
  /\ UNCHANGED <<exhausted, current, rr, tables>>

\* Mutant: a permanent rejection fails over to the next provider.
RejectedFailsOver(n) ==
  /\ Conclude(n, "rejected")
  /\ Goto(n, "deliver", "select")
  /\ Call(n)
  /\ exhausted' = [exhausted EXCEPT ![n] = @ \cup {current[n]}]
  /\ UNCHANGED <<current, todo, rr, tables>>

\* On push an invalid address condemns every token of the subscriber.
Rejected(n) ==
  /\ \E v \in {"rejected", "bounced", "invalid_address"} :
       /\ Conclude(n, v)
       /\ todo' = [todo EXCEPT ![n] = IF Push /\ v = "invalid_address" THEN Tokens[n] ELSE {}]
  /\ Goto(n, "deliver", "failed")
  /\ Call(n)
  /\ UNCHANGED <<exhausted, current, rr, tables>>

\* Mutants: one attempt too many, and no retry at all.
RetryableFailureOnceMore(n) ==
  /\ pc[n] = "deliver"
  /\ Call(n)
  /\ IF attempt[n] < MaxAttempts
     THEN /\ attempt' = [attempt EXCEPT ![n] = @ + 1]
          /\ UNCHANGED <<pc, attempts, verdict>>
     ELSE /\ Goto(n, "deliver", "give_up")
          /\ Conclude(n, None)
  /\ UNCHANGED <<exhausted, current, todo, rr, tables>>

RetryableFailureAtOnce(n) ==
  /\ Goto(n, "deliver", "give_up")
  /\ Call(n)
  /\ Conclude(n, None)
  /\ UNCHANGED <<exhausted, current, todo, rr, tables>>

RetryableFailure(n) ==
  /\ pc[n] = "deliver"
  /\ Call(n)
  /\ IF attempt[n] + 1 < MaxAttempts
     THEN /\ attempt' = [attempt EXCEPT ![n] = @ + 1]
          /\ UNCHANGED <<pc, attempts, verdict>>
     ELSE /\ Goto(n, "deliver", "give_up")
          /\ Conclude(n, None)
  /\ UNCHANGED <<exhausted, current, todo, rr, tables>>

GiveUp(n) ==
  /\ Goto(n, "give_up", "select")
  /\ exhausted' = [exhausted EXCEPT ![n] = @ \cup {current[n]}]
  /\ UNCHANGED <<current, attempt, attempts, todo, verdict, rr, tables, calls, made>>

-----------------------------------------------------------------------------
(* Recording the outcome.                                                  *)

\* A repository call either takes effect or throws.
DbOutcomes == IF "db" \in Faults THEN BOOLEAN ELSE {TRUE}

\* deactivateByToken, one token after the other; an error is only logged.
Deactivate(n) ==
  /\ pc[n] \in {"succeeded", "failed"}
  /\ \E t \in todo[n], ok \in DbOutcomes :
       /\ todo' = [todo EXCEPT ![n] = @ \ {t}]
       /\ active' = IF ok THEN active \ {t} ELSE active
  /\ UNCHANGED <<pc, exhausted, current, attempt, attempts, verdict, rr, row, dlq,
                 suppressed, calls, made>>

\* updateStatus: an error is logged and the dispatch ends all the same.
Mark(n, from, status, count) ==
  /\ Goto(n, from, "done")
  /\ \E ok \in DbOutcomes :
       row' = IF ok THEN [row EXCEPT ![n] = [status |-> status, attempts |-> count]]
              ELSE row
  /\ UNCHANGED <<local, rr, dlq, suppressed, active, calls, made>>

MarkSuppressed(n) == Mark(n, "mark_suppressed", "suppressed", row[n].attempts)

MarkSent(n) == todo[n] = {} /\ Mark(n, "succeeded", "sent", attempts[n])

\* Mutants: every permanent rejection counts as a bounce; push is not exempt.
SuppressableRejection(n) ==
  verdict[n] \in {"rejected", "bounced"} \/ (verdict[n] = "invalid_address" /\ ~Push)

SuppressableOnPush(n) == verdict[n] \in {"bounced", "invalid_address"}

Suppressable(n) == verdict[n] = "bounced" \/ (verdict[n] = "invalid_address" /\ ~Push)

\* A hard bounce puts the address on the suppression list before the row is
\* marked.  This create is not guarded, and the unique index on the table refuses
\* an address that is already listed: its failure rejects the dispatch.
SuppressAddress(n) ==
  /\ Suppressable(n)
  /\ \E ok \in DbOutcomes :
       IF ok /\ Address[n] \notin suppressed
       THEN /\ Goto(n, "failed", "mark_failed")
            /\ suppressed' = suppressed \cup {Address[n]}
       ELSE Goto(n, "failed", "error") /\ UNCHANGED suppressed
  /\ UNCHANGED <<local, rr, row, dlq, active, calls, made>>

MarkRejected(n) ==
  \/ todo[n] = {} /\ ~Suppressable(n) /\ Mark(n, "failed", "failed", attempts[n])
  \/ Mark(n, "mark_failed", "failed", attempts[n])

\* deadLetterRepository.create is not guarded either.
DeadLetter(n) ==
  /\ \E ok \in DbOutcomes :
       IF ok
       THEN /\ Goto(n, "dead_letter", "mark_dead")
            /\ dlq' = dlq \cup {[notif |-> n, attempts |-> attempts[n]]}
       ELSE Goto(n, "dead_letter", "error") /\ UNCHANGED dlq
  /\ UNCHANGED <<local, rr, row, suppressed, active, calls, made>>

MarkDead(n) == Mark(n, "mark_dead", "failed", attempts[n])

\* The suppression lookup is not guarded.
LookupFails(n) ==
  /\ "db" \in Faults
  /\ Goto(n, "idle", "error")
  /\ UNCHANGED <<local, rr, tables, calls, made>>

\* The process dies: its dispatches are gone, nothing resumes them.
Crash ==
  /\ "crash" \in Faults
  /\ pc' = [n \in Notifs |-> IF pc[n] \in {"idle", "done", "error"} THEN pc[n] ELSE "gone"]
  /\ rr' = 0
  /\ UNCHANGED <<local, tables, calls, made>>

Step(n) ==
  \/ CheckSuppression(n) \/ LookupFails(n)
  \/ Select(n) \/ NoProviderLeft(n) \/ Gate(n)
  \/ Accepted(n) \/ Rejected(n) \/ RetryableFailure(n) \/ GiveUp(n)
  \/ Deactivate(n) \/ MarkSuppressed(n) \/ MarkSent(n)
  \/ SuppressAddress(n) \/ MarkRejected(n)
  \/ DeadLetter(n) \/ MarkDead(n)

Next == Crash \/ \E n \in Notifs : Step(n)

Spec == Init /\ [][Next]_vars

\* The event loop resumes every dispatch: each await of dispatch() settles.
FairSpec == Spec /\ \A n \in Notifs : WF_vars(Step(n))

-----------------------------------------------------------------------------
(* Properties.                                                             *)

Labels == {"idle", "select", "gate", "deliver", "give_up", "succeeded", "failed",
           "mark_suppressed", "mark_failed", "mark_dead", "dead_letter", "done",
           "error", "gone"}

Rejections == {"rejected", "bounced", "invalid_address"}

\* Every variable keeps its type: the locals of dispatch() and the rows, dead
\* letters, suppressions and tokens it writes.
TypeOK ==
  /\ pc \in [Notifs -> Labels]
  /\ exhausted \in [Notifs -> SUBSET Providers]
  /\ current \in [Notifs -> Providers \cup {None}]
  /\ attempt \in [Notifs -> 0 .. MaxAttempts - 1]
  /\ attempts \in [Notifs -> Nat]
  /\ todo \in [Notifs -> SUBSET AllTokens]
  /\ verdict \in [Notifs -> Rejections \cup {None, "accepted", "suppressed"}]
  /\ rr \in 0 .. RRPeriod - 1
  /\ row \in [Notifs -> [status : {"pending", "sent", "failed", "suppressed"}, attempts : Nat]]
  /\ dlq \subseteq [notif : Notifs, attempts : Nat]
  /\ suppressed \subseteq Addresses
  /\ active \subseteq AllTokens
  /\ calls \in [Notifs -> [Providers -> Nat]] /\ made \in [Notifs -> Nat]

DeadLettered(n) == \E d \in dlq : d.notif = n

\* What the tables say of a notification is what happened to it, whichever
\* writes failed and whenever the process died: "sent" was accepted by a
\* provider, "failed" was rejected for good or dead-lettered and never accepted,
\* a suppressed notification never reached a provider, and the attempts a row
\* or a dead letter reports are the deliver() calls that were made.
RecordsTellTheTruth ==
  /\ \A n \in Notifs :
       /\ row[n].status = "sent" => verdict[n] = "accepted"
       /\ row[n].status = "failed" => verdict[n] \in Rejections \/ DeadLettered(n)
       /\ row[n].status = "suppressed" => made[n] = 0
       /\ row[n].status \in {"sent", "failed"} => row[n].attempts = made[n]
  /\ \A d \in dlq : d.attempts = made[d.notif]

\* A dead letter means that nobody took the message and that failover was
\* complete: every provider was either refused by its circuit breaker or given
\* exactly MaxAttempts calls, and the notification has no second dead letter.
DeadLettersAreExhausted ==
  \A d \in dlq :
    /\ verdict[d.notif] = None
    /\ \A p \in Providers : calls[d.notif][p] \in {0, MaxAttempts}
    /\ \A e \in dlq : e.notif = d.notif => e = d

\* Under the priority strategy a provider is called only after every provider
\* configured before it has been given up on, by this very dispatch.
PriorityOrder ==
  Strategy = "priority" =>
    \A n \in Notifs, p, q \in Providers :
      calls[n][q] > 0 /\ Rank[p] < Rank[q] => p \in exhausted[n]

\* Why these hold: where a dispatch stands tells which providers it has been
\* through and how often it called each.
Undecided == {"idle", "select", "gate", "deliver", "give_up", "dead_letter"}

CallsMatch(n) ==
  /\ \A p \in exhausted[n] : calls[n][p] \in {0, MaxAttempts}
  /\ pc[n] \in Undecided =>
       \A p \in Available(n) :
         calls[n][p] > 0 => pc[n] \in {"deliver", "give_up"} /\ p = current[n]
  /\ pc[n] = "deliver" => calls[n][current[n]] = attempt[n]
  /\ pc[n] = "give_up" => calls[n][current[n]] = MaxAttempts

InOrder(n) ==
  Strategy = "priority" =>
    /\ pc[n] \in {"gate", "deliver"} =>
         \A p \in Providers : Rank[p] < Rank[current[n]] => p \in exhausted[n]
    /\ \A p, q \in Providers :
         calls[n][q] > 0 /\ Rank[p] < Rank[q] => p \in exhausted[n]

NotifInv(n) ==
  /\ pc[n] \in {"idle", "mark_suppressed"} => exhausted[n] = {}
  /\ pc[n] \in Undecided => verdict[n] = None
  /\ pc[n] \in {"gate", "deliver", "give_up"} => current[n] \in Available(n)
  /\ pc[n] = "dead_letter" => exhausted[n] = Providers
  /\ pc[n] \in {"failed", "mark_failed"} => verdict[n] \in Rejections
  /\ pc[n] = "succeeded" => verdict[n] = "accepted"
  /\ pc[n] = "mark_suppressed" => verdict[n] = "suppressed"
  /\ pc[n] \in {"idle", "select", "gate", "give_up"} => attempt[n] = 0
  /\ CallsMatch(n)
  /\ InOrder(n)

DeadLetterInv(d) ==
  /\ verdict[d.notif] = None /\ exhausted[d.notif] = Providers
  /\ pc[d.notif] \in {"mark_dead", "done", "gone"}
  /\ \A e \in dlq : e.notif = d.notif => e = d

DispatchInv ==
  /\ TypeOK
  /\ \A n \in Notifs : NotifInv(n)
  /\ \A d \in dlq : DeadLetterInv(d)

\* Once a provider has accepted a message or rejected it for good no provider
\* is called for it again: no duplicate delivery through failover.
FinalAnswer ==
  [][\A n \in Notifs :
       verdict[n] \in Rejections \cup {"accepted"} => calls'[n] = calls[n]]_vars

\* The suppression list of a channel other than push holds exactly the addresses that
\* providers bounced: a completed dispatch whose provider bounced the address left it
\* on the list, and soft bounces, timeouts and plain rejections never put one there.
BouncesSuppress ==
  LET condemned(n) == verdict[n] \in {"bounced", "invalid_address"}
  IN ~Push =>
       /\ \A n \in Notifs :
            pc[n] \in {"mark_failed", "done"} /\ condemned(n) => Address[n] \in suppressed
       /\ \A a \in suppressed : \E n \in Notifs : Address[n] = a /\ condemned(n)

\* On push an invalid address costs the subscriber's tokens, all of them when no update
\* fails, and never suppresses the subscriber, who may come back with new ones; no token
\* is lost otherwise unless a provider that accepted the message named it.  Of a hard
\* bounce on push nothing is claimed: the code suppresses the subscriber, its comment
\* says that it does not.
DeadTokensGo ==
  Push =>
    /\ \A n \in Notifs :
         verdict[n] = "invalid_address" /\ pc[n] = "done" /\ "db" \notin Faults
           => Tokens[n] \cap active = {}
    /\ \A t \in AllTokens \ active :
         \E n \in Notifs : t \in Tokens[n] /\ verdict[n] \in {"accepted", "invalid_address"}
    /\ \A a \in suppressed :
         \E n \in Notifs : Address[n] = a /\ verdict[n] \notin {"accepted", "invalid_address"}

\* A notification whose dispatch starts after its address was suppressed, by
\* another notification in flight at the time, never reaches a provider.
SuppressedStaysSilent ==
  \A n \in Notifs :
    [](pc[n] = "idle" /\ Address[n] \in suppressed => [](made[n] = 0))

\* Every dispatch ends and, with the database up, leaves its row settled:
\* retries and failover cannot go round for ever, whatever the providers and
\* the breakers answer and however the other dispatches move the shared counter.
\* The one dispatch that leaves its row pending bounced off an address that
\* another dispatch had just put on the suppression list.
EveryDispatchSettles ==
  \A n \in Notifs :
    <>(\/ row[n].status # "pending"
       \/ /\ pc[n] = "error" /\ verdict[n] \in {"bounced", "invalid_address"}
          /\ Address[n] \in suppressed)

\* The promise of Failover, read off the dispatch's own state.
Result(n) ==
  IF verdict[n] \in Rejections THEN "rejected"
  ELSE IF verdict[n] # None THEN verdict[n]
  ELSE IF DeadLettered(n) THEN "dead"
  ELSE "open"

Promise ==
  INSTANCE Failover WITH
    tried  <- exhausted,
    result <- [n \in Notifs |-> Result(n)]

\* dispatch() with its retries, breakers, strategies and failing writes keeps the
\* promise of Failover for each of the concurrent notifications.
KeepsPromise == Promise!Spec
=============================================================================
