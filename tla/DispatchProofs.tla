---------------------------- MODULE DispatchProofs ----------------------------
(***************************************************************************)
(* For any number of notifications and providers, any strategy, retry       *)
(* budget and faults: dispatch() keeps the promise of Failover, calls       *)
(* providers in priority order, never calls one after a final answer, and   *)
(* dead-letters only after a complete failover.                             *)
(***************************************************************************)
EXTENDS Dispatch, TLAPS

\* What the invariant says of a notification depends on its own locals only.
View(m) == <<pc[m], exhausted[m], current[m], attempt[m], verdict[m], calls[m]>>

LEMMA Frame ==
  ASSUME NEW m \in Notifs, NotifInv(m), View(m)' = View(m)
  PROVE  NotifInv(m)'
BY DEF View, NotifInv, CallsMatch, InOrder, Available, Undecided

\* A step of one undecided dispatch that writes no dead letter.
LEMMA LocalStep ==
  ASSUME DispatchInv, NEW n \in Notifs, TypeOK', NotifInv(n)', dlq' = dlq,
         pc[n] \notin {"mark_dead", "done", "gone"},
         \A m \in Notifs \ {n} : View(m)' = View(m)
  PROVE  DispatchInv'
<1>1. ASSUME NEW m \in Notifs PROVE NotifInv(m)'
  BY Frame DEF DispatchInv
<1>2. ASSUME NEW d \in dlq PROVE DeadLetterInv(d)'
  <2>1. DeadLetterInv(d) /\ d.notif \in Notifs \ {n}
    BY DEF DispatchInv, DeadLetterInv, TypeOK
  <2> QED
    BY <2>1 DEF DeadLetterInv, View
<1> QED
  BY <1>1, <1>2 DEF DispatchInv

LEMMA InitInv == Init => DispatchInv
<1> SUFFICES ASSUME Init PROVE DispatchInv
  OBVIOUS
<1>1. TypeOK
  BY DispatchAssumption DEF Init, TypeOK, Labels, AllTokens, None
<1>2. ASSUME NEW n \in Notifs PROVE NotifInv(n)
  BY DEF Init, NotifInv, CallsMatch, InOrder, Available, None
<1> QED
  BY <1>1, <1>2 DEF Init, DispatchInv

\* The repository writes that end a dispatch touch its row and its label only.
LEMMA MarkInv ==
  ASSUME DispatchInv, NEW n \in Notifs,
         NEW from \in {"mark_suppressed", "succeeded", "failed", "mark_failed", "mark_dead"},
         NEW status \in {"sent", "failed", "suppressed"}, NEW count \in Nat,
         Mark(n, from, status, count)
  PROVE  DispatchInv'
<1>1. /\ pc[n] = from /\ pc' = [pc EXCEPT ![n] = "done"]
      /\ UNCHANGED <<local, rr, dlq, suppressed, active, calls, made>>
  BY DEF Mark, Goto
<1>2. row' \in [Notifs -> [status : {"pending", "sent", "failed", "suppressed"},
                           attempts : Nat]]
  BY DEF Mark, DispatchInv, TypeOK
<1>3. TypeOK'
  BY <1>1, <1>2 DEF DispatchInv, TypeOK, Labels, local
<1>4. pc'[n] = "done" /\ \A m \in Notifs \ {n} : View(m)' = View(m)
  BY <1>1 DEF DispatchInv, TypeOK, View, local
<1>5. NotifInv(n)'
  BY <1>1, <1>4 DEF DispatchInv, NotifInv, CallsMatch, InOrder, Available, Undecided, local
<1>6. ASSUME NEW m \in Notifs PROVE NotifInv(m)'
  BY <1>4, <1>5, Frame DEF DispatchInv
<1>7. ASSUME NEW d \in dlq PROVE DeadLetterInv(d)'
  BY <1>1, <1>4 DEF DispatchInv, TypeOK, DeadLetterInv, View, local
<1> QED
  BY <1>1, <1>3, <1>6, <1>7 DEF DispatchInv

\* One deliver() call: the caller's own provider is called once more.
LEMMA CallEffect ==
  ASSUME TypeOK, NEW n \in Notifs, current[n] \in Providers, Call(n)
  PROVE  /\ calls' \in [Notifs -> [Providers -> Nat]] /\ made' \in [Notifs -> Nat]
         /\ calls'[n][current[n]] = calls[n][current[n]] + 1
         /\ \A p \in Providers \ {current[n]} : calls'[n][p] = calls[n][p]
         /\ \A m \in Notifs \ {n} : calls'[m] = calls[m]
BY DEF TypeOK, Call

\* Concluding a provider's round adds its attempts to the dispatch's.
ConcludedTypes(v) ==
  /\ verdict' \in [Notifs -> Rejections \cup {None, "accepted", "suppressed"}]
  /\ attempts' \in [Notifs -> Nat]
  /\ attempt' \in [Notifs -> 0 .. MaxAttempts - 1]

LEMMA ConcludeTypes ==
  ASSUME TypeOK, NEW n \in Notifs, NEW v \in Rejections \cup {None, "accepted"},
         Conclude(n, v)
  PROVE  ConcludedTypes(v)
<1>1. verdict' \in [Notifs -> Rejections \cup {None, "accepted", "suppressed"}]
  BY DEF TypeOK, Conclude
<1>2. attempts[n] + attempt[n] + 1 \in Nat
  BY DispatchAssumption DEF TypeOK
<1>3. attempts' \in [Notifs -> Nat]
  BY <1>2 DEF TypeOK, Conclude
<1>4. 0 \in 0 .. MaxAttempts - 1
  BY DispatchAssumption
<1>5. attempt' \in [Notifs -> 0 .. MaxAttempts - 1]
  BY <1>4 DEF TypeOK, Conclude
<1> QED
  BY <1>1, <1>3, <1>5 DEF ConcludedTypes

\* The answer that ends executeWithRetry with an acceptance or a rejection.
LEMMA FinalStep ==
  ASSUME DispatchInv, NEW n \in Notifs, NEW to \in {"succeeded", "failed"},
         NEW v \in Rejections \cup {"accepted"},
         to = "succeeded" <=> v = "accepted",
         Goto(n, "deliver", to), Call(n), Conclude(n, v),
         todo' \in [Notifs -> SUBSET AllTokens],
         UNCHANGED <<exhausted, current, rr, tables>>
  PROVE  DispatchInv'
<1>t. TypeOK /\ NotifInv(n)
  BY DEF DispatchInv
<1>1. /\ pc[n] = "deliver" /\ pc'[n] = to
      /\ verdict'[n] = v /\ attempt'[n] = 0
      /\ \A m \in Notifs \ {n} :
           pc'[m] = pc[m] /\ verdict'[m] = verdict[m] /\ attempt'[m] = attempt[m]
  BY <1>t DEF Goto, Conclude, TypeOK
<1>2. current[n] \in Available(n) /\ current[n] \in Providers
  BY <1>t, <1>1 DEF NotifInv, Available
<1>3. /\ calls' \in [Notifs -> [Providers -> Nat]] /\ made' \in [Notifs -> Nat]
      /\ \A p \in Providers \ {current[n]} : calls'[n][p] = calls[n][p]
      /\ \A m \in Notifs \ {n} : calls'[m] = calls[m]
  BY <1>t, <1>2, CallEffect
<1>c. ConcludedTypes(v)
  BY <1>t, ConcludeTypes DEF Rejections
<1>p. pc' \in [Notifs -> Labels]
  BY <1>t DEF TypeOK, Goto, Labels
<1>4. TypeOK'
  BY <1>t, <1>3, <1>c, <1>p DEF TypeOK, ConcludedTypes, tables
<1>5. CallsMatch(n)'
  BY <1>t, <1>1, <1>2, <1>3 DEF TypeOK, NotifInv, CallsMatch, Available, Undecided
<1>6. InOrder(n)'
  BY <1>t, <1>1, <1>2, <1>3 DEF NotifInv, InOrder, Available
<1>7. NotifInv(n)'
  BY <1>1, <1>5, <1>6 DEF NotifInv, Undecided, Rejections
<1>8. \A m \in Notifs \ {n} : View(m)' = View(m)
  BY <1>1, <1>3 DEF View
<1> QED
  BY <1>1, <1>4, <1>7, <1>8, LocalStep DEF tables

LEMMA StepInv ==
  ASSUME DispatchInv, NEW n \in Notifs, Step(n)
  PROVE  DispatchInv'
<1> USE DispatchAssumption
<1>t. TypeOK /\ NotifInv(n)
  BY DEF DispatchInv
<1>1. CASE CheckSuppression(n)
  <2>1. TypeOK'
    BY <1>1, <1>t DEF CheckSuppression, Goto, TypeOK, Labels, tables
  <2>2. NotifInv(n)'
    BY <1>1, <1>t DEF CheckSuppression, Goto, TypeOK, NotifInv, CallsMatch, InOrder,
       Available, Undecided, tables
  <2> QED
    BY <1>1, <1>t, <2>1, <2>2, LocalStep DEF CheckSuppression, Goto, TypeOK, View, tables
<1>2. CASE LookupFails(n)
  <2>1. TypeOK'
    BY <1>2, <1>t DEF LookupFails, Goto, TypeOK, Labels, tables, local
  <2>2. NotifInv(n)'
    BY <1>2, <1>t DEF LookupFails, Goto, TypeOK, NotifInv, CallsMatch, InOrder, Available,
       Undecided, tables, local
  <2> QED
    BY <1>2, <1>t, <2>1, <2>2, LocalStep DEF LookupFails, Goto, TypeOK, View, tables, local
<1>3. CASE Select(n)
  <2>1. PICK p \in Choices(n) :
          /\ Goto(n, "select", "gate")
          /\ current' = [current EXCEPT ![n] = p]
          /\ rr' = IF Strategy = "round_robin" THEN (rr + 1) % RRPeriod ELSE rr
    BY <1>3 DEF Select
  <2>2. p \in Available(n)
    BY DEF Choices
  <2>3. Strategy = "priority" => \A q \in Providers : Rank[q] < Rank[p] => q \in exhausted[n]
    BY DEF Choices, Available
  <2>4. rr' \in 0 .. RRPeriod - 1
    BY <1>t, <2>1 DEF TypeOK
  <2>5. /\ pc[n] = "select" /\ pc'[n] = "gate" /\ current'[n] = p
        /\ \A m \in Notifs \ {n} : pc'[m] = pc[m] /\ current'[m] = current[m]
        /\ UNCHANGED <<exhausted, attempt, attempts, todo, verdict, tables, calls, made>>
    BY <1>3, <1>t, <2>1, <2>2 DEF Select, Goto, TypeOK
  <2>6. TypeOK'
    BY <1>t, <2>1, <2>2, <2>4, <2>5 DEF Goto, TypeOK, Labels, Available, tables
  <2>7. NotifInv(n)'
    BY <1>t, <2>2, <2>3, <2>5 DEF NotifInv, CallsMatch, InOrder, Available, Undecided
  <2>8. \A m \in Notifs \ {n} : View(m)' = View(m)
    BY <2>5 DEF View
  <2> QED
    BY <2>5, <2>6, <2>7, <2>8, LocalStep DEF tables
<1>4. CASE NoProviderLeft(n)
  <2>1. TypeOK'
    BY <1>4, <1>t DEF NoProviderLeft, Goto, TypeOK, Labels, tables, local
  <2>2. exhausted[n] = Providers
    BY <1>4, <1>t DEF NoProviderLeft, Available, TypeOK
  <2>3. NotifInv(n)'
    BY <1>4, <1>t, <2>2 DEF NoProviderLeft, Goto, TypeOK, NotifInv, CallsMatch, InOrder,
       Available, Undecided, tables, local
  <2> QED
    BY <1>4, <1>t, <2>1, <2>3, LocalStep DEF NoProviderLeft, Goto, TypeOK, View, tables, local
<1>5. CASE Gate(n)
  <2>2. /\ pc[n] = "gate" /\ pc'[n] \in {"deliver", "select"}
        /\ pc'[n] = "deliver" => exhausted'[n] = exhausted[n]
        /\ pc'[n] = "select" => exhausted'[n] = exhausted[n] \cup {current[n]}
        /\ \A m \in Notifs \ {n} : pc'[m] = pc[m] /\ exhausted'[m] = exhausted[m]
        /\ UNCHANGED <<current, attempt, attempts, todo, verdict, rr, tables, calls, made>>
    BY <1>5, <1>t DEF Gate, Goto, TypeOK
  <2>3. current[n] \in Available(n) /\ attempt[n] = 0 /\ verdict[n] = None
    BY <1>t, <2>2 DEF NotifInv, Undecided
  <2>4. \A p \in Available(n) : calls[n][p] = 0
    BY <1>t, <2>2 DEF TypeOK, NotifInv, CallsMatch, Undecided, Available
  <2>p. pc' \in [Notifs -> Labels]
    BY <1>5, <1>t DEF Gate, Goto, TypeOK, Labels
  <2>e. exhausted' \in [Notifs -> SUBSET Providers]
    <3>1. \/ exhausted' = exhausted
          \/ exhausted' = [exhausted EXCEPT ![n] = @ \cup {current[n]}]
      BY <1>5 DEF Gate
    <3>2. exhausted[n] \cup {current[n]} \in SUBSET Providers
      BY <1>t, <2>3 DEF TypeOK, Available
    <3> QED
      BY <1>t, <3>1, <3>2 DEF TypeOK
  <2>1. TypeOK'
    BY <1>t, <2>2, <2>p, <2>e DEF TypeOK, tables
  <2>c. \A p \in exhausted'[n] : calls[n][p] \in {0, MaxAttempts}
    BY <1>t, <2>2, <2>3, <2>4 DEF NotifInv, CallsMatch
  <2>z. \A p \in Providers \ exhausted'[n] : calls[n][p] = 0
    BY <2>2, <2>4 DEF Available
  <2>5. CallsMatch(n)'
    <3>1. \A p \in exhausted'[n] : calls'[n][p] \in {0, MaxAttempts}
      BY <2>2, <2>c
    <3>2. \A p \in Available(n)' : ~(calls'[n][p] > 0)
      BY <2>2, <2>z DEF Available
    <3>3. pc'[n] = "deliver" => calls'[n][current'[n]] = attempt'[n]
      BY <2>2, <2>3, <2>4
    <3> QED
      BY <2>2, <3>1, <3>2, <3>3 DEF CallsMatch
  <2>6. InOrder(n)'
    BY <1>t, <2>2, <2>3, <2>4 DEF NotifInv, InOrder, Available
  <2>7. NotifInv(n)'
    BY <1>t, <2>2, <2>3, <2>5, <2>6 DEF NotifInv, Available, Undecided
  <2>8. \A m \in Notifs \ {n} : View(m)' = View(m)
    BY <2>2 DEF View
  <2> QED
    BY <2>1, <2>2, <2>7, <2>8, LocalStep DEF tables
<1>d. ASSUME pc[n] = "deliver"
      PROVE  /\ current[n] \in Available(n) /\ current[n] \in Providers
             /\ calls[n][current[n]] = attempt[n]
             /\ \A p \in Available(n) : calls[n][p] > 0 => p = current[n]
  BY <1>t, <1>d DEF NotifInv, CallsMatch, Undecided, Available
<1>6. CASE Accepted(n)
  <2>1. /\ Goto(n, "deliver", "succeeded") /\ Call(n) /\ Conclude(n, "accepted")
        /\ UNCHANGED <<exhausted, current, rr, tables>>
    BY <1>6 DEF Accepted
  <2>2. todo' \in [Notifs -> SUBSET AllTokens]
    BY <1>6, <1>t DEF Accepted, TypeOK, AllTokens
  <2> QED
    BY <2>1, <2>2, FinalStep
<1>7. CASE Rejected(n)
  <2>1. PICK v \in Rejections :
          /\ Conclude(n, v)
          /\ todo' = [todo EXCEPT ![n] = IF Push /\ v = "invalid_address" THEN Tokens[n] ELSE {}]
    BY <1>7 DEF Rejected, Rejections
  <2>2. /\ Goto(n, "deliver", "failed") /\ Call(n)
        /\ UNCHANGED <<exhausted, current, rr, tables>>
    BY <1>7 DEF Rejected
  <2>3. Tokens[n] \in SUBSET AllTokens
    BY DEF AllTokens
  <2>4. todo' \in [Notifs -> SUBSET AllTokens]
    BY <1>t, <2>1, <2>3 DEF TypeOK
  <2>5. v # "accepted"
    BY DEF Rejections
  <2> QED
    BY <2>1, <2>2, <2>4, <2>5, FinalStep
<1>8. CASE RetryableFailure(n)
  <2>1. /\ pc[n] = "deliver" /\ Call(n) /\ verdict[n] = None
        /\ UNCHANGED <<exhausted, current, todo, rr, tables>>
    BY <1>8, <1>t DEF RetryableFailure, NotifInv, Undecided
  <2>2. /\ calls' \in [Notifs -> [Providers -> Nat]] /\ made' \in [Notifs -> Nat]
        /\ calls'[n][current[n]] = attempt[n] + 1
        /\ \A p \in Providers \ {current[n]} : calls'[n][p] = calls[n][p]
        /\ \A m \in Notifs \ {n} : calls'[m] = calls[m]
    BY <1>t, <1>d, <2>1, CallEffect
  <2>3. CASE attempt[n] + 1 < MaxAttempts
    <3>1. attempt' = [attempt EXCEPT ![n] = @ + 1] /\ UNCHANGED <<pc, attempts, verdict>>
      BY <1>8, <2>3 DEF RetryableFailure
    <3>2. attempt' \in [Notifs -> 0 .. MaxAttempts - 1] /\ attempt'[n] = attempt[n] + 1
          /\ \A m \in Notifs \ {n} : attempt'[m] = attempt[m]
      BY <1>t, <2>3, <3>1 DEF TypeOK
    <3>3. TypeOK'
      BY <1>t, <2>1, <2>2, <3>1, <3>2 DEF TypeOK, tables
    <3>4. CallsMatch(n)'
      BY <1>t, <1>d, <2>1, <2>2, <3>1, <3>2 DEF TypeOK, NotifInv, CallsMatch, Available, Undecided
    <3>5. InOrder(n)'
      BY <1>t, <1>d, <2>1, <2>2, <3>1 DEF NotifInv, InOrder, Available
    <3>6. NotifInv(n)'
      BY <1>t, <1>d, <2>1, <3>1, <3>4, <3>5 DEF NotifInv, Available, Undecided
    <3> QED
      BY <2>1, <2>2, <3>1, <3>2, <3>3, <3>6, LocalStep DEF View, tables
  <2>4. CASE ~(attempt[n] + 1 < MaxAttempts)
    <3>1. Goto(n, "deliver", "give_up") /\ Conclude(n, None)
      BY <1>8, <2>4 DEF RetryableFailure
    <3>2. /\ pc'[n] = "give_up" /\ verdict'[n] = None /\ attempt'[n] = 0
          /\ \A m \in Notifs \ {n} :
               pc'[m] = pc[m] /\ verdict'[m] = verdict[m] /\ attempt'[m] = attempt[m]
      BY <1>t, <3>1 DEF Goto, Conclude, TypeOK
    <3>3. calls'[n][current[n]] = MaxAttempts
      BY <1>t, <2>2, <2>4 DEF TypeOK
    <3>4. pc' \in [Notifs -> Labels]
      BY <1>t, <3>1 DEF Goto, TypeOK, Labels
    <3>5. TypeOK'
      BY <1>t, <2>1, <2>2, <3>1, <3>4, ConcludeTypes DEF TypeOK, ConcludedTypes, tables
    <3>6. CallsMatch(n)'
      BY <1>t, <1>d, <2>1, <2>2, <3>2, <3>3 DEF TypeOK, NotifInv, CallsMatch, Available, Undecided
    <3>7. InOrder(n)'
      BY <1>t, <1>d, <2>1, <2>2, <3>2 DEF NotifInv, InOrder, Available
    <3>8. NotifInv(n)'
      BY <1>t, <1>d, <2>1, <3>2, <3>6, <3>7 DEF NotifInv, Available, Undecided
    <3> QED
      BY <2>1, <2>2, <3>2, <3>5, <3>8, LocalStep DEF View, tables
  <2> QED
    BY <2>3, <2>4
<1>9. CASE GiveUp(n)
  <2>1. /\ pc[n] = "give_up" /\ pc'[n] = "select"
        /\ exhausted'[n] = exhausted[n] \cup {current[n]}
        /\ \A m \in Notifs \ {n} : pc'[m] = pc[m] /\ exhausted'[m] = exhausted[m]
        /\ UNCHANGED <<current, attempt, attempts, todo, verdict, rr, tables, calls, made>>
    BY <1>9, <1>t DEF GiveUp, Goto, TypeOK
  <2>2. /\ current[n] \in Available(n) /\ verdict[n] = None /\ attempt[n] = 0
        /\ calls[n][current[n]] = MaxAttempts
    BY <1>t, <2>1 DEF NotifInv, CallsMatch, Undecided
  <2>3. pc' \in [Notifs -> Labels] /\ exhausted' \in [Notifs -> SUBSET Providers]
    BY <1>9, <1>t, <2>2 DEF GiveUp, Goto, TypeOK, Labels, Available
  <2>4. TypeOK'
    BY <1>t, <2>1, <2>3 DEF TypeOK, tables
  <2>c. \A p \in exhausted'[n] : calls[n][p] \in {0, MaxAttempts}
    BY <1>t, <2>1, <2>2 DEF NotifInv, CallsMatch
  <2>z. \A p \in Providers \ exhausted'[n] : ~(calls[n][p] > 0)
    BY <1>t, <2>1, <2>2 DEF NotifInv, CallsMatch, Available, Undecided
  <2>5. CallsMatch(n)'
    <3>1. \A p \in exhausted'[n] : calls'[n][p] \in {0, MaxAttempts}
      BY <2>1, <2>c
    <3>2. \A p \in Available(n)' : ~(calls'[n][p] > 0)
      BY <2>1, <2>z DEF Available
    <3> QED
      BY <2>1, <3>1, <3>2 DEF CallsMatch
  <2>6. InOrder(n)'
    BY <1>t, <2>1, <2>2 DEF NotifInv, InOrder, Available
  <2>7. NotifInv(n)'
    BY <1>t, <2>1, <2>2, <2>5, <2>6 DEF NotifInv, Available, Undecided
  <2> QED
    BY <2>1, <2>4, <2>7, LocalStep DEF View, tables
<1>10. CASE Deactivate(n)
  <2>1. /\ pc[n] \in {"succeeded", "failed"}
        /\ UNCHANGED <<pc, exhausted, current, attempt, attempts, verdict, rr, row, dlq,
                       suppressed, calls, made>>
    BY <1>10 DEF Deactivate
  <2>2. TypeOK'
    BY <1>10, <1>t DEF Deactivate, TypeOK
  <2>3. \A m \in Notifs : View(m)' = View(m)
    BY <2>1 DEF View
  <2> QED
    BY <1>t, <2>1, <2>2, <2>3, Frame, LocalStep
<1>11. CASE MarkSuppressed(n)
  <2>1. row[n].attempts \in Nat
    BY <1>t DEF TypeOK
  <2> QED
    BY <1>11, <2>1, MarkInv DEF MarkSuppressed
<1>a. attempts[n] \in Nat
  BY <1>t DEF TypeOK
<1>12. CASE MarkSent(n)
  BY <1>12, <1>a, MarkInv DEF MarkSent
<1>13. CASE SuppressAddress(n)
  <2>1. /\ pc[n] = "failed" /\ pc'[n] \in {"mark_failed", "error"}
        /\ pc' \in [Notifs -> Labels]
        /\ \A m \in Notifs \ {n} : pc'[m] = pc[m]
        /\ UNCHANGED <<local, rr, row, dlq, active, calls, made>>
    BY <1>13, <1>t DEF SuppressAddress, DbOutcomes, Goto, TypeOK, Labels
  <2>2. suppressed' \subseteq Addresses
    BY <1>13, <1>t DEF SuppressAddress, TypeOK
  <2>3. TypeOK'
    BY <1>t, <2>1, <2>2 DEF TypeOK, local
  <2>4. NotifInv(n)'
    BY <1>t, <2>1 DEF NotifInv, CallsMatch, InOrder, Available, Undecided, local
  <2> QED
    BY <2>1, <2>3, <2>4, LocalStep DEF View, local
<1>14. CASE MarkRejected(n)
  BY <1>14, <1>a, MarkInv DEF MarkRejected
<1>15. CASE DeadLetter(n)
  <2>1. CASE dlq' = dlq /\ Goto(n, "dead_letter", "error")
    <3>1. /\ pc[n] = "dead_letter" /\ pc'[n] = "error" /\ pc' \in [Notifs -> Labels]
          /\ \A m \in Notifs \ {n} : pc'[m] = pc[m]
          /\ UNCHANGED <<local, rr, row, suppressed, active, calls, made>>
      BY <1>15, <1>t, <2>1 DEF DeadLetter, Goto, TypeOK, Labels
    <3>2. TypeOK'
      BY <1>t, <2>1, <3>1 DEF TypeOK, local
    <3>3. NotifInv(n)'
      BY <1>t, <3>1 DEF NotifInv, CallsMatch, InOrder, Available, Undecided, local
    <3> QED
      BY <2>1, <3>1, <3>2, <3>3, LocalStep DEF View, local
  <2>2. CASE /\ Goto(n, "dead_letter", "mark_dead")
             /\ dlq' = dlq \cup {[notif |-> n, attempts |-> attempts[n]]}
    <3>1. /\ pc[n] = "dead_letter" /\ pc'[n] = "mark_dead" /\ pc' \in [Notifs -> Labels]
          /\ \A m \in Notifs \ {n} : pc'[m] = pc[m]
          /\ UNCHANGED <<local, rr, row, suppressed, active, calls, made>>
      BY <1>15, <1>t, <2>2 DEF DeadLetter, Goto, TypeOK, Labels
    <3>2. TypeOK'
      BY <1>t, <1>a, <2>2, <3>1 DEF TypeOK, local
    <3>3. NotifInv(n)'
      BY <1>t, <3>1 DEF NotifInv, CallsMatch, InOrder, Available, Undecided, local
    <3>4. \A m \in Notifs \ {n} : View(m)' = View(m)
      BY <3>1 DEF View, local
    <3>5. \A m \in Notifs : NotifInv(m)'
      BY <3>3, <3>4, Frame DEF DispatchInv
    <3>6. \A d \in dlq : d.notif \in Notifs \ {n}
      BY <1>t, <3>1 DEF DispatchInv, DeadLetterInv, TypeOK
    <3>7. verdict'[n] = None /\ exhausted'[n] = Providers
      BY <1>t, <3>1 DEF NotifInv, Undecided, local
    <3>8. ASSUME NEW d \in dlq' PROVE DeadLetterInv(d)'
      <4>1. CASE d \in dlq
        BY <2>2, <3>1, <3>6, <4>1 DEF DispatchInv, DeadLetterInv, local
      <4>2. CASE d = [notif |-> n, attempts |-> attempts[n]]
        BY <2>2, <3>1, <3>6, <3>7, <4>2 DEF DeadLetterInv
      <4> QED
        BY <2>2, <4>1, <4>2
    <3> QED
      BY <3>2, <3>5, <3>8 DEF DispatchInv
  <2> QED
    BY <1>15, <2>1, <2>2 DEF DeadLetter
<1>16. CASE MarkDead(n)
  BY <1>16, <1>a, MarkInv DEF MarkDead
<1> QED
  BY <1>1, <1>2, <1>3, <1>4, <1>5, <1>6, <1>7, <1>8, <1>9, <1>10, <1>11, <1>12, <1>13,
     <1>14, <1>15, <1>16 DEF Step

\* A crash or a stuttering step keeps the invariant too.
LEMMA NextInv == DispatchInv /\ [Next]_vars => DispatchInv'
<1> SUFFICES ASSUME DispatchInv, [Next]_vars PROVE DispatchInv'
  OBVIOUS
<1>1. CASE Crash
  <2> DEFINE stops(n) == pc[n] \notin {"idle", "done", "error"}
  <2>1. /\ pc' = [n \in Notifs |-> IF stops(n) THEN "gone" ELSE pc[n]]
        /\ rr' = 0 /\ UNCHANGED <<local, tables, calls, made>>
    BY <1>1 DEF Crash
  <2>2. TypeOK'
    BY <2>1, DispatchAssumption DEF DispatchInv, TypeOK, Labels, local, tables
  <2>3. ASSUME NEW n \in Notifs PROVE NotifInv(n)'
    <3>1. NotifInv(n) /\ pc'[n] = IF stops(n) THEN "gone" ELSE pc[n]
      BY <2>1 DEF DispatchInv
    <3>2. CASE stops(n)
      BY <2>1, <3>1, <3>2 DEF NotifInv, CallsMatch, InOrder, Available, Undecided, local
    <3>3. CASE ~stops(n)
      BY <2>1, <3>1, <3>3, Frame DEF View, local
    <3> QED
      BY <3>2, <3>3
  <2>4. ASSUME NEW d \in dlq PROVE DeadLetterInv(d)'
    <3>1. DeadLetterInv(d) /\ d.notif \in Notifs
      BY DEF DispatchInv, TypeOK
    <3>2. pc'[d.notif] \in {"done", "gone"}
      BY <2>1, <3>1 DEF DeadLetterInv
    <3> QED
      BY <2>1, <3>1, <3>2 DEF DeadLetterInv, local, tables
  <2> QED
    BY <2>1, <2>2, <2>3, <2>4 DEF DispatchInv, tables
<1>2. CASE UNCHANGED vars
  <2>1. TypeOK'
    BY <1>2 DEF DispatchInv, TypeOK, vars
  <2>2. \A n \in Notifs : NotifInv(n)'
    BY <1>2, Frame DEF DispatchInv, View, vars
  <2>3. \A d \in dlq' : DeadLetterInv(d)'
    BY <1>2 DEF DispatchInv, DeadLetterInv, vars
  <2> QED
    BY <2>1, <2>2, <2>3 DEF DispatchInv
<1> QED
  BY <1>1, <1>2, StepInv DEF Next

\* The inductive invariant holds of every behaviour.
THEOREM DispatchInvariant == Spec => []DispatchInv
BY InitInv, NextInv, PTL DEF Spec

\* TypeOK: the locals, rows, dead letters, suppressions and tokens keep their types.
THEOREM TypeCorrect == Spec => []TypeOK
<1>1. DispatchInv => TypeOK
  BY DEF DispatchInv
<1> QED
  BY <1>1, DispatchInvariant, PTL

\* DeadLettersAreExhausted: a dead letter is written once, for a message nobody
\* took, after every provider was refused or given exactly MaxAttempts calls.
THEOREM DeadLettersExhausted == Spec => []DeadLettersAreExhausted
<1>1. DispatchInv => DeadLettersAreExhausted
  BY DEF DispatchInv, TypeOK, NotifInv, CallsMatch, DeadLetterInv, DeadLettersAreExhausted
<1> QED
  BY <1>1, DispatchInvariant, PTL

\* PriorityOrder: under the priority strategy no provider is called before those
\* configured ahead of it have been given up on.
THEOREM PriorityRespected == Spec => []PriorityOrder
<1>1. DispatchInv => PriorityOrder
  BY DEF DispatchInv, NotifInv, InOrder, PriorityOrder
<1> QED
  BY <1>1, DispatchInvariant, PTL

\* Only an undecided dispatch calls its provider.
LEMMA StepKeepsAnswer ==
  ASSUME DispatchInv, NEW n \in Notifs, Step(n), NEW m \in Notifs,
         verdict[m] \in Rejections \cup {"accepted"}
  PROVE  calls'[m] = calls[m]
<1>1. pc[m] # "deliver"
  BY DEF DispatchInv, NotifInv, Undecided, Rejections, None
<1>2. CASE Accepted(n) \/ Rejected(n) \/ RetryableFailure(n)
  <2>1. pc[n] = "deliver" /\ Call(n)
    BY <1>2 DEF Accepted, Rejected, RetryableFailure, Goto
  <2> QED
    BY <1>1, <2>1 DEF Call, DispatchInv, TypeOK
<1>3. CASE ~(Accepted(n) \/ Rejected(n) \/ RetryableFailure(n))
  BY <1>3 DEF Step, CheckSuppression, LookupFails, Select, NoProviderLeft, Gate, GiveUp,
     Deactivate, MarkSuppressed, MarkSent, SuppressAddress, MarkRejected, DeadLetter,
     MarkDead, Mark
<1> QED
  BY <1>2, <1>3

\* FinalAnswer: after an acceptance or a permanent rejection no provider is called
\* for the notification again.
THEOREM AnswerIsFinal == Spec => FinalAnswer
<1> DEFINE Kept == \A n \in Notifs :
                     verdict[n] \in Rejections \cup {"accepted"} => calls'[n] = calls[n]
<1>1. DispatchInv /\ [Next]_vars => [Kept]_vars
  <2> SUFFICES ASSUME DispatchInv, Next PROVE Kept
    OBVIOUS
  <2>1. CASE Crash
    BY <2>1 DEF Crash
  <2>2. CASE \E n \in Notifs : Step(n)
    BY <2>2, StepKeepsAnswer
  <2> QED
    BY <2>1, <2>2 DEF Next
<1> QED
  BY <1>1, DispatchInvariant, PTL DEF Spec, FinalAnswer

-----------------------------------------------------------------------------
(* dispatch() implements Failover.                                         *)

ResultOf == [m \in Notifs |-> Result(m)]

\* An undecided dispatch that wrote no dead letter is open in the abstract.
LEMMA OpenResult ==
  ASSUME DispatchInv, NEW n \in Notifs, pc[n] \in Undecided
  PROVE  verdict[n] = None /\ ~DeadLettered(n) /\ Result(n) = "open"
<1>1. verdict[n] = None
  BY DEF DispatchInv, NotifInv
<1>2. ~DeadLettered(n)
  BY DEF DispatchInv, DeadLetterInv, DeadLettered, Undecided
<1> QED
  BY <1>1, <1>2 DEF Result, Rejections, None

\* Steps that decide nothing leave the abstract result as it was.
LEMMA ResultFrame ==
  ASSUME dlq' = dlq, NEW n \in Notifs, verdict'[n] = verdict[n]
  PROVE  Result(n)' = Result(n)
BY DEF Result, DeadLettered

LEMMA Stutters ==
  ASSUME UNCHANGED <<exhausted, verdict, dlq>>
  PROVE  UNCHANGED Promise!vars
<1>1. \A m \in Notifs : Result(m)' = Result(m)
  BY ResultFrame
<1> QED
  BY <1>1 DEF Promise!vars

\* A verdict reached by one dispatch decides that notification and no other.
LEMMA Decides ==
  ASSUME TypeOK, dlq' = dlq, NEW n \in Notifs, NEW v, NEW r,
         ~DeadLettered(n),
         \/ v \in Rejections /\ r = "rejected"
         \/ v \in {"accepted", "suppressed"} /\ r = v,
         verdict' = [verdict EXCEPT ![n] = v]
  PROVE  ResultOf' = [ResultOf EXCEPT ![n] = r]
<1>1. verdict'[n] = v /\ \A m \in Notifs \ {n} : verdict'[m] = verdict[m]
  BY DEF TypeOK
<1>2. Result(n)' = r
  BY <1>1 DEF Result, Rejections, None
<1>3. \A m \in Notifs \ {n} : Result(m)' = Result(m)
  BY <1>1, ResultFrame
<1> QED
  BY <1>2, <1>3 DEF ResultOf

\* Every step of a dispatch is a step of Failover or changes nothing in it.
LEMMA StepSimulation ==
  ASSUME DispatchInv, NEW n \in Notifs, Step(n)
  PROVE  [Promise!Next]_(Promise!vars)
<1>t. TypeOK /\ NotifInv(n)
  BY DEF DispatchInv
<1>1. CASE CheckSuppression(n)
  <2>1. CASE Address[n] \in suppressed
    <3>1. pc[n] = "idle" /\ verdict' = [verdict EXCEPT ![n] = "suppressed"]
          /\ UNCHANGED <<exhausted, dlq>>
      BY <1>1, <2>1 DEF CheckSuppression, Goto, tables
    <3>2. exhausted[n] = {} /\ ~DeadLettered(n) /\ Result(n) = "open"
      BY <1>t, <3>1, OpenResult DEF NotifInv, Undecided
    <3>3. ResultOf' = [ResultOf EXCEPT ![n] = "suppressed"]
      BY <1>t, <3>1, <3>2, Decides
    <3>4. Promise!Suppress(n)
      BY <3>1, <3>2, <3>3 DEF Promise!Suppress, ResultOf
    <3> QED
      BY <3>4 DEF Promise!Next
  <2>2. CASE Address[n] \notin suppressed
    BY <1>1, <2>2, Stutters DEF CheckSuppression, tables
  <2> QED
    BY <2>1, <2>2
<1>2. CASE \/ LookupFails(n) \/ Select(n) \/ NoProviderLeft(n) \/ Deactivate(n)
           \/ MarkSuppressed(n) \/ MarkSent(n) \/ SuppressAddress(n)
           \/ MarkRejected(n) \/ MarkDead(n)
  <2>1. UNCHANGED <<exhausted, verdict, dlq>>
    BY <1>2 DEF LookupFails, Select, NoProviderLeft, Deactivate, MarkSuppressed, MarkSent,
       SuppressAddress, MarkRejected, MarkDead, Mark, local, tables
  <2> QED
    BY <2>1, Stutters
<1>3. ASSUME pc[n] \in {"gate", "give_up"},
             exhausted' = [exhausted EXCEPT ![n] = @ \cup {current[n]}],
             UNCHANGED <<verdict, dlq>>
      PROVE  Promise!Next
  <2>1. current[n] \in Providers /\ current[n] \notin exhausted[n]
    BY <1>t, <1>3 DEF NotifInv, Available
  <2>2. Result(n) = "open"
    BY <1>3, OpenResult DEF Undecided
  <2>3. ResultOf' = ResultOf
    BY <1>3, ResultFrame DEF ResultOf
  <2>4. Promise!Try(n, current[n])
    BY <1>3, <2>1, <2>2, <2>3 DEF Promise!Try, ResultOf
  <2> QED
    BY <2>1, <2>4 DEF Promise!Next
<1>4. CASE Gate(n)
  <2>1. CASE UNCHANGED exhausted
    BY <1>4, <2>1, Stutters DEF Gate, tables
  <2>2. CASE exhausted' = [exhausted EXCEPT ![n] = @ \cup {current[n]}]
    BY <1>3, <1>4, <2>2 DEF Gate, Goto, tables
  <2> QED
    BY <1>4, <2>1, <2>2 DEF Gate
<1>5. CASE GiveUp(n)
  BY <1>3, <1>5 DEF GiveUp, Goto, tables
<1>6. ASSUME pc[n] = "deliver", UNCHANGED <<exhausted, dlq>>,
             NEW v \in Rejections \cup {"accepted"}, verdict' = [verdict EXCEPT ![n] = v]
      PROVE  Promise!Next
  <2> DEFINE r == IF v = "accepted" THEN "accepted" ELSE "rejected"
  <2>1. current[n] \in Providers /\ current[n] \notin exhausted[n]
    BY <1>t, <1>6 DEF NotifInv, Available
  <2>2. ~DeadLettered(n) /\ Result(n) = "open"
    BY <1>6, OpenResult DEF Undecided
  <2>3. ResultOf' = [ResultOf EXCEPT ![n] = r]
    BY <1>t, <1>6, <2>2, Decides DEF Rejections
  <2>4. Promise!Try(n, current[n])
    BY <1>6, <2>1, <2>2, <2>3 DEF Promise!Try, ResultOf
  <2> QED
    BY <2>1, <2>4 DEF Promise!Next
<1>7. CASE Accepted(n)
  BY <1>6, <1>7 DEF Accepted, Conclude, Goto, tables
<1>8. CASE Rejected(n)
  BY <1>6, <1>8 DEF Rejected, Conclude, Goto, Rejections, tables
<1>9. CASE RetryableFailure(n)
  <2>1. pc[n] = "deliver" /\ UNCHANGED <<exhausted, dlq>>
    BY <1>9 DEF RetryableFailure, tables
  <2>2. verdict[n] = None
    BY <2>1, OpenResult DEF Undecided
  <2>3. verdict' = verdict \/ verdict' = [verdict EXCEPT ![n] = None]
    BY <1>9 DEF RetryableFailure, Conclude
  <2>4. verdict' = verdict
    BY <1>t, <2>2, <2>3 DEF TypeOK
  <2> QED
    BY <2>1, <2>4, Stutters
<1>10. CASE DeadLetter(n)
  <2>1. CASE dlq' = dlq
    BY <1>10, <2>1, Stutters DEF DeadLetter, local
  <2>2. CASE dlq' = dlq \cup {[notif |-> n, attempts |-> attempts[n]]}
    <3>1. pc[n] = "dead_letter" /\ UNCHANGED <<exhausted, verdict>>
      BY <1>10 DEF DeadLetter, Goto, local
    <3>2. exhausted[n] = Providers /\ verdict[n] = None /\ Result(n) = "open"
      BY <1>t, <3>1, OpenResult DEF NotifInv, Undecided
    <3> DEFINE letter == [notif |-> n, attempts |-> attempts[n]]
    <3>l. letter.notif = n /\ dlq' = dlq \cup {letter}
      BY <2>2
    <3> HIDE DEF letter
    <3>3. DeadLettered(n)'
      BY <3>l DEF DeadLettered
    <3>d. ASSUME NEW m \in Notifs \ {n} PROVE DeadLettered(m)' <=> DeadLettered(m)
      BY <3>l DEF DeadLettered
    <3>4. Result(n)' = "dead" /\ \A m \in Notifs \ {n} : Result(m)' = Result(m)
      <4>1. Result(n)' = "dead"
        BY <3>1, <3>2, <3>3 DEF Result, Rejections, None
      <4>2. ASSUME NEW m \in Notifs \ {n} PROVE Result(m)' = Result(m)
        <5>1. verdict'[m] = verdict[m]
          BY <3>1
        <5> QED
          BY <3>d, <5>1 DEF Result
      <4> QED
        BY <4>1, <4>2
    <3>5. ResultOf' = [ResultOf EXCEPT ![n] = "dead"]
      BY <3>4 DEF ResultOf
    <3>6. Promise!DeadLetter(n)
      BY <3>1, <3>2, <3>5 DEF Promise!DeadLetter, ResultOf
    <3> QED
      BY <3>6 DEF Promise!Next
  <2> QED
    BY <1>10, <2>1, <2>2 DEF DeadLetter
<1> QED
  BY <1>1, <1>2, <1>4, <1>5, <1>7, <1>8, <1>9, <1>10 DEF Step

\* KeepsPromise: every behaviour of dispatch() is one of Failover, under the
\* mapping that reads the result off the verdict and the dead-letter table.
THEOREM ImplementsFailover == Spec => KeepsPromise
<1>1. Init => Promise!Init
  <2> SUFFICES ASSUME Init PROVE Promise!Init
    OBVIOUS
  <2>1. \A n \in Notifs : Result(n) = "open"
    BY DEF Init, Result, DeadLettered, Rejections, None
  <2> QED
    BY <2>1 DEF Init, Promise!Init
<1>2. DispatchInv /\ [Next]_vars => [Promise!Next]_(Promise!vars)
  <2> SUFFICES ASSUME DispatchInv, [Next]_vars PROVE [Promise!Next]_(Promise!vars)
    OBVIOUS
  <2>1. CASE Crash
    BY <2>1, Stutters DEF Crash, local, tables
  <2>2. CASE \E n \in Notifs : Step(n)
    BY <2>2, StepSimulation
  <2>3. CASE UNCHANGED vars
    BY <2>3, Stutters DEF vars
  <2> QED
    BY <2>1, <2>2, <2>3 DEF Next
<1> QED
  BY <1>1, <1>2, DispatchInvariant, PTL DEF Spec, KeepsPromise, Promise!Spec

-----------------------------------------------------------------------------
(* What the tables say: the rows, the dead letters, the suppression list and *)
(* the tokens against what happened to each notification.                   *)

\* The calls that were made are those the dispatch counts, in the providers it is
\* done with and in the one it is at.
Counts(n) ==
  /\ made[n] = attempts[n] + attempt[n]
  /\ pc[n] # "deliver" /\ pc[n] # "gone" => attempt[n] = 0
  /\ pc[n] \in {"idle", "mark_suppressed"} => made[n] = 0

\* Only a dispatch that is done has marked its row.
RowTells(n) ==
  /\ pc[n] # "done" => row[n].status = "pending"
  /\ pc[n] = "mark_dead" => DeadLettered(n)
  /\ row[n].status = "sent" => verdict[n] = "accepted"
  /\ row[n].status = "failed" => verdict[n] \in Rejections \/ DeadLettered(n)
  /\ row[n].status = "suppressed" => made[n] = 0
  /\ row[n].status \in {"sent", "failed"} => row[n].attempts = made[n]

\* The address of a bounce is listed before the row is marked.
Listed(n) ==
  /\ pc[n] = "mark_failed" => Suppressable(n)
  /\ pc[n] \in {"mark_failed", "done"} /\ Suppressable(n) => Address[n] \in suppressed

\* The tokens still to be deactivated, and that none is left out when no update fails.
TokensGo(n) ==
  /\ todo[n] \subseteq Tokens[n]
  /\ todo[n] # {} => verdict[n] \in {"accepted", "invalid_address"}
  /\ Push /\ verdict[n] = "invalid_address" /\ "db" \notin Faults =>
       /\ pc[n] = "failed" => Tokens[n] \cap active \subseteq todo[n]
       /\ pc[n] = "done" => Tokens[n] \cap active = {}

OutcomeInv(n) == Counts(n) /\ RowTells(n) /\ Listed(n) /\ TokensGo(n)

\* Nothing is listed or lost without a provider that said so.
Grounded ==
  /\ \A d \in dlq : d.attempts = made[d.notif]
  /\ \A a \in suppressed : \E n \in Notifs : Address[n] = a /\ Suppressable(n)
  /\ \A t \in AllTokens \ active :
       \E n \in Notifs : t \in Tokens[n] /\ verdict[n] \in {"accepted", "invalid_address"}

TablesInv == Grounded /\ \A n \in Notifs : OutcomeInv(n)

LEMMA InitTables == Init => TablesInv
BY DEF Init, TablesInv, Grounded, OutcomeInv, Counts, RowTells, Listed, TokensGo, None

\* What a step of one dispatch leaves of another.
Own(m) == <<pc[m], attempt[m], attempts[m], made[m], verdict[m], row[m], todo[m]>>

Onward == dlq \subseteq dlq' /\ suppressed \subseteq suppressed' /\ active' \subseteq active

LEMMA OutcomeFrame ==
  ASSUME NEW m \in Notifs, OutcomeInv(m), Own(m)' = Own(m), Onward
  PROVE  OutcomeInv(m)'
<1> USE DEF Own, Onward
<1>1. Counts(m)'
  BY DEF OutcomeInv, Counts
<1>2. RowTells(m)'
  BY DEF OutcomeInv, RowTells, DeadLettered
<1>3. Listed(m)'
  BY DEF OutcomeInv, Listed, Suppressable
<1>4. TokensGo(m)'
  BY DEF OutcomeInv, TokensGo
<1> QED
  BY <1>1, <1>2, <1>3, <1>4 DEF OutcomeInv

\* A step of n is n's: of the others it leaves everything, and it only adds to the
\* dead letters and the suppressions and takes from the tokens.
LEMMA StepFrame ==
  ASSUME TypeOK, NEW n \in Notifs, Step(n)
  PROVE  Onward /\ \A m \in Notifs \ {n} : Own(m)' = Own(m)
<1> USE DEF TypeOK, Goto, Onward, Own, local, tables
<1>1. CASE CheckSuppression(n) \/ LookupFails(n)
  BY <1>1 DEF CheckSuppression, LookupFails
<1>2. CASE Select(n) \/ NoProviderLeft(n) \/ Gate(n) \/ GiveUp(n)
  BY <1>2 DEF Select, NoProviderLeft, Gate, GiveUp
<1>3. CASE Accepted(n) \/ Rejected(n)
  BY <1>3 DEF Accepted, Rejected, Call, Conclude
<1>4. CASE RetryableFailure(n)
  BY <1>4 DEF RetryableFailure, Call, Conclude
<1>5. CASE Deactivate(n)
  BY <1>5 DEF Deactivate
<1>6. CASE MarkSuppressed(n) \/ MarkSent(n) \/ MarkRejected(n) \/ MarkDead(n)
  BY <1>6 DEF MarkSuppressed, MarkSent, MarkRejected, MarkDead, Mark
<1>7. CASE SuppressAddress(n)
  BY <1>7 DEF SuppressAddress
<1>8. CASE DeadLetter(n)
  BY <1>8 DEF DeadLetter
<1> QED
  BY <1>1, <1>2, <1>3, <1>4, <1>5, <1>6, <1>7, <1>8 DEF Step

\* The steps that move a dispatch on, and touch nothing that the tables tell.
LEMMA MoveOutcome ==
  ASSUME DispatchInv, NEW n \in Notifs, OutcomeInv(n), Step(n),
         CheckSuppression(n) \/ LookupFails(n) \/ Select(n) \/ NoProviderLeft(n) \/ Gate(n)
           \/ GiveUp(n)
  PROVE  OutcomeInv(n)'
<1>1. /\ pc[n] \in {"idle", "select", "gate", "give_up"}
      /\ pc'[n] \in {"mark_suppressed", "select", "gate", "deliver", "dead_letter", "error"}
      /\ pc'[n] = "mark_suppressed" => pc[n] = "idle"
      /\ verdict'[n] \in {verdict[n], "suppressed"}
      /\ UNCHANGED <<attempt, attempts, todo, made, row, dlq, suppressed, active>>
  BY DEF CheckSuppression, LookupFails, Select, NoProviderLeft, Gate, GiveUp, Goto,
         DispatchInv, TypeOK, local, tables
<1>2. verdict[n] = None /\ row[n].status = "pending" /\ todo[n] = {}
  BY <1>1 DEF DispatchInv, NotifInv, Undecided, OutcomeInv, RowTells, TokensGo, None
<1>3. Counts(n)'
  BY <1>1 DEF OutcomeInv, Counts
<1>4. RowTells(n)' /\ Listed(n)' /\ TokensGo(n)'
  BY <1>1, <1>2 DEF OutcomeInv, RowTells, Listed, TokensGo, None
<1> QED
  BY <1>3, <1>4 DEF OutcomeInv

\* A deliver() call, whatever it is answered.
LEMMA CallOutcome ==
  ASSUME DispatchInv, NEW n \in Notifs, OutcomeInv(n),
         Accepted(n) \/ Rejected(n) \/ RetryableFailure(n)
  PROVE  OutcomeInv(n)'
<1>1. /\ pc[n] = "deliver" /\ made'[n] = made[n] + 1
      /\ UNCHANGED <<row, dlq, suppressed, active>>
  BY DEF Accepted, Rejected, RetryableFailure, Call, Goto, DispatchInv, TypeOK, tables
<1>2. /\ verdict[n] = None /\ todo[n] = {} /\ row[n].status = "pending"
      /\ made[n] = attempts[n] + attempt[n]
      /\ made[n] \in Nat /\ attempts[n] \in Nat /\ attempt[n] \in Nat
  BY <1>1, DispatchAssumption
     DEF DispatchInv, TypeOK, NotifInv, Undecided, OutcomeInv, Counts, RowTells, TokensGo, None
<1>3. ASSUME NEW v, Conclude(n, v)
      PROVE  verdict'[n] = v /\ attempts'[n] = made[n] + 1 /\ attempt'[n] = 0
  BY <1>2, <1>3 DEF Conclude, DispatchInv, TypeOK
<1>4. CASE Accepted(n)
  <2>1. pc'[n] = "succeeded" /\ todo'[n] \subseteq Tokens[n] /\ verdict'[n] = "accepted"
        /\ attempts'[n] = made[n] + 1 /\ attempt'[n] = 0
    BY <1>3, <1>4 DEF Accepted, Goto, DispatchInv, TypeOK
  <2> QED
    BY <1>1, <1>2, <2>1 DEF OutcomeInv, Counts, RowTells, Listed, TokensGo, Suppressable
<1>5. CASE Rejected(n)
  <2>1. PICK v \in {"rejected", "bounced", "invalid_address"} :
          /\ Conclude(n, v)
          /\ todo' = [todo EXCEPT ![n] = IF Push /\ v = "invalid_address" THEN Tokens[n] ELSE {}]
    BY <1>5 DEF Rejected
  <2>2. pc'[n] = "failed"
    BY <1>5 DEF Rejected, Goto, DispatchInv, TypeOK
  <2>3. todo'[n] = IF Push /\ v = "invalid_address" THEN Tokens[n] ELSE {}
    BY <2>1 DEF DispatchInv, TypeOK
  <2>4. verdict'[n] = v /\ attempts'[n] = made[n] + 1 /\ attempt'[n] = 0
    BY <1>3, <2>1
  <2> QED
    BY <1>1, <1>2, <2>2, <2>3, <2>4 DEF OutcomeInv, Counts, RowTells, Listed, TokensGo
<1>6. CASE RetryableFailure(n)
  <2>1. todo' = todo /\ verdict'[n] = None
    BY <1>2, <1>3, <1>6 DEF RetryableFailure
  <2>2. \/ pc' = pc /\ attempts' = attempts /\ attempt'[n] = attempt[n] + 1
        \/ pc'[n] = "give_up" /\ attempts'[n] = made[n] + 1 /\ attempt'[n] = 0
    BY <1>3, <1>6 DEF RetryableFailure, Goto, DispatchInv, TypeOK
  <2>3. Counts(n)'
    BY <1>1, <1>2, <2>2 DEF Counts
  <2> QED
    BY <1>1, <1>2, <2>1, <2>2, <2>3 DEF OutcomeInv, RowTells, Listed, TokensGo, None
<1> QED
  BY <1>4, <1>5, <1>6

\* The end of a dispatch: the row is written, or it is not.
LEMMA MarkOutcome ==
  ASSUME DispatchInv, NEW n \in Notifs, OutcomeInv(n),
         MarkSuppressed(n) \/ MarkSent(n) \/ MarkRejected(n) \/ MarkDead(n)
  PROVE  OutcomeInv(n)'
<1>1. UNCHANGED <<local, dlq, suppressed, active, made>> /\ pc'[n] = "done"
  BY DEF MarkSuppressed, MarkSent, MarkRejected, MarkDead, Mark, Goto, DispatchInv, TypeOK
<1>u. UNCHANGED <<attempt, attempts, todo, verdict>>
  BY <1>1 DEF local
<1>2. /\ pc[n] \in {"mark_suppressed", "succeeded", "failed", "mark_failed", "mark_dead"}
      /\ pc[n] = "succeeded" => todo[n] = {}
      /\ pc[n] = "failed" => todo[n] = {} /\ ~Suppressable(n)
  BY DEF MarkSuppressed, MarkSent, MarkRejected, MarkDead, Mark, Goto
<1>3. \/ row'[n] = row[n]
      \/ pc[n] = "mark_suppressed" /\ row'[n].status = "suppressed"
      \/ pc[n] = "succeeded" /\ row'[n] = [status |-> "sent", attempts |-> attempts[n]]
      \/ /\ pc[n] \in {"failed", "mark_failed", "mark_dead"}
         /\ row'[n] = [status |-> "failed", attempts |-> attempts[n]]
  BY DEF MarkSuppressed, MarkSent, MarkRejected, MarkDead, Mark, Goto, DispatchInv, TypeOK
<1>4. made[n] = attempts[n]
  BY <1>2, DispatchAssumption DEF OutcomeInv, Counts, DispatchInv, TypeOK
<1>5. Counts(n)'
  BY <1>1, <1>2, <1>u DEF OutcomeInv, Counts
<1>6. row[n].status = "pending"
  BY <1>2 DEF OutcomeInv, RowTells
<1>7. /\ pc[n] = "succeeded" => verdict[n] = "accepted"
      /\ pc[n] \in {"failed", "mark_failed"} => verdict[n] \in Rejections
      /\ pc[n] = "mark_suppressed" => verdict[n] = "suppressed" /\ made[n] = 0
      /\ pc[n] = "mark_dead" => DeadLettered(n) /\ verdict[n] = None
  BY DEF DispatchInv, NotifInv, DeadLetterInv, DeadLettered, OutcomeInv, Counts, RowTells
<1>8. RowTells(n)'
  <2>1. DeadLettered(n)' <=> DeadLettered(n)
    BY <1>1 DEF DeadLettered
  <2> QED
    BY <1>1, <1>u, <1>3, <1>4, <1>6, <1>7, <2>1 DEF RowTells
<1>9. Listed(n)'
  BY <1>1, <1>u, <1>2, <1>7 DEF OutcomeInv, Listed, Suppressable, None
<1>10. TokensGo(n)'
  BY <1>1, <1>u, <1>2, <1>7 DEF OutcomeInv, TokensGo, Listed, Suppressable, None
<1> QED
  BY <1>5, <1>8, <1>9, <1>10 DEF OutcomeInv

LEMMA StepOutcome ==
  ASSUME DispatchInv, NEW n \in Notifs, OutcomeInv(n), Step(n)
  PROVE  OutcomeInv(n)'
<1>1. CASE Deactivate(n)
  <2>1. PICK t \in todo[n] :
          /\ todo'[n] = todo[n] \ {t}
          /\ active' \subseteq active
          /\ "db" \notin Faults => active' = active \ {t}
    BY <1>1 DEF Deactivate, DbOutcomes, DispatchInv, TypeOK
  <2>2. /\ pc[n] \in {"succeeded", "failed"}
        /\ UNCHANGED <<pc, attempt, attempts, verdict, row, dlq, suppressed, made>>
    BY <1>1 DEF Deactivate
  <2>3. TokensGo(n)'
    BY <2>1, <2>2 DEF OutcomeInv, TokensGo
  <2> QED
    BY <2>2, <2>3 DEF OutcomeInv, Counts, RowTells, DeadLettered, Listed, Suppressable
<1>2. CASE SuppressAddress(n)
  <2>1. /\ pc[n] = "failed" /\ Suppressable(n)
        /\ \/ pc'[n] = "mark_failed" /\ Address[n] \in suppressed'
           \/ pc'[n] = "error"
        /\ UNCHANGED <<local, row, dlq, active, made>>
    BY <1>2 DEF SuppressAddress, Goto, DispatchInv, TypeOK
  <2>u. UNCHANGED <<attempt, attempts, todo, verdict>>
    BY <2>1 DEF local
  <2>2. Listed(n)'
    BY <2>1, <2>u DEF Listed, Suppressable
  <2> QED
    BY <2>1, <2>2, <2>u DEF OutcomeInv, Counts, RowTells, TokensGo
<1>3. CASE DeadLetter(n)
  <2>1. /\ pc[n] = "dead_letter"
        /\ \/ pc'[n] = "mark_dead" /\ DeadLettered(n)'
           \/ pc'[n] = "error" /\ dlq' = dlq
        /\ UNCHANGED <<local, row, suppressed, active, made>>
    <3>1. [notif |-> n, attempts |-> attempts[n]].notif = n
      OBVIOUS
    <3> QED
      BY <1>3, <3>1 DEF DeadLetter, Goto, DispatchInv, TypeOK, DeadLettered
  <2>u. UNCHANGED <<attempt, attempts, todo, verdict>>
    BY <2>1 DEF local
  <2> QED
    BY <2>1, <2>u DEF OutcomeInv, Counts, RowTells, Listed, TokensGo
<1> QED
  BY <1>1, <1>2, <1>3, MoveOutcome, CallOutcome, MarkOutcome DEF Step

\* A verdict is given once.
LEMMA VerdictStays ==
  ASSUME DispatchInv, NEW n \in Notifs, Step(n), NEW m \in Notifs, verdict[m] # None
  PROVE  verdict'[m] = verdict[m]
<1>1. CASE m # n
  BY <1>1, StepFrame DEF DispatchInv, Own
<1>2. CASE m = n
  <2>1. pc[n] \notin {"idle", "deliver"}
    BY <1>2 DEF DispatchInv, NotifInv, Undecided
  <2> QED
    BY <1>2, <2>1
       DEF Step, CheckSuppression, LookupFails, Select, NoProviderLeft, Gate, Accepted, Rejected,
           RetryableFailure, GiveUp, Deactivate, MarkSuppressed, MarkSent, SuppressAddress,
           MarkRejected, DeadLetter, MarkDead, Mark, Goto, local
<1> QED
  BY <1>1, <1>2

\* What was listed or lost stays grounded, and what is new is.
LEMMA StepGrounded ==
  ASSUME DispatchInv, TablesInv, NEW n \in Notifs, Step(n)
  PROVE  Grounded'
<1>1. \A m \in Notifs : verdict[m] # None => verdict'[m] = verdict[m]
  BY VerdictStays
<1>2. \A d \in dlq' : d.attempts = made'[d.notif]
  <2>1. ASSUME NEW d \in dlq PROVE d.attempts = made'[d.notif]
    <3>1. d.notif \in Notifs /\ pc[d.notif] \in {"mark_dead", "done", "gone"}
      BY DEF DispatchInv, DeadLetterInv, TypeOK
    <3>2. d.attempts = made[d.notif]
      BY DEF TablesInv, Grounded
    <3>3. CASE d.notif = n
      BY <3>1, <3>2, <3>3
         DEF Step, CheckSuppression, LookupFails, Select, NoProviderLeft, Gate, Accepted, Rejected,
             RetryableFailure, GiveUp, Deactivate, MarkSuppressed, MarkSent, SuppressAddress,
             MarkRejected, DeadLetter, MarkDead, Mark, Goto
    <3>4. CASE d.notif # n
      BY <3>1, <3>2, <3>4, StepFrame DEF DispatchInv, Own
    <3> QED
      BY <3>3, <3>4
  <2>2. CASE DeadLetter(n) /\ dlq' # dlq
    <3> DEFINE letter == [notif |-> n, attempts |-> attempts[n]]
    <3>1. dlq' = dlq \cup {letter} /\ pc[n] = "dead_letter" /\ made' = made
      BY <2>2 DEF DeadLetter, Goto
    <3>2. attempts[n] \in Nat
      BY DEF DispatchInv, TypeOK
    <3>3. made[n] = attempts[n]
      BY <3>1, <3>2 DEF TablesInv, OutcomeInv, Counts
    <3> QED
      BY <2>1, <3>1, <3>3
  <2>3. CASE ~(DeadLetter(n) /\ dlq' # dlq)
    <3>1. dlq' = dlq
      BY <2>3
         DEF Step, CheckSuppression, LookupFails, Select, NoProviderLeft, Gate, Accepted, Rejected,
             RetryableFailure, GiveUp, Deactivate, MarkSuppressed, MarkSent, SuppressAddress,
             MarkRejected, MarkDead, Mark, tables
    <3> QED
      BY <2>1, <3>1
  <2> QED
    BY <2>2, <2>3
<1>3. \A a \in suppressed' : \E m \in Notifs : Address[m] = a /\ Suppressable(m)'
  <2>1. ASSUME NEW m \in Notifs, Suppressable(m) PROVE Suppressable(m)'
    BY <1>1, <2>1 DEF Suppressable, None
  <2>2. \A a \in suppressed : \E m \in Notifs : Address[m] = a /\ Suppressable(m)'
    BY <2>1 DEF TablesInv, Grounded
  <2>3. CASE SuppressAddress(n)
    BY <2>1, <2>2, <2>3 DEF SuppressAddress
  <2>4. CASE ~SuppressAddress(n)
    <3>1. suppressed' = suppressed
      BY <2>4
         DEF Step, CheckSuppression, LookupFails, Select, NoProviderLeft, Gate, Accepted, Rejected,
             RetryableFailure, GiveUp, Deactivate, MarkSuppressed, MarkSent, DeadLetter,
             MarkRejected, MarkDead, Mark, tables
    <3> QED
      BY <2>2, <3>1
  <2> QED
    BY <2>3, <2>4
<1>4. \A t \in AllTokens \ active' :
        \E m \in Notifs : t \in Tokens[m] /\ verdict'[m] \in {"accepted", "invalid_address"}
  <2>1. \A t \in AllTokens \ active :
          \E m \in Notifs : t \in Tokens[m] /\ verdict'[m] \in {"accepted", "invalid_address"}
    BY <1>1 DEF TablesInv, Grounded, None
  <2>2. CASE Deactivate(n)
    <3>1. PICK t \in todo[n] : active \ {t} \subseteq active' /\ verdict' = verdict
      BY <2>2 DEF Deactivate
    <3>2. t \in Tokens[n] /\ verdict'[n] \in {"accepted", "invalid_address"}
      BY <3>1 DEF TablesInv, OutcomeInv, TokensGo
    <3> QED
      BY <2>1, <3>1, <3>2
  <2>3. CASE ~Deactivate(n)
    <3>1. active' = active
      BY <2>3
         DEF Step, CheckSuppression, LookupFails, Select, NoProviderLeft, Gate, Accepted, Rejected,
             RetryableFailure, GiveUp, SuppressAddress, MarkSuppressed, MarkSent, DeadLetter,
             MarkRejected, MarkDead, Mark, tables
    <3> QED
      BY <2>1, <3>1
  <2> QED
    BY <2>2, <2>3
<1> QED
  BY <1>2, <1>3, <1>4 DEF Grounded

LEMMA NextTables == DispatchInv /\ TablesInv /\ [Next]_vars => TablesInv'
<1> SUFFICES ASSUME DispatchInv, TablesInv, [Next]_vars PROVE TablesInv'
  OBVIOUS
<1>1. ASSUME NEW n \in Notifs, Step(n) PROVE TablesInv'
  <2>1. ASSUME NEW m \in Notifs \ {n} PROVE OutcomeInv(m)'
    BY <1>1, StepFrame, OutcomeFrame DEF DispatchInv, TablesInv
  <2>2. OutcomeInv(n)'
    BY <1>1, StepOutcome DEF TablesInv
  <2> QED
    BY <1>1, <2>1, <2>2, StepGrounded DEF TablesInv
<1>2. CASE Crash \/ UNCHANGED vars
  <2>1. /\ UNCHANGED <<attempt, attempts, todo, verdict, row, dlq, suppressed, active, made>>
        /\ \A n \in Notifs : pc'[n] = pc[n] \/ (pc[n] \notin {"idle", "done"} /\ pc'[n] = "gone")
    BY <1>2 DEF Crash, vars, local, tables, DispatchInv, TypeOK
  <2>2. Grounded'
    BY <2>1 DEF TablesInv, Grounded, Suppressable
  <2>3. ASSUME NEW n \in Notifs PROVE OutcomeInv(n)'
    <3>1. OutcomeInv(n)
      BY DEF TablesInv
    <3> QED
      BY <2>1, <3>1
         DEF OutcomeInv, Counts, RowTells, DeadLettered, Listed, Suppressable, TokensGo
  <2> QED
    BY <2>2, <2>3 DEF TablesInv
<1> QED
  BY <1>1, <1>2 DEF Next

LEMMA TablesInvariant == Spec => []TablesInv
BY InitTables, NextTables, DispatchInvariant, PTL DEF Spec

\* RecordsTellTheTruth: rows and dead letters say what happened to a notification, and
\* report as many attempts as deliver() calls were made, whichever writes failed and
\* whenever the process died (packages/core/src/dispatch/dispatch.ts:95-420).
THEOREM RecordsAreTrue == Spec => []RecordsTellTheTruth
<1>1. TablesInv => RecordsTellTheTruth
  BY DEF TablesInv, Grounded, OutcomeInv, RowTells, RecordsTellTheTruth
<1> QED
  BY <1>1, TablesInvariant, PTL

\* BouncesSuppress: on a channel other than push the list holds exactly the addresses
\* that bounced (packages/core/src/dispatch/dispatcher.ts:247-272).
THEOREM BouncesAreListed == Spec => []BouncesSuppress
<1>1. ASSUME TablesInv, ~Push PROVE BouncesSuppress
  <2>1. \A n \in Notifs : verdict[n] \in {"bounced", "invalid_address"} <=> Suppressable(n)
    BY <1>1 DEF Suppressable
  <2>2. \A n \in Notifs :
          pc[n] \in {"mark_failed", "done"} /\ verdict[n] \in {"bounced", "invalid_address"}
            => Address[n] \in suppressed
    BY <1>1, <2>1 DEF TablesInv, OutcomeInv, Listed
  <2>3. \A a \in suppressed :
          \E n \in Notifs : Address[n] = a /\ verdict[n] \in {"bounced", "invalid_address"}
    BY <1>1, <2>1 DEF TablesInv, Grounded
  <2> QED
    BY <2>2, <2>3 DEF BouncesSuppress
<1>2. TablesInv => BouncesSuppress
  BY <1>1 DEF BouncesSuppress
<1> QED
  BY <1>2, TablesInvariant, PTL

\* DeadTokensGo: an invalid push address costs the subscriber's tokens, all of them when
\* no update fails, and suppresses nobody; no other token is lost but those that an
\* accepting provider named (packages/core/src/dispatch/dispatcher.ts:207-263).
THEOREM DeadTokensAreGone == Spec => []DeadTokensGo
<1>1. ASSUME TablesInv, Push PROVE DeadTokensGo
  <2>1. \A n \in Notifs :
          verdict[n] = "invalid_address" /\ pc[n] = "done" /\ "db" \notin Faults
            => Tokens[n] \cap active = {}
    BY <1>1 DEF TablesInv, OutcomeInv, TokensGo
  <2>2. \A a \in suppressed :
          \E n \in Notifs : Address[n] = a /\ verdict[n] \notin {"accepted", "invalid_address"}
    BY <1>1 DEF TablesInv, Grounded, Suppressable
  <2> QED
    BY <1>1, <2>1, <2>2 DEF DeadTokensGo, TablesInv, Grounded
<1>2. TablesInv => DeadTokensGo
  BY <1>1 DEF DeadTokensGo
<1> QED
  BY <1>2, TablesInvariant, PTL

\* From its suppression on a dispatch has nowhere to go but to its end.
Quiet(n) ==
  /\ made[n] = 0 /\ Address[n] \in suppressed
  /\ pc[n] \in {"idle", "mark_suppressed", "done", "error", "gone"}

LEMMA QuietStays ==
  ASSUME TypeOK, NEW n \in Notifs, Quiet(n), [Next]_vars PROVE Quiet(n)'
<1>1. ASSUME NEW m \in Notifs \ {n}, Step(m) PROVE Quiet(n)'
  BY <1>1, StepFrame DEF Quiet, Own, Onward
<1>2. CASE Step(n)
  BY <1>2 DEF Quiet, TypeOK, Step, CheckSuppression, LookupFails, Select, NoProviderLeft, Gate,
     Accepted, Rejected, RetryableFailure, GiveUp, Deactivate, MarkSuppressed, MarkSent,
     SuppressAddress, MarkRejected, DeadLetter, MarkDead, Mark, Goto, tables
<1>3. CASE Crash \/ UNCHANGED vars
  BY <1>3 DEF Quiet, Crash, vars, tables, TypeOK
<1> QED
  BY <1>1, <1>2, <1>3 DEF Next

\* SuppressedStaysSilent: whoever put the address on the list, and whatever fails after,
\* a dispatch that starts then reaches no provider.
THEOREM SuppressedIsSilent == Spec => SuppressedStaysSilent
<1> DEFINE Starts(n) == pc[n] = "idle" /\ Address[n] \in suppressed
           Silent(n) == Starts(n) => [](made[n] = 0)
<1>1. ASSUME NEW n \in Notifs PROVE Spec => []Silent(n)
  <2>1. TablesInv /\ Starts(n) => Quiet(n)
    BY DEF TablesInv, OutcomeInv, Counts, Quiet
  <2>2. TypeOK /\ Quiet(n) /\ [Next]_vars => Quiet(n)'
    BY QuietStays
  <2>3. Quiet(n) => made[n] = 0
    BY DEF Quiet
  <2> QED
    BY <2>1, <2>2, <2>3, TablesInvariant, TypeCorrect, PTL DEF Spec
<1> QED
  BY <1>1 DEF SuppressedStaysSilent
=============================================================================
