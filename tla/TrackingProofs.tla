----------------------------- MODULE TrackingProofs -----------------------------
(***************************************************************************)
(* For any number of notifications, addresses, requests and faults: rows    *)
(* follow the status machine unless requests raced for them, and a bounced  *)
(* or complained row has its address on the suppression list.               *)
(***************************************************************************)
EXTENDS Tracking, TLAPS

LEMMA InitTrackingInv == Init => TrackingInv
BY DEF Init, TrackingInv, TypeOK, CondemnedIsSuppressed, Status, Jobs, NoJob

\* A row that a request may write has left the pending status.
LEMMA PendingUnreported ==
  ASSUME NEW s \in Reportable \cup Traced, CanTransition("pending", s)
  PROVE  s \in {"sent", "failed"}
BY DEF CanTransition, Successors, Reportable, Traced

\* A pending row cannot be opened or clicked.
LEMMA FetchKnown ==
  ASSUME TrackingInv, NEW r \in Requests, NEW n \in Notifications, NEW s \in Traced,
         Fetch(r, n, s)
  PROVE  n \in known
<1>1. CanTransition(status[n], s)
  BY DEF Fetch
<1>2. ~CanTransition("pending", s)
  BY PendingUnreported DEF Traced
<1> QED
  BY <1>1, <1>2 DEF TrackingInv

\* The row that is marked as sent was pending: no request holds it.
LEMMA MarkSentInv ==
  ASSUME TrackingInv, NEW n \in Notifications, MarkSent(n)
  PROVE  TrackingInv'
<1>1. /\ n \notin known /\ known' = known \cup {n}
      /\ status'[n] = "sent"
      /\ \A m \in Notifications \ {n} : status'[m] = status[m]
      /\ UNCHANGED <<fate, reports, pc, job, suppressed, raced, unseen, abandoned>>
  BY DEF MarkSent, TrackingInv, TypeOK
<1>2. TypeOK'
  BY DEF MarkSent, TrackingInv, TypeOK, Status
<1>3. \A r \in Requests : pc[r] # "idle" => job[r][1] # n
  BY <1>1 DEF TrackingInv
<1>4. \A r \in Requests : pc[r] # "idle" => job[r][1] \in Notifications
  BY DEF TrackingInv, TypeOK, Jobs
<1>5. ASSUME NEW r \in Requests, pc'[r] = "write" /\ job'[r][1] \notin raced'
      PROVE  CanTransition(status'[job'[r][1]], job'[r][2])
  <2>1. status'[job[r][1]] = status[job[r][1]] /\ job' = job
    BY <1>1, <1>3, <1>4, <1>5
  <2>2. CanTransition(status[job[r][1]], job[r][2])
    BY <1>1, <1>5 DEF TrackingInv
  <2> QED
    BY <2>1, <2>2
<1>6. CondemnedIsSuppressed'
  BY <1>1 DEF TrackingInv, CondemnedIsSuppressed
<1> QED
  BY <1>1, <1>2, <1>5, <1>6 DEF TrackingInv

\* A report changes nothing that the server keeps.
LEMMA ReportInv ==
  ASSUME TrackingInv, NEW n \in Notifications, Report(n)
  PROVE  TrackingInv'
<1>1. \A f : Outcomes(f) \subseteq Reportable
  BY DEF Outcomes, Reportable
<1>2. TypeOK'
  BY <1>1 DEF Report, TrackingInv, TypeOK
<1> QED
  BY <1>2 DEF Report, TrackingInv, CondemnedIsSuppressed, CanTransition

\* Who reads a row that it may change is either alone with it, or races for it.
LEMMA BeginInv ==
  ASSUME TrackingInv, NEW r \in Requests, NEW n \in known, NEW s \in Reportable \cup Traced,
         pc[r] = "idle", CanTransition(status[n], s), Begin(r, n, s),
         UNCHANGED <<status, known, fate, reports, suppressed, unseen, abandoned>>
  PROVE  TrackingInv'
<1>1. /\ pc'[r] = "write" /\ job'[r] = <<n, s>> /\ <<n, s>> \in Jobs
      /\ \A q \in Requests \ {r} : pc'[q] = pc[q] /\ job'[q] = job[q]
      /\ raced \subseteq raced'
      /\ n \notin raced' => \A q \in Requests : ~(pc[q] = "write" /\ job[q][1] = n)
  BY DEF Begin, TrackingInv, TypeOK, Jobs
<1>2. TypeOK'
  BY <1>1 DEF Begin, TrackingInv, TypeOK
<1>3. job'[r][1] = n /\ job'[r][2] = s
  BY <1>1
<1>4. ASSUME NEW q \in Requests, pc'[q] = "write", job'[q][1] \notin raced'
      PROVE  CanTransition(status'[job'[q][1]], job'[q][2])
  <2>1. CASE q = r
    BY <1>3, <2>1
  <2>2. CASE q # r
    BY <1>1, <1>4, <2>2 DEF TrackingInv
  <2> QED
    BY <2>1, <2>2
<1>5. ASSUME NEW p \in Requests, NEW q \in Requests, pc'[p] = "write", pc'[q] = "write",
             job'[p][1] = job'[q][1], job'[p][1] \notin raced'
      PROVE  p = q
  BY <1>1, <1>3, <1>5 DEF TrackingInv
<1>6. CondemnedIsSuppressed'
  BY <1>1 DEF TrackingInv, CondemnedIsSuppressed
<1>7. \A q \in Requests : pc'[q] # "idle" => job'[q][1] \in known'
  BY <1>1, <1>3 DEF TrackingInv
<1> QED
  BY <1>2, <1>4, <1>5, <1>6, <1>7 DEF TrackingInv

LEMMA ReceiveInv ==
  ASSUME TrackingInv, NEW r \in Requests, NEW n \in Notifications, NEW s \in Reportable,
         Receive(r, n, s)
  PROVE  TrackingInv'
<1>1. CASE n \in known /\ CanTransition(status[n], s) /\ Begin(r, n, s) /\ UNCHANGED <<reports, unseen>>
  BY <1>1, BeginInv DEF Receive
<1>2. CASE UNCHANGED <<pc, job, raced>> /\ Acknowledge(n, s)
           /\ (unseen' = unseen \/ unseen' = unseen \cup {n})
  <2>1. TypeOK'
    BY <1>2 DEF Receive, TrackingInv, TypeOK, Acknowledge
  <2>2. UNCHANGED <<status, known, pc, job, suppressed, raced, abandoned>>
    BY <1>2 DEF Receive
  <2> QED
    BY <2>1, <2>2 DEF TrackingInv, CondemnedIsSuppressed, CanTransition
<1> QED
  BY <1>1, <1>2 DEF Receive

LEMMA FetchInv ==
  ASSUME TrackingInv, NEW r \in Requests, NEW n \in Notifications, NEW s \in Traced,
         Fetch(r, n, s)
  PROVE  TrackingInv'
BY FetchKnown, BeginInv DEF Fetch

\* The end of a request leaves the others where they were.
LEMMA EndEffect ==
  ASSUME TypeOK, NEW r \in Requests, End(r)
  PROVE  /\ pc'[r] = "idle" /\ \A q \in Requests \ {r} : pc'[q] = pc[q] /\ job'[q] = job[q]
         /\ pc' \in [Requests -> {"idle", "write", "suppress"}]
         /\ job' \in [Requests -> Jobs \cup {NoJob}]
BY DEF End, TypeOK

\* A request that writes a row nobody raced for is the only one to hold it; the
\* row is bounced or complained only if the request goes on to suppress.
LEMMA WriteStatusInv ==
  ASSUME TrackingInv, NEW r \in Requests, WriteStatus(r)
  PROVE  TrackingInv'
<1> DEFINE n == job[r][1]
           s == job[r][2]
<1>1. /\ pc[r] = "write" /\ n \in Notifications /\ n \in known /\ s \in Reportable \cup Traced
      /\ status'[n] = s
      /\ \A m \in Notifications \ {n} : status'[m] = status[m]
      /\ status' \in [Notifications -> Status]
      /\ UNCHANGED <<known, fate, suppressed, raced, unseen, abandoned>>
  BY DEF WriteStatus, TrackingInv, TypeOK, Jobs, Reportable, Traced, Status
<1>2. /\ \A q \in Requests \ {r} : pc'[q] = pc[q] /\ job'[q] = job[q]
      /\ \/ pc'[r] = "idle"
         \/ pc'[r] = "suppress" /\ job'[r] = job[r]
      /\ s \in {"bounced", "complained"} => pc'[r] = "suppress"
      /\ pc'[r] = "suppress" => s \in {"bounced", "complained"}
      /\ pc' \in [Requests -> {"idle", "write", "suppress"}]
      /\ job' \in [Requests -> Jobs \cup {NoJob}]
      /\ reports' \subseteq reports
  <2>1. CASE s \in SuppressingReports /\ pc' = [pc EXCEPT ![r] = "suppress"]
             /\ UNCHANGED <<job, reports>>
    BY <2>1 DEF TrackingInv, TypeOK, SuppressingReports
  <2>2. CASE s \notin SuppressingReports /\ End(r) /\ reports' \subseteq reports
    <3>1. TypeOK /\ s \notin {"bounced", "complained"}
      BY <2>2 DEF TrackingInv, SuppressingReports
    <3>2. pc'[r] = "idle"
      BY <2>2, <3>1, EndEffect
    <3> QED
      BY <2>2, <3>1, <3>2, EndEffect
  <2> QED
    BY <2>1, <2>2 DEF WriteStatus, Acknowledge, SuppressingReports, Traced
<1>3. TypeOK'
  BY <1>1, <1>2 DEF TrackingInv, TypeOK
<1>4. ASSUME NEW q \in Requests, pc'[q] = "write", job'[q][1] \notin raced'
      PROVE  CanTransition(status'[job'[q][1]], job'[q][2])
  <2>1. q # r /\ pc[q] = "write" /\ job'[q] = job[q] /\ job[q][1] \notin raced
    BY <1>1, <1>2, <1>4
  <2>2. job[q][1] # n /\ job[q][1] \in Notifications
    BY <1>1, <2>1 DEF TrackingInv, TypeOK, Jobs
  <2> QED
    BY <1>1, <2>1, <2>2 DEF TrackingInv
<1>5. CondemnedIsSuppressed'
  <2> SUFFICES ASSUME NEW m \in Notifications, status'[m] \in {"bounced", "complained"}
               PROVE  \/ Recipient[m] \in suppressed'
                      \/ m \in abandoned'
                      \/ \E q \in Requests : pc'[q] = "suppress" /\ job'[q][1] = m
    BY DEF CondemnedIsSuppressed
  <2>1. CASE m = n
    BY <1>1, <1>2, <2>1
  <2>2. CASE m # n
    BY <1>1, <1>2, <2>2 DEF TrackingInv, CondemnedIsSuppressed
  <2> QED
    BY <2>1, <2>2
<1>6. \A m \in Notifications \ known' : status'[m] = "pending"
  BY <1>1 DEF TrackingInv
<1>7. \A q \in Requests : pc'[q] # "idle" => job'[q][1] \in known'
  BY <1>1, <1>2 DEF TrackingInv
<1>8. ASSUME NEW p \in Requests, NEW q \in Requests, pc'[p] = "write", pc'[q] = "write",
             job'[p][1] = job'[q][1], job'[p][1] \notin raced'
      PROVE  p = q
  BY <1>1, <1>2, <1>8 DEF TrackingInv
<1> QED
  BY <1>3, <1>4, <1>5, <1>6, <1>7, <1>8 DEF TrackingInv

\* A request that ends suppressed its address, or left a row to be excused.
LEMMA EndInv ==
  ASSUME TrackingInv, NEW r \in Requests, End(r), pc[r] # "idle",
         suppressed \subseteq suppressed', suppressed' \subseteq Addresses,
         abandoned \subseteq abandoned', abandoned' \subseteq Notifications,
         reports' \subseteq reports,
         pc[r] = "suppress" =>
           Recipient[job[r][1]] \in suppressed' \/ job[r][1] \in abandoned',
         UNCHANGED <<status, known, fate, raced, unseen>>
  PROVE  TrackingInv'
<1>1. /\ pc'[r] = "idle" /\ \A q \in Requests \ {r} : pc'[q] = pc[q] /\ job'[q] = job[q]
      /\ pc' \in [Requests -> {"idle", "write", "suppress"}]
      /\ job' \in [Requests -> Jobs \cup {NoJob}]
  BY EndEffect DEF TrackingInv
<1>2. TypeOK'
  BY <1>1 DEF TrackingInv, TypeOK
<1>3. CondemnedIsSuppressed'
  <2> SUFFICES ASSUME NEW m \in Notifications, status[m] \in {"bounced", "complained"}
               PROVE  \/ Recipient[m] \in suppressed'
                      \/ m \in abandoned'
                      \/ \E q \in Requests : pc'[q] = "suppress" /\ job'[q][1] = m
    BY DEF CondemnedIsSuppressed
  <2>1. CASE pc[r] = "suppress" /\ job[r][1] = m
    BY <2>1
  <2>2. CASE ~(pc[r] = "suppress" /\ job[r][1] = m)
    BY <1>1, <2>2 DEF TrackingInv, CondemnedIsSuppressed
  <2> QED
    BY <2>1, <2>2
<1>4. ASSUME NEW q \in Requests, pc'[q] = "write", job'[q][1] \notin raced'
      PROVE  CanTransition(status'[job'[q][1]], job'[q][2])
  BY <1>1, <1>4 DEF TrackingInv
<1>5. ASSUME NEW p \in Requests, NEW q \in Requests, pc'[p] = "write", pc'[q] = "write",
             job'[p][1] = job'[q][1], job'[p][1] \notin raced'
      PROVE  p = q
  BY <1>1, <1>5 DEF TrackingInv
<1>6. \A q \in Requests : pc'[q] # "idle" => job'[q][1] \in known'
  BY <1>1 DEF TrackingInv
<1> QED
  BY <1>2, <1>3, <1>4, <1>5, <1>6 DEF TrackingInv

LEMMA SuppressInv ==
  ASSUME TrackingInv, NEW r \in Requests, Suppress(r)
  PROVE  TrackingInv'
<1>1. job[r][1] \in Notifications /\ Recipient[job[r][1]] \in Addresses
  BY TrackingAssumption DEF Suppress, TrackingInv, TypeOK, Jobs
<1>2. reports' \subseteq reports /\ abandoned \subseteq Notifications /\ suppressed \subseteq Addresses
  BY DEF Suppress, Acknowledge, TrackingInv, TypeOK
<1>3. /\ End(r) /\ pc[r] # "idle" /\ suppressed' = suppressed \cup {Recipient[job[r][1]]}
      /\ UNCHANGED <<status, known, fate, raced, unseen, abandoned>>
  BY DEF Suppress
<1> QED
  BY <1>1, <1>2, <1>3, EndInv

LEMMA AbortInv ==
  ASSUME TrackingInv, NEW r \in Requests, Abort(r)
  PROVE  TrackingInv'
<1>1. job[r][1] \in Notifications /\ abandoned \subseteq Notifications /\ suppressed \subseteq Addresses
  BY DEF Abort, TrackingInv, TypeOK, Jobs
<1> QED
  BY <1>1, EndInv DEF Abort

LEMMA NextTrackingInv == TrackingInv /\ [Next]_vars => TrackingInv'
<1> SUFFICES ASSUME TrackingInv, [Next]_vars PROVE TrackingInv'
  OBVIOUS
<1>1. CASE UNCHANGED vars
  BY <1>1 DEF vars, TrackingInv, TypeOK, CondemnedIsSuppressed, CanTransition
<1>2. CASE Next
  BY <1>2, MarkSentInv, ReportInv, WriteStatusInv, SuppressInv, AbortInv, ReceiveInv, FetchInv
     DEF Next, Serve
<1> QED
  BY <1>1, <1>2

THEOREM TrackingInvariant == Spec => []TrackingInv
BY InitTrackingInv, NextTrackingInv, PTL DEF Spec

\* TypeOK: every variable keeps its type, and only a bounce or a complaint
\* suppresses an address.
THEOREM TypeCorrect == Spec => []TypeOK
<1>1. TrackingInv => TypeOK
  BY DEF TrackingInv
<1> QED
  BY <1>1, TrackingInvariant, PTL

\* CondemnedIsSuppressed: an address whose bounce or complaint a row shows is on
\* the suppression list, about to be, or kept from it by a fault.
THEOREM Condemned == Spec => []CondemnedIsSuppressed
<1>1. TrackingInv => CondemnedIsSuppressed
  BY DEF TrackingInv
<1> QED
  BY <1>1, TrackingInvariant, PTL

\* StatusMovesLegally: the check on a status that was read holds for the status
\* that is replaced, unless two requests raced for the row.
THEOREM StatusLegal == Spec => StatusMovesLegally
<1> DEFINE Legal ==
      \A n \in Notifications \ raced :
        status'[n] # status[n] => CanTransition(status[n], status'[n])
<1>1. TrackingInv /\ [Next]_vars => [Legal]_vars
  <2> SUFFICES ASSUME TrackingInv, Next, NEW n \in Notifications \ raced,
                      status'[n] # status[n]
               PROVE  CanTransition(status[n], status'[n])
    OBVIOUS
  <2>1. ASSUME NEW m \in Notifications, MarkSent(m)
        PROVE  CanTransition(status[n], status'[n])
    <3>1. n = m /\ status'[n] = "sent" /\ status[n] = "pending"
      BY <2>1 DEF MarkSent, TrackingInv, TypeOK
    <3> QED
      BY <3>1 DEF CanTransition, Successors
  <2>2. ASSUME NEW r \in Requests, WriteStatus(r)
        PROVE  CanTransition(status[n], status'[n])
    <3>1. n = job[r][1] /\ status'[n] = job[r][2] /\ pc[r] = "write"
      BY <2>2 DEF WriteStatus, TrackingInv, TypeOK
    <3> QED
      BY <3>1 DEF TrackingInv
  <2>3. CASE UNCHANGED status
    BY <2>3
  <2> QED
    BY <2>1, <2>2, <2>3 DEF Next, Serve, Report, Receive, Fetch, Suppress, Abort
<1> QED
  BY <1>1, TrackingInvariant, PTL DEF Spec, StatusMovesLegally
=============================================================================
