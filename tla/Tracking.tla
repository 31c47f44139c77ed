-------------------------------- MODULE Tracking --------------------------------
(***************************************************************************)
(* What becomes of a notification after the provider took it: the reports   *)
(* that arrive at the webhook endpoint (packages/server/src/endpoints/      *)
(* webhooks), the opens and clicks of the tracking endpoints, the status    *)
(* machine they all go through (packages/core/src/tracking) and the         *)
(* suppression that a bounce or a complaint leads to.                       *)
(*                                                                         *)
(* Reports are delivered at least once and in any order; a request that is  *)
(* not answered is made again. A request reads the row, then writes it: in  *)
(* between, other requests and the dispatcher go on.                        *)
(***************************************************************************)
EXTENDS Naturals

CONSTANTS
  Notifications,   \* rows whose message a provider has accepted
  Addresses,
  Recipient,       \* the delivery address of each
  Requests,        \* requests served at the same time
  Faults           \* which of {"db", "crash"} happen

ASSUME TrackingAssumption ==
  /\ Recipient \in [Notifications -> Addresses]
  /\ Faults \subseteq {"db", "crash"}

VARIABLES
  status,      \* status column of each row
  known,       \* the rows that carry their providerMsgId
  fate,        \* what the provider knows of each message
  reports,     \* reports in flight, pairs <<notification, status>>
  pc, job,     \* where each request stands, and the report it works on
  suppressed,  \* addresses on the suppression list
  raced,       \* history: rows that two requests were about to write at once
  unseen,      \* history: rows whose bounce was acknowledged when none had its id
  abandoned    \* history: rows whose suppression a fault prevented

vars == <<status, known, fate, reports, pc, job, suppressed, raced, unseen, abandoned>>

Status ==
  {"pending", "sent", "delivered", "deferred", "bounced", "failed", "suppressed",
   "complained", "opened", "machine_opened", "clicked", "unsubscribed", "read",
   "digested", "blocked_by_preference", "blocked_by_consent", "blocked_by_admin"}

Reportable == {"sent", "delivered", "deferred", "bounced", "failed", "complained"}
Traced == {"opened", "machine_opened", "clicked"}

\* VALID_TRANSITIONS; the statuses that are not listed are final.
Successors(s) ==
  CASE s = "pending" -> {"sent", "failed", "suppressed", "digested", "blocked_by_preference",
                         "blocked_by_consent", "blocked_by_admin"}
    [] s = "sent" -> {"delivered", "deferred", "bounced", "failed", "complained"}
    [] s = "delivered" -> {"opened", "machine_opened", "clicked", "complained",
                           "unsubscribed", "read"}
    [] s = "deferred" -> {"sent", "delivered", "bounced", "failed"}
    [] s = "complained" -> {"unsubscribed"}
    [] s = "opened" -> {"clicked", "unsubscribed", "complained"}
    [] s = "machine_opened" -> {"opened", "clicked", "unsubscribed", "complained"}
    [] s = "clicked" -> {"unsubscribed", "complained"}
    [] s = "digested" -> {"pending", "sent", "failed"}
    [] OTHER -> {}

\* Mutant: a deferred message is not expected to bounce.
CanTransitionNoLateBounce(from, to) ==
  to \in Successors(from) /\ <<from, to>> # <<"deferred", "bounced">>

CanTransition(from, to) == to \in Successors(from)

\* Mutant: every failure condemns the address.
SuppressingFailures == {"bounced", "complained", "failed"}

\* Mutant: complaints are only recorded.
SuppressingBounces == {"bounced"}

\* STATUS_TO_ERROR_CODE: the reports that condemn an address.
SuppressingReports == {"bounced", "complained"}

Jobs == Notifications \X (Reportable \cup Traced)
NoJob == <<>>

\* What a provider may learn about a message next.
Outcomes(f) ==
  CASE f = "accepted" -> {"sent"}
    [] f = "sent" -> {"deferred", "delivered", "bounced", "failed"}
    [] f = "deferred" -> {"delivered", "bounced", "failed"}
    [] f = "delivered" -> {"complained"}
    [] OTHER -> {}

Init ==
  /\ status = [n \in Notifications |-> "pending"]
  /\ known = {}
  /\ fate = [n \in Notifications |-> "accepted"]
  /\ reports = {}
  /\ pc = [r \in Requests |-> "idle"]
  /\ job = [r \in Requests |-> NoJob]
  /\ suppressed = {} /\ raced = {} /\ unseen = {} /\ abandoned = {}

-----------------------------------------------------------------------------

\* dispatch() records that the message was sent, with the provider's id.
MarkSent(n) ==
  /\ n \notin known
  /\ known' = known \cup {n}
  /\ status' = [status EXCEPT ![n] = "sent"]
  /\ UNCHANGED <<fate, reports, pc, job, suppressed, raced, unseen, abandoned>>

\* The provider learns more about a message, and reports it.
Report(n) ==
  /\ \E outcome \in Outcomes(fate[n]) :
       /\ fate' = [fate EXCEPT ![n] = outcome]
       /\ reports' = reports \cup {<<n, outcome>>}
  /\ UNCHANGED <<status, known, pc, job, suppressed, raced, unseen, abandoned>>

\* The answer 200; the provider may have sent the report twice.
Acknowledge(n, s) == reports' \in {reports, reports \ {<<n, s>>}}

\* A request has read the row and goes on to write it.
Begin(r, n, s) ==
  /\ pc' = [pc EXCEPT ![r] = "write"]
  /\ job' = [job EXCEPT ![r] = <<n, s>>]
  /\ raced' = IF \E q \in Requests : pc[q] = "write" /\ job[q][1] = n
              THEN raced \cup {n} ELSE raced

\* Mutant: the status of the row is not looked at.
ReceiveUnchecked(r, n, s) ==
  /\ pc[r] = "idle" /\ <<n, s>> \in reports
  /\ n \in known
  /\ Begin(r, n, s)
  /\ UNCHANGED <<status, known, fate, reports, suppressed, unseen, abandoned>>

\* processEvent() up to the status check: a report is acknowledged without
\* effect when no row carries its id, and when the row cannot take the status.
Receive(r, n, s) ==
  /\ pc[r] = "idle" /\ <<n, s>> \in reports
  /\ \/ /\ n \in known /\ CanTransition(status[n], s)
        /\ Begin(r, n, s)
        /\ UNCHANGED <<reports, unseen>>
     \/ /\ n \notin known \/ ~CanTransition(status[n], s)
        /\ Acknowledge(n, s)
        /\ unseen' = IF n \notin known /\ s = "bounced" THEN unseen \cup {n} ELSE unseen
        /\ UNCHANGED <<pc, job, raced>>
  /\ UNCHANGED <<status, known, fate, suppressed, abandoned>>

\* The recipient's mail client fetches the pixel or a link; the endpoint reads
\* the row and gives up unless the status can follow.
Fetch(r, n, s) ==
  /\ pc[r] = "idle" /\ fate[n] \in {"delivered", "complained"} /\ s \in Traced
  /\ CanTransition(status[n], s)
  /\ Begin(r, n, s)
  /\ UNCHANGED <<status, known, fate, reports, suppressed, unseen, abandoned>>

\* The request is over.
End(r) ==
  /\ pc' = [pc EXCEPT ![r] = "idle"]
  /\ job' = [job EXCEPT ![r] = NoJob]

\* transitionStatus(): the UPDATE has no condition on the status it replaces.
WriteStatus(r) ==
  LET n == job[r][1]  s == job[r][2] IN
  /\ pc[r] = "write"
  /\ status' = [status EXCEPT ![n] = s]
  /\ \/ /\ s \in SuppressingReports
        /\ pc' = [pc EXCEPT ![r] = "suppress"]
        /\ UNCHANGED <<job, reports>>
     \/ s \in Reportable \ SuppressingReports /\ End(r) /\ Acknowledge(n, s)
     \/ s \in Traced /\ End(r) /\ UNCHANGED reports
  /\ UNCHANGED <<known, fate, suppressed, raced, unseen, abandoned>>

\* addSuppression(): the insert fails for an address that is listed already,
\* and the report is not acknowledged.
Suppress(r) ==
  LET n == job[r][1] IN
  /\ pc[r] = "suppress" /\ End(r)
  /\ suppressed' = suppressed \cup {Recipient[n]}
  /\ IF Recipient[n] \in suppressed THEN UNCHANGED reports
     ELSE Acknowledge(n, job[r][2])
  /\ UNCHANGED <<status, known, fate, raced, unseen, abandoned>>

\* A repository call throws or the process dies; the report stays unanswered.
Abort(r) ==
  /\ Faults # {} /\ pc[r] # "idle" /\ End(r)
  /\ abandoned' = IF pc[r] = "suppress" THEN abandoned \cup {job[r][1]} ELSE abandoned
  /\ UNCHANGED <<status, known, fate, reports, suppressed, raced, unseen>>

Serve(r) == WriteStatus(r) \/ Suppress(r)

Next ==
  \/ \E n \in Notifications : MarkSent(n) \/ Report(n)
  \/ \E r \in Requests :
       \/ Serve(r) \/ Abort(r)
       \/ \E n \in Notifications :
            \/ \E s \in Reportable : Receive(r, n, s)
            \/ \E s \in Traced : Fetch(r, n, s)

Spec == Init /\ [][Next]_vars

\* Requests run to their end; the provider repeats an unanswered bounce until a
\* request takes it, and its status update does not fail for ever.
FairSpec ==
  /\ Spec
  /\ \A r \in Requests : WF_vars(Serve(r))
  /\ \A n \in Notifications :
       /\ SF_vars(\E r \in Requests : Receive(r, n, "bounced"))
       /\ SF_vars(\E r \in Requests : job[r] = <<n, "bounced">> /\ WriteStatus(r))

-----------------------------------------------------------------------------
(* Properties.                                                             *)

\* Every variable keeps its type, and only a bounce or a complaint suppresses.
TypeOK ==
  /\ status \in [Notifications -> Status]
  /\ known \subseteq Notifications
  /\ fate \in [Notifications -> Reportable \cup {"accepted"}]
  /\ reports \subseteq Notifications \X Reportable
  /\ pc \in [Requests -> {"idle", "write", "suppress"}]
  /\ job \in [Requests -> Jobs \cup {NoJob}]
  /\ \A r \in Requests : pc[r] # "idle" => job[r] \in Jobs
  /\ suppressed \subseteq Addresses
  /\ raced \subseteq Notifications
  /\ unseen \subseteq Notifications
  /\ abandoned \subseteq Notifications
  /\ \A r \in Requests : pc[r] = "suppress" => job[r][2] \in {"bounced", "complained"}

\* A row that says bounced or complained has its address on the suppression
\* list, or a request is about to put it there, or a fault kept it from it:
\* whatever the order of the reports, and whoever else writes the row.
CondemnedIsSuppressed ==
  \A n \in Notifications :
    status[n] \in {"bounced", "complained"} =>
      \/ Recipient[n] \in suppressed
      \/ n \in abandoned
      \/ \E r \in Requests : pc[r] = "suppress" /\ job[r][1] = n

\* A row follows the status machine, so that an outcome that is final stays, as
\* long as no two requests had read it before either of them wrote it.
StatusMovesLegally ==
  [][\A n \in Notifications \ raced :
       status'[n] # status[n] => CanTransition(status[n], status'[n])]_vars

\* A bounce reaches the suppression list, unless its report came before the row
\* had its providerMsgId, or the suppression itself failed.
BounceSuppresses ==
  \A n \in Notifications :
    fate[n] = "bounced" ~>
      \/ Recipient[n] \in suppressed
      \/ n \in unseen
      \/ n \in abandoned

\* Why StatusMovesLegally holds: the only request about to write a row may do
\* so, and no report passes before the row carries its id.
TrackingInv ==
  /\ TypeOK
  /\ \A n \in Notifications \ known : status[n] = "pending"
  /\ \A r \in Requests : pc[r] # "idle" => job[r][1] \in known
  /\ \A r \in Requests :
       pc[r] = "write" /\ job[r][1] \notin raced => CanTransition(status[job[r][1]], job[r][2])
  /\ \A q, r \in Requests :
       /\ pc[q] = "write" /\ pc[r] = "write" /\ job[q][1] = job[r][1]
       /\ job[q][1] \notin raced
       => q = r
  /\ CondemnedIsSuppressed
=============================================================================
