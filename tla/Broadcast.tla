------------------------------- MODULE Broadcast -------------------------------
(***************************************************************************)
(* One scheduled broadcast to a list (packages/core/src/broadcast): taken   *)
(* from the schedule by a poll, executed page by page, resumed by instances *)
(* that start while its progress says running.                             *)
(*                                                                         *)
(* The schedule, the progress hash and the lock are in Redis, the members   *)
(* in the database (module Lists); every command and every query is a step. *)
(* The lock lives 300 seconds, carries no owner and is never renewed.       *)
(***************************************************************************)
EXTENDS Lists

CONSTANTS
  Executors,   \* instances; each polls, recovers and executes, one thing at a time
  PageSize,    \* BATCH_SIZE
  MaxFaults,   \* bound on crashes and failing commands
  None         \* no executor

ASSUME BroadcastAssumption ==
  PageSize \in Nat \ {0} /\ MaxFaults \in Nat /\ None \notin Executors

VARIABLES
  scheduled,   \* is the broadcast in the sorted set?
  progress,    \* the progress hash: status, offset (0 when empty), all fields there
  lock,        \* who set the lock key
  pc,          \* where each executor stands
  cursor,      \* createdAt to go on below, 0 when unset
  page,        \* members of the page still to be sent to
  faults,      \* crashes and failing commands so far
  sent,        \* history: sends tried for each member
  unsaved,     \* history: sends of an execution that its saved offset does not cover
  inDoubt,     \* history: members an executor left unsaved when it died
  steady,      \* history: members confirmed ever since the first execution began
  overtaken    \* history: the lock expired while its holder was at work, or a
               \* recovery acted on progress that had moved on

execVars == <<scheduled, progress, lock, pc, cursor, page>>
histVars == <<faults, sent, unsaved, inDoubt, steady, overtaken>>
vars == <<listVars, execVars, histVars>>

Init ==
  /\ ListInit
  /\ scheduled = TRUE
  /\ progress = [status |-> "none", offset |-> 0, complete |-> FALSE]
  /\ lock = None
  /\ pc = [e \in Executors |-> "idle"]
  /\ cursor = [e \in Executors |-> 0]
  /\ page = [e \in Executors |-> {}]
  /\ faults = 0
  /\ sent = [m \in Members |-> 0]
  /\ unsaved = [e \in Executors |-> {}]
  /\ inDoubt = {} /\ steady = {}
  /\ overtaken = FALSE

Locked == {"begin", "fill", "page", "send", "save", "complete", "unlock",
           "failing", "give_up"}

Working(e) == pc[e] \in Locked

\* The function returns, or its process is gone: so are its local variables.
Forget(e) ==
  /\ cursor' = [cursor EXCEPT ![e] = 0]
  /\ page' = [page EXCEPT ![e] = {}]
  /\ unsaved' = [unsaved EXCEPT ![e] = {}]

Goto(e, from, to) == pc[e] = from /\ pc' = [pc EXCEPT ![e] = to]

-----------------------------------------------------------------------------
(* The scheduler.                                                          *)

\* poll(): ZRANGEBYSCORE finds the broadcast due.
Poll(e) ==
  /\ scheduled
  /\ Goto(e, "idle", "due")
  /\ UNCHANGED <<listVars, scheduled, progress, lock, cursor, page, histVars>>

\* ZREM; a poll that removes nothing leaves the broadcast to the one that did.
Remove(e) ==
  /\ Goto(e, "due", IF scheduled THEN "check" ELSE "idle")
  /\ scheduled' = FALSE
  /\ UNCHANGED <<listVars, progress, lock, cursor, page, histVars>>

\* recoverInFlight() finds the progress running, and resumeBroadcast() reads it
\* with the list: what lacks a field or a list is to be marked failed.
Recover(e) ==
  /\ progress.status = "running"
  /\ Goto(e, "idle", IF progress.complete /\ ~archived THEN "relock" ELSE "reject")
  /\ cursor' = [cursor EXCEPT ![e] = progress.offset]
  /\ UNCHANGED <<listVars, scheduled, progress, lock, page, histVars>>

\* Mutant: a status of its own for what cannot be resumed.
RejectAsGone(e) ==
  /\ Goto(e, "reject", "idle")
  /\ progress' = [progress EXCEPT !.status = "gone"]
  /\ Forget(e)
  /\ UNCHANGED <<listVars, scheduled, lock, faults, sent, inDoubt, steady, overtaken>>

Reject(e) ==
  /\ Goto(e, "reject", "idle")
  /\ progress' = [progress EXCEPT !.status = "failed"]
  /\ Forget(e)
  /\ UNCHANGED <<listVars, scheduled, lock, faults, sent, inDoubt, steady, overtaken>>

-----------------------------------------------------------------------------
(* An execution.                                                           *)

\* executeBroadcast() refuses a list that is gone or has nobody to send to.
Check(e) ==
  /\ Goto(e, "check", IF archived \/ Confirmed = {} THEN "idle" ELSE "lock")
  /\ UNCHANGED <<listVars, scheduled, progress, lock, cursor, page, histVars>>

\* SET NX EX 300.
Acquire(e) ==
  /\ lock' = e
  /\ \/ Goto(e, "lock", "begin") /\ UNCHANGED overtaken
     \/ /\ Goto(e, "relock", "page")
        /\ overtaken' = (overtaken \/ progress.status # "running"
                                   \/ progress.offset # cursor[e])
  /\ UNCHANGED <<listVars, scheduled, progress, cursor, page,
                 faults, sent, unsaved, inDoubt, steady>>

\* The key exists: the call throws or returns.
Refused(e) ==
  /\ \E s \in {"lock", "relock"} : Goto(e, s, "idle")
  /\ Forget(e)
  /\ UNCHANGED <<listVars, scheduled, progress, lock,
                 faults, sent, inDoubt, steady, overtaken>>

\* Mutant: the answer of SET is not looked at.
LockUnheeded(e) == Acquire(e)

Lock(e) == (lock = None /\ Acquire(e)) \/ (lock # None /\ Refused(e))

\* HSET status and offset; what the list holds from here on must be reached.
Begin(e) ==
  /\ Goto(e, "begin", "fill")
  /\ progress' = [progress EXCEPT !.status = "running", !.offset = 0]
  /\ cursor' = [cursor EXCEPT ![e] = 0]
  /\ steady' = Confirmed
  /\ UNCHANGED <<listVars, scheduled, lock, page,
                 faults, sent, unsaved, inDoubt, overtaken>>

\* HSET of the fields a recovery needs.
Fill(e) ==
  /\ Goto(e, "fill", "page")
  /\ progress' = [progress EXCEPT !.complete = TRUE]
  /\ UNCHANGED <<listVars, scheduled, lock, cursor, page, histVars>>

Cursors == {0} \cup {Created[m] : m \in Members}

Below(c) == {m \in Confirmed : c = 0 \/ Created[m] < c}

\* The PageSize newest of S; rows of the same millisecond come in any order.
Pages(S) ==
  {P \in SUBSET S : /\ Cardinality(P) = (IF Cardinality(S) < PageSize THEN Cardinality(S)
                                                                       ELSE PageSize)
                    /\ \A p \in P, q \in S \ P : Created[q] <= Created[p]}

\* The cursor of a page of S: its oldest row, none when nothing is left.
IsCursor(c, P, S) ==
  IF P = S THEN c = 0
  ELSE \E oldest \in P : /\ c = Created[oldest]
                         /\ \A p \in P : Created[oldest] <= Created[p]

\* listByList(): confirmed members below the cursor, and the cursor they give.
ReadPage(e) ==
  /\ pc[e] = "page"
  /\ \E P \in Pages(Below(cursor[e])) :
       /\ page' = [page EXCEPT ![e] = P]
       /\ Goto(e, "page", IF P = {} THEN "save" ELSE "send")
       /\ \E c \in Cursors :
            /\ IsCursor(c, P, Below(cursor[e]))
            /\ cursor' = [cursor EXCEPT ![e] = c]
  /\ UNCHANGED <<listVars, scheduled, lock, histVars>>

\* Mutant: the offset is saved as soon as the page has been read.
PageSavedFirst(e) ==
  ReadPage(e) /\ progress' = [progress EXCEPT !.offset = cursor'[e]]

Page(e) == ReadPage(e) /\ UNCHANGED progress

\* send() to the next member of the page, whatever comes of it.
SendTo(e, m) ==
  /\ m \in page[e]
  /\ \A p \in page[e] : Created[p] <= Created[m]
  /\ Goto(e, "send", IF page[e] = {m} THEN "save" ELSE "send")
  /\ page' = [page EXCEPT ![e] = @ \ {m}]
  /\ sent' = [sent EXCEPT ![m] = @ + 1]
  /\ unsaved' = [unsaved EXCEPT ![e] = @ \cup {m}]
  /\ UNCHANGED <<listVars, scheduled, progress, lock, cursor,
                 faults, inDoubt, steady, overtaken>>

\* HSET offset and processed. After the last page the offset is empty again, as
\* it was before the first: until the status says completed, nothing is saved.
Save(e) ==
  /\ Goto(e, "save", IF cursor[e] = 0 THEN "complete" ELSE "page")
  /\ progress' = [progress EXCEPT !.offset = cursor[e]]
  /\ unsaved' = [unsaved EXCEPT ![e] = IF cursor[e] = 0 THEN Members ELSE {}]
  /\ UNCHANGED <<listVars, scheduled, lock, cursor, page,
                 faults, sent, inDoubt, steady, overtaken>>

SetProgress(e, from, to, s) ==
  /\ Goto(e, from, to)
  /\ progress' = [progress EXCEPT !.status = s]
  /\ unsaved' = [unsaved EXCEPT ![e] = {}]
  /\ UNCHANGED <<listVars, scheduled, lock, cursor, page,
                 faults, sent, inDoubt, steady, overtaken>>

Complete(e) == SetProgress(e, "complete", "unlock", "completed")
Failed(e) == SetProgress(e, "failing", "give_up", "failed")

\* DEL of the lock, whoever holds it by now.
Unlock(e) ==
  /\ \E s \in {"unlock", "give_up"} : Goto(e, s, "idle")
  /\ lock' = None
  /\ Forget(e)
  /\ UNCHANGED <<listVars, scheduled, progress, faults, sent, inDoubt, steady, overtaken>>

-----------------------------------------------------------------------------
(* What goes wrong.                                                        *)

\* The 300 seconds are over.
LockExpires ==
  /\ lock # None
  /\ lock' = None
  /\ overtaken' = (overtaken \/ Working(lock))
  /\ UNCHANGED <<listVars, scheduled, progress, pc, cursor, page,
                 faults, sent, unsaved, inDoubt, steady>>

\* A command or a query inside the try block throws.
Throw(e) ==
  /\ faults < MaxFaults /\ faults' = faults + 1
  /\ \E s \in {"page", "save", "complete", "unlock"} : Goto(e, s, "failing")
  /\ UNCHANGED <<listVars, scheduled, progress, lock, cursor, page,
                 sent, unsaved, inDoubt, steady, overtaken>>

\* The process dies, or a command outside the try block throws: the lock and
\* the progress stay as they are.
Die(e) ==
  /\ faults < MaxFaults /\ faults' = faults + 1
  /\ pc[e] # "idle"
  /\ pc' = [pc EXCEPT ![e] = "idle"]
  /\ inDoubt' = inDoubt \cup unsaved[e]
  /\ Forget(e)
  /\ UNCHANGED <<listVars, scheduled, progress, lock, sent, steady, overtaken>>

\* The list changes meanwhile; a call of its service may fail as well.
ListStep ==
  /\ \/ ListNext /\ UNCHANGED faults
     \/ /\ faults < MaxFaults /\ faults' = faults + 1
        /\ \E r \in Requests : Abandon(r)
  /\ steady' = {m \in steady : status'[m] = "confirmed"}
  /\ UNCHANGED <<execVars, sent, unsaved, inDoubt, overtaken>>

Execute(e) ==
  \/ Remove(e) \/ Check(e) \/ Lock(e) \/ Begin(e) \/ Fill(e) \/ Page(e)
  \/ (\E m \in Members : SendTo(e, m))
  \/ Save(e) \/ Complete(e) \/ Failed(e) \/ Unlock(e) \/ Reject(e)

Next ==
  \/ \E e \in Executors : Poll(e) \/ Recover(e) \/ Execute(e) \/ Throw(e) \/ Die(e)
  \/ LockExpires
  \/ ListStep

Spec == Init /\ [][Next]_vars

-----------------------------------------------------------------------------
(* Properties.                                                             *)

TypeOK ==
  /\ ListTypeOK
  /\ scheduled \in BOOLEAN
  /\ progress \in [status : {"none", "running", "completed", "failed"},
                   offset : Cursors, complete : BOOLEAN]
  /\ lock \in Executors \cup {None}
  /\ pc \in [Executors -> Locked \cup {"idle", "due", "check", "lock", "relock", "reject"}]
  /\ cursor \in [Executors -> Cursors]
  /\ page \in [Executors -> SUBSET Members]
  /\ faults \in Nat
  /\ sent \in [Members -> Nat]
  /\ unsaved \in [Executors -> SUBSET Members]
  /\ inDoubt \subseteq Members /\ steady \subseteq Members
  /\ overtaken \in BOOLEAN

\* Through crashes, failing commands and recoveries, a member is sent to once,
\* unless an executor died with that member's page unsaved, the lock expired
\* under its holder, or a recovery acted on progress it had read too early.
SentOnce ==
  ~overtaken => \A m \in Members \ inDoubt : sent[m] <= 1

\* A completed broadcast has tried every member that was confirmed all the time,
\* across recoveries and two executions at once: it passes over a member only in
\* favour of one created in the same millisecond.
NobodyLeftOut ==
  progress.status = "completed" =>
    \A m \in steady :
      sent[m] > 0 \/ \E q \in Members \ {m} : Created[q] = Created[m] /\ sent[q] > 0

-----------------------------------------------------------------------------
(* Why they hold.                                                          *)

\* Before the first execution nothing has been sent, and only the executor that
\* took the broadcast from the schedule can begin it.
StartInv ==
  /\ scheduled => progress.status = "none" /\ \A e \in Executors : pc[e] \in {"idle", "due"}
  /\ progress.status = "none" =>
       /\ \A m \in Members : sent[m] = 0
       /\ \A e \in Executors : pc[e] \in {"idle", "due", "check", "lock", "begin"}
  /\ \A e \in Executors : pc[e] \in {"check", "lock", "begin"} =>
       /\ progress.status = "none" /\ ~scheduled
       /\ \A f \in Executors : pc[f] \in {"check", "lock", "begin"} => f = e
  /\ \A e \in Executors : pc[e] \in {"unlock", "give_up"} => progress.status # "running"

\* The members that a page below c may hold, whatever becomes of the list.
Ahead(c) == {m \in Members : c = 0 \/ Created[m] < c}

Untried(S) == \A m \in S : sent[m] = 0 \/ m \in inDoubt

\* Who works holds the lock, has the members ahead of its cursor still before it,
\* and has sent what lies between the saved offset and there.
SendInv ==
  ~overtaken =>
    /\ \A e \in Executors :
         /\ Working(e) => lock = e
         /\ unsaved[e] # {} => pc[e] \in {"send", "save", "complete", "failing"}
         /\ pc[e] = "fill" => cursor[e] = 0 /\ Untried(Members)
         /\ pc[e] = "page" => Untried(Ahead(cursor[e]))
         /\ pc[e] \in {"send", "save"} /\ cursor[e] # 0 => Untried(Ahead(cursor[e]))
         /\ pc[e] = "send" => Untried(page[e])
         /\ pc[e] = "send" /\ cursor[e] # 0 => \A m \in page[e] : cursor[e] <= Created[m]
    /\ progress.status = "running" =>
         Untried(Ahead(progress.offset) \ UNION {unsaved[e] : e \in Executors})

\* Somebody created in the millisecond of m has been sent to.
Reached(m) == \E q \in Members : Created[q] = Created[m] /\ sent[q] > 0

\* Every steady member from c on has been reached; c = 0 says nothing.
ReachedFrom(c) == \A m \in steady : c # 0 /\ c <= Created[m] => Reached(m)

\* A cursor, saved or read or in use, lies below members that were reached; a page
\* in hand makes up for those between its cursor and the one before.
ReachInv ==
  /\ steady \subseteq Confirmed
  /\ progress.status # "none" => ReachedFrom(progress.offset)
  /\ progress.status = "completed" => \A m \in steady : Reached(m)
  /\ \A e \in Executors :
       /\ pc[e] \in {"fill", "page", "relock"} => ReachedFrom(cursor[e])
       /\ pc[e] \in {"send", "save"} =>
            \A m \in steady : cursor[e] = 0 \/ cursor[e] <= Created[m] =>
              Reached(m) \/ \E q \in page[e] : Created[q] = Created[m]
       /\ pc[e] = "save" => page[e] = {}
       /\ pc[e] = "complete" => \A m \in steady : Reached(m)

=============================================================================
