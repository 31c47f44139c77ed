------------------------------ MODULE DeadLetters ------------------------------
(***************************************************************************)
(* The dead-letter queue as administrators work on it                      *)
(* (packages/server/src/endpoints/admin/dead-letters.ts over the table's    *)
(* repository): retry, discard and purge, several requests at a time.       *)
(*                                                                         *)
(* Every repository call and the send are steps of their own; a request     *)
(* acts on the record it found at its start.                               *)
(***************************************************************************)
EXTENDS Naturals

CONSTANTS
  Letters,     \* the dead letters
  Requests,    \* admin requests that may be in flight at the same time
  Faults       \* which of {"db", "crash"} happen

ASSUME DeadLetterAssumption == Faults \subseteq {"db", "crash"}

VARIABLES
  letter,      \* resolution of each letter; "unresolved", "purged" when deleted
  pc,          \* where each request stands
  job,         \* the letter each request works on
  sends,       \* history: sends made for each letter, 2 stands for more
  raced,       \* history: letters that two requests had found unresolved at once
  abandoned    \* history: letters whose request died or failed while it held them

vars == <<letter, pc, job, sends, raced, abandoned>>

Unresolved == "unresolved"

Init ==
  /\ letter = [l \in Letters |-> Unresolved]
  /\ pc = [r \in Requests |-> "idle"]
  /\ job \in [Requests -> Letters]
  /\ sends = [l \in Letters |-> 0]
  /\ raced = {}
  /\ abandoned = {}

Goto(r, from, to) == pc[r] = from /\ pc' = [pc EXCEPT ![r] = to]

\* UPDATE ... WHERE id: it finds no row once the letter is purged.
SetResolution(l, resolution) ==
  letter' = [letter EXCEPT ![l] = IF @ = "purged" THEN "purged" ELSE resolution]

\* The letter was found unresolved, and the request has yet to say so.
Deciding(r, l) == pc[r] \in {"claim", "discard"} /\ job[r] = l

Holding(r, l) == pc[r] \in {"send", "settle", "release"} /\ job[r] = l

-----------------------------------------------------------------------------

\* Mutant: what the request found is not looked at.
FindAny(r, l) ==
  /\ \E next \in {"claim", "discard"} : Goto(r, "idle", next)
  /\ letter[l] # "purged"
  /\ job' = [job EXCEPT ![r] = l]
  /\ raced' = IF \E q \in Requests : Deciding(q, l) THEN raced \cup {l} ELSE raced
  /\ UNCHANGED <<letter, sends, abandoned>>

\* findById, for a retry or a discard; a letter that is gone or resolved ends
\* the request with a 404 or a 409 and changes nothing.
Find(r, l) ==
  /\ letter[l] = Unresolved
  /\ \E next \in {"claim", "discard"} : Goto(r, "idle", next)
  /\ job' = [job EXCEPT ![r] = l]
  /\ raced' = IF \E q \in Requests : Deciding(q, l) THEN raced \cup {l} ELSE raced
  /\ UNCHANGED <<letter, sends, abandoned>>

\* resolve(id, "retrying").
Claim(r) ==
  /\ Goto(r, "claim", "send")
  /\ SetResolution(job[r], "retrying")
  /\ UNCHANGED <<job, sends, raced, abandoned>>

\* emito.send(): the notification goes out again on the channels of its event, or
\* it throws before any channel is tried.
SendReturns(r) ==
  /\ Goto(r, "send", "settle")
  /\ sends' = [sends EXCEPT ![job[r]] = IF @ = 2 THEN 2 ELSE @ + 1]
  /\ UNCHANGED <<letter, job, raced, abandoned>>

SendThrows(r) ==
  /\ Goto(r, "send", "release")
  /\ UNCHANGED <<letter, job, sends, raced, abandoned>>

Send(r) == SendReturns(r) \/ SendThrows(r)

\* resolve(id, "retried").
Settle(r) ==
  /\ Goto(r, "settle", "idle")
  /\ SetResolution(job[r], "retried")
  /\ UNCHANGED <<job, sends, raced, abandoned>>

\* Mutant: a failed retry leaves its mark.
ReleaseNothing(r) ==
  /\ Goto(r, "release", "idle")
  /\ UNCHANGED <<letter, job, sends, raced, abandoned>>

\* Mutant: a failed retry is recorded as a resolution of its own.
ReleaseAsFailed(r) ==
  /\ Goto(r, "release", "idle")
  /\ SetResolution(job[r], "failed")
  /\ UNCHANGED <<job, sends, raced, abandoned>>

\* unresolve(id), after a send that threw.
Release(r) ==
  /\ Goto(r, "release", "idle")
  /\ SetResolution(job[r], Unresolved)
  /\ UNCHANGED <<job, sends, raced, abandoned>>

\* resolve(id, "discarded").
Discard(r) ==
  /\ Goto(r, "discard", "idle")
  /\ SetResolution(job[r], "discarded")
  /\ UNCHANGED <<job, sends, raced, abandoned>>

\* purgeResolved deletes every letter with a resolution, "retrying" included.
Purge ==
  /\ letter' = [l \in Letters |-> IF letter[l] = Unresolved THEN Unresolved ELSE "purged"]
  /\ UNCHANGED <<pc, job, sends, raced, abandoned>>

\* A repository call throws, or the process dies: the request is over.
Abort(r) ==
  /\ \/ "db" \in Faults /\ pc[r] \in {"claim", "settle", "release", "discard"}
     \/ "crash" \in Faults /\ pc[r] # "idle"
  /\ pc' = [pc EXCEPT ![r] = "idle"]
  /\ abandoned' = IF Holding(r, job[r]) THEN abandoned \cup {job[r]} ELSE abandoned
  /\ UNCHANGED <<letter, job, sends, raced>>

Serve(r) == Claim(r) \/ Send(r) \/ Settle(r) \/ Release(r) \/ Discard(r)

Next ==
  \/ \E r \in Requests :
       (\E l \in Letters : Find(r, l)) \/ Serve(r) \/ Abort(r)
  \/ Purge

Spec == Init /\ [][Next]_vars

-----------------------------------------------------------------------------
(* Properties.                                                             *)

\* Every variable keeps its type: resolutions, requests and histories.
TypeOK ==
  /\ letter \in [Letters -> {Unresolved, "retrying", "retried", "discarded", "purged"}]
  /\ pc \in [Requests -> {"idle", "claim", "send", "settle", "release", "discard"}]
  /\ job \in [Requests -> Letters]
  /\ sends \in [Letters -> 0 .. 2]
  /\ raced \subseteq Letters
  /\ abandoned \subseteq Letters

\* The retrying mark keeps a dead letter from being sent twice, through failed
\* sends, failed updates, crashes and purges alike, unless two requests had found
\* it unresolved before either of them marked it.
SentOnceUnlessRaced == \A l \in Letters \ raced : sends[l] <= 1

\* The comment in the handler and its test claim it without the reservation:
\* no dead letter is sent twice.
RetriedOnce == \A l \in Letters : sends[l] <= 1

\* A letter marked retried has been sent; one that has been sent is not open to
\* another retry, unless two requests raced for it.
RetriedWasSent ==
  \A l \in Letters :
    /\ letter[l] = "retried" => sends[l] > 0
    /\ /\ l \notin raced /\ sends[l] > 0
       => letter[l] # Unresolved

\* A letter stays marked as retrying, out of reach of another retry or a
\* discard, only while a request is at work on it, or when one died or failed
\* to write back: a send that throws gives the letter back.
NotStuckRetrying ==
  \A l \in Letters :
    letter[l] = "retrying" => l \in abandoned \/ \E r \in Requests : Holding(r, l)

\* Why SentOnceUnlessRaced holds: without a race a letter has one worker at
\* most, and who holds it excludes everybody else.
Working(r, l) == Deciding(r, l) \/ Holding(r, l)

RetryInv ==
  /\ TypeOK
  /\ \A l \in Letters \ raced :
       /\ \A q, r \in Requests : Working(q, l) /\ Working(r, l) => q = r
       /\ (\E r \in Requests : Deciding(r, l)) => letter[l] = Unresolved
       /\ (\E r \in Requests : Holding(r, l)) => letter[l] \in {"retrying", "purged"}
       /\ letter[l] = Unresolved => sends[l] = 0
       /\ sends[l] <= 1
       /\ \A r \in Requests :
            pc[r] \in {"send", "release"} /\ job[r] = l => sends[l] = 0
  /\ \A r \in Requests : pc[r] = "settle" => sends[job[r]] > 0
  /\ \A l \in Letters : letter[l] = "retried" => sends[l] > 0
  /\ NotStuckRetrying
=============================================================================
