--------------------------------- MODULE Lists ---------------------------------
(***************************************************************************)
(* Subscriber lists: memberships and the list's member count                *)
(* (packages/core/src/lists, the list and list-member repositories).        *)
(*                                                                         *)
(* A member is a row of emito_list_members. The service reads a row, writes *)
(* it and adjusts the count in three statements without a transaction; the  *)
(* look-up of the list by its slug is part of the first.                    *)
(***************************************************************************)
EXTENDS Integers, FiniteSets

CONSTANTS
  Members,   \* rows: a subscriber who joins again after a clean-up is a new one
  Created,   \* createdAt of each row, in milliseconds
  Movers,    \* the members that calls are about; the others stay confirmed
  Requests   \* calls of the membership service, each of which runs once

ASSUME ListAssumption ==
  /\ Created \in [Members -> Nat \ {0}]
  /\ Movers \subseteq Members
  /\ IsFiniteSet(Members) /\ IsFiniteSet(Requests)

VARIABLES
  archived,    \* is the list archived?
  optin,       \* the list's optinType, "single" or "double"
  status,      \* the status of each row, "absent" when there is none
  memberCount, \* the count kept with the list
  step,        \* where each request stands
  subject,     \* the member each request is about
  upset        \* history: two requests had read a row before either wrote it, one
               \* ended between its row and the count, or the count was to go below 0

listVars ==
  <<archived, optin, status, memberCount, step, subject, upset>>

Statuses == {"absent", "unconfirmed", "confirmed", "unsubscribed"}

Confirmed == {m \in Members : status[m] = "confirmed"}

ListInit ==
  /\ archived = FALSE
  /\ optin \in {"single", "double"}
  /\ status \in [Members -> {"unconfirmed", "confirmed"}]
  /\ \A m \in Members \ Movers : status[m] = "confirmed"
  /\ memberCount = Cardinality(Confirmed)
  /\ step = [r \in Requests |-> "ready"]
  /\ subject \in [Requests -> Movers]
  /\ upset = FALSE

Proceed(r, from, to) == step[r] = from /\ step' = [step EXCEPT ![r] = to]

SetStatus(m, s) == status' = [status EXCEPT ![m] = s]

\* The row of m has been read or made, and is about to be written.
Deciding(r, m) == step[r] \in {"confirm", "leave", "leave_confirmed"} /\ subject[r] = m

\* A request turns to a row that another one is about to write.
NoteRace(m) == upset' = (upset \/ \E q \in Requests : Deciding(q, m))

-----------------------------------------------------------------------------

\* subscribe(): INSERT ... ON CONFLICT DO NOTHING; a row that exists, whatever
\* its status, ends the call. Rows are created in the order of their times.
Subscribe(r) ==
  LET m == subject[r] IN
  /\ ~archived
  /\ status[m] = "absent"
  /\ \A q \in Members : status[q] # "absent" => Created[q] <= Created[m]
  /\ Proceed(r, "ready", IF optin = "single" THEN "confirm" ELSE "done")
  /\ SetStatus(m, "unconfirmed")
  /\ IF optin = "single" THEN NoteRace(m) ELSE UNCHANGED upset
  /\ UNCHANGED <<archived, optin, memberCount, subject>>

\* Mutant: the status that was read is not looked at.
ConfirmAgain(r) ==
  /\ optin = "double"
  /\ status[subject[r]] # "absent"
  /\ Proceed(r, "ready", "confirm")
  /\ NoteRace(subject[r])
  /\ UNCHANGED <<archived, optin, status, memberCount, subject>>

\* confirm() and confirmMembership(), reached with the token of the mail that a
\* double opt-in list sends; the token outlives an unsubscription.
Confirm(r) ==
  /\ optin = "double"
  /\ status[subject[r]] \in {"unconfirmed", "unsubscribed"}
  /\ Proceed(r, "ready", "confirm")
  /\ NoteRace(subject[r])
  /\ UNCHANGED <<archived, optin, status, memberCount, subject>>

\* UPDATE ... SET status = 'confirmed'; no row, and the call throws.
WriteConfirmed(r) ==
  LET m == subject[r] IN
  /\ \/ status[m] # "absent" /\ Proceed(r, "confirm", "plus") /\ SetStatus(m, "confirmed")
     \/ status[m] = "absent" /\ Proceed(r, "confirm", "done") /\ UNCHANGED status
  /\ UNCHANGED <<archived, optin, memberCount, subject, upset>>

\* updateMemberCount(+1).
CountIn(r) ==
  /\ Proceed(r, "plus", "done")
  /\ memberCount' = memberCount + 1
  /\ UNCHANGED <<archived, optin, status, subject, upset>>

\* unsubscribe(): what it read decides whether it will count.
Unsubscribe(r) ==
  LET m == subject[r] IN
  /\ ~archived
  /\ Proceed(r, "ready", IF status[m] = "confirmed" THEN "leave_confirmed" ELSE "leave")
  /\ NoteRace(m)
  /\ UNCHANGED <<archived, optin, status, memberCount, subject>>

WriteUnsubscribed(r) ==
  LET m == subject[r] IN
  /\ IF status[m] = "absent"
     THEN /\ \E s \in {"leave", "leave_confirmed"} : Proceed(r, s, "done")
          /\ UNCHANGED status
     ELSE /\ Proceed(r, "leave", "done") \/ Proceed(r, "leave_confirmed", "minus")
          /\ SetStatus(m, "unsubscribed")
  /\ UNCHANGED <<archived, optin, memberCount, subject, upset>>

\* updateMemberCount(-1): GREATEST(0, member_count - 1).
CountOut(r) ==
  /\ Proceed(r, "minus", "done")
  /\ memberCount' = IF memberCount = 0 THEN 0 ELSE memberCount - 1
  /\ upset' = (upset \/ memberCount = 0)
  /\ UNCHANGED <<archived, optin, status, subject>>

\* cleanupExpired() deletes the rows that stayed unconfirmed for 72 hours.
CleanupExpired ==
  \E cutoff \in {Created[m] + 1 : m \in Members} :
    /\ status' = [m \in Members |-> IF status[m] = "unconfirmed" /\ Created[m] < cutoff
                                    THEN "absent" ELSE status[m]]
    /\ status' # status
    /\ UNCHANGED <<archived, optin, memberCount, step, subject, upset>>

\* archive(): nothing takes a list back out of the archive.
Archive ==
  /\ ~archived
  /\ archived' = TRUE
  /\ UNCHANGED <<optin, status, memberCount, step, subject, upset>>

\* A statement throws, or the process dies: the call is over.
Abandon(r) ==
  /\ step[r] \notin {"ready", "done"}
  /\ step' = [step EXCEPT ![r] = "done"]
  /\ upset' = (upset \/ step[r] \in {"plus", "minus"})
  /\ UNCHANGED <<archived, optin, status, memberCount, subject>>

Serve(r) ==
  \/ Subscribe(r) \/ Confirm(r) \/ WriteConfirmed(r) \/ CountIn(r)
  \/ Unsubscribe(r) \/ WriteUnsubscribed(r) \/ CountOut(r)

ListNext == (\E r \in Requests : Serve(r)) \/ CleanupExpired \/ Archive

-----------------------------------------------------------------------------

ListTypeOK ==
  /\ archived \in BOOLEAN
  /\ optin \in {"single", "double"}
  /\ status \in [Members -> Statuses]
  /\ memberCount \in Nat
  /\ step \in [Requests -> {"ready", "confirm", "plus", "leave", "leave_confirmed",
                            "minus", "done"}]
  /\ subject \in [Requests -> Movers]
  /\ upset \in BOOLEAN

At(s) == {r \in Requests : step[r] = s}

\* When no call is between its row and the count, the member count is the number
\* of confirmed members: only two calls that read one row before either wrote
\* it, a call cut short between row and count, or a count that would have gone
\* below zero ever make it wrong.
CountTrue ==
  /\ ~upset /\ At("plus") = {} /\ At("minus") = {}
  => memberCount = Cardinality(Confirmed)

\* Why: each call still to count stands for the row it has written, one request at
\* a time is about to write a row, and it finds the row as it has read it.
Balanced ==
  memberCount + Cardinality(At("plus")) - Cardinality(At("minus")) = Cardinality(Confirmed)

OneDecides ==
  \A q, r \in Requests, m \in Members : Deciding(q, m) /\ Deciding(r, m) => q = r

ReadTrue ==
  \A r \in Requests :
    /\ step[r] = "leave_confirmed" => status[subject[r]] = "confirmed"
    /\ step[r] \in {"confirm", "leave"} => status[subject[r]] # "confirmed"

CountInv == ListTypeOK /\ (~upset => Balanced /\ OneDecides /\ ReadTrue)
=============================================================================
