---------------------------- MODULE BroadcastProofs ----------------------------
(***************************************************************************)
(* For any members, requests, executors and page size, with faults that do  *)
(* not end: the member count of a list is right, and a broadcast is sent    *)
(* once to a member and leaves nobody out, with the exceptions they name.   *)
(***************************************************************************)
EXTENDS Broadcast, FiniteSetTheorems, TLAPS

-----------------------------------------------------------------------------
(* The list.                                                               *)

LEMMA FiniteLists ==
  ASSUME ListTypeOK
  PROVE  /\ IsFiniteSet(Confirmed) /\ Cardinality(Confirmed) \in Nat
         /\ \A s : IsFiniteSet(At(s)) /\ Cardinality(At(s)) \in Nat
<1>1. Confirmed \subseteq Members /\ \A s : At(s) \subseteq Requests
  BY DEF Confirmed, At
<1>2. IsFiniteSet(Members) /\ IsFiniteSet(Requests)
  BY ListAssumption DEF ListAssumption
<1>3. IsFiniteSet(Confirmed) /\ \A s : IsFiniteSet(At(s))
  BY <1>1, <1>2, FS_Subset
<1> QED
  BY <1>3, FS_CardinalityType

LEMMA InitCountInv == ListInit => CountInv
<1> SUFFICES ASSUME ListInit PROVE CountInv
  OBVIOUS
<1>1. Movers \subseteq Members
  BY ListAssumption DEF ListAssumption
<1>2. Confirmed \subseteq Members /\ IsFiniteSet(Members)
  BY ListAssumption DEF ListAssumption, Confirmed
<1>3. Cardinality(Confirmed) \in Nat
  BY <1>2, FS_Subset, FS_CardinalityType
<1>4. ListTypeOK
  BY <1>1, <1>3 DEF ListInit, ListTypeOK, Statuses
<1>5. At("plus") = {} /\ At("minus") = {}
  BY DEF ListInit, At
<1>6. Balanced
  <2>1. Cardinality(At("plus")) = 0 /\ Cardinality(At("minus")) = 0
    BY <1>5, FS_EmptySet
  <2>2. memberCount = Cardinality(Confirmed)
    BY DEF ListInit
  <2> QED
    BY <1>3, <2>1, <2>2 DEF Balanced
<1>7. OneDecides /\ ReadTrue
  BY DEF ListInit, OneDecides, ReadTrue, Deciding
<1> QED
  BY <1>4, <1>6, <1>7 DEF CountInv

\* A request that moves on changes the two sets it leaves and enters.
LEMMA Moves ==
  ASSUME ListTypeOK, NEW r \in Requests, NEW from, NEW to,
         Proceed(r, from, to), to # from
  PROVE  /\ At(to)' = At(to) \cup {r} /\ r \notin At(to)
         /\ At(from)' = At(from) \ {r} /\ r \in At(from)
         /\ \A s : s \notin {to, from} => At(s)' = At(s)
         /\ Cardinality(At(to))' = Cardinality(At(to)) + 1
         /\ Cardinality(At(from))' = Cardinality(At(from)) - 1
<1>1. /\ At(to)' = At(to) \cup {r} /\ r \notin At(to)
      /\ At(from)' = At(from) \ {r} /\ r \in At(from)
      /\ \A s : s \notin {to, from} => At(s)' = At(s)
  BY DEF At, ListTypeOK, Proceed
<1>2. IsFiniteSet(At(to)) /\ IsFiniteSet(At(from))
  BY FiniteLists
<1>3. Cardinality(At(to) \cup {r}) = Cardinality(At(to)) + 1
  BY <1>1, <1>2, FS_AddElement
<1>4. Cardinality(At(from) \ {r}) = Cardinality(At(from)) - 1
  BY <1>1, <1>2, FS_RemoveElement
<1> QED
  BY <1>1, <1>3, <1>4

\* A row that is written.
LEMMA Writes ==
  ASSUME ListTypeOK, NEW m \in Members, NEW s \in Statuses, SetStatus(m, s)
  PROVE  /\ status' \in [Members -> Statuses] /\ status'[m] = s
         /\ \A q \in Members \ {m} : status'[q] = status[q]
         /\ s = "confirmed" => Confirmed' = Confirmed \cup {m}
         /\ s # "confirmed" => Confirmed' = Confirmed \ {m}
  BY DEF SetStatus, ListTypeOK, Confirmed

\* A request that was to write a row and ends without it.
LEMMA SettledInv ==
  ASSUME CountInv, NEW r \in Requests, NEW from \in {"confirm", "leave", "leave_confirmed"},
         Proceed(r, from, "done"),
         UNCHANGED <<status, subject, memberCount, archived, optin>>,
         upset' = upset
  PROVE  CountInv'
<1>1. ListTypeOK'
  BY DEF CountInv, ListTypeOK, Proceed
<1>2. Confirmed' = Confirmed /\ At("plus")' = At("plus") /\ At("minus")' = At("minus")
  BY Moves DEF CountInv, Confirmed
<1>3. ASSUME ~upset PROVE Balanced' /\ OneDecides' /\ ReadTrue'
  <2>1. Balanced'
    BY <1>2, <1>3 DEF CountInv, Balanced
  <2>2. OneDecides' /\ ReadTrue'
    BY <1>3 DEF CountInv, OneDecides, ReadTrue, Deciding, Proceed, ListTypeOK
  <2> QED
    BY <2>1, <2>2
<1> QED
  BY <1>1, <1>3 DEF CountInv

\* A row that is read, or made, by a request that will write it.
LEMMA ReadInv ==
  ASSUME CountInv, NEW r \in Requests,
         Subscribe(r) \/ Confirm(r) \/ Unsubscribe(r)
  PROVE  CountInv'
<1> DEFINE m == subject[r]
<1>1. m \in Members
  BY ListAssumption DEF CountInv, ListTypeOK, ListAssumption
<1>2. step[r] = "ready" /\ UNCHANGED <<subject, memberCount, archived, optin>>
  BY DEF Subscribe, Confirm, Unsubscribe, Proceed
<1>3. PICK to \in {"confirm", "leave", "leave_confirmed", "done"} :
        step' = [step EXCEPT ![r] = to]
  BY DEF Subscribe, Confirm, Unsubscribe, Proceed
<1>4. /\ status' \in [Members -> Statuses] /\ Confirmed' = Confirmed
      /\ \A q \in Members : (status'[q] = "confirmed") <=> (status[q] = "confirmed")
  <2>1. CASE Subscribe(r)
    <3>1. status[m] = "absent" /\ SetStatus(m, "unconfirmed")
      BY <2>1 DEF Subscribe
    <3> QED
      BY <1>1, <3>1, Writes DEF CountInv, Confirmed, Statuses
  <2>2. CASE UNCHANGED status
    BY <2>2 DEF CountInv, ListTypeOK, Confirmed
  <2> QED
    BY <2>1, <2>2 DEF Subscribe, Confirm, Unsubscribe
<1>5. to # "done" => upset' = (upset \/ \E q \in Requests : Deciding(q, m))
  BY <1>3, <1>2 DEF Subscribe, Confirm, Unsubscribe, NoteRace, Proceed, CountInv, ListTypeOK
<1>6. /\ to = "confirm" => status[m] # "confirmed"
      /\ to = "leave" => status[m] # "confirmed"
      /\ to = "leave_confirmed" => status[m] = "confirmed"
  BY <1>2, <1>3 DEF Subscribe, Confirm, Unsubscribe, Proceed, CountInv, ListTypeOK
<1>7. upset' \in BOOLEAN /\ (~upset' => ~upset)
  BY <1>3 DEF Subscribe, Confirm, Unsubscribe, NoteRace, CountInv, ListTypeOK
<1>8. ListTypeOK'
  BY <1>2, <1>3, <1>4, <1>7 DEF CountInv, ListTypeOK
<1>9. ASSUME ~upset' PROVE Balanced' /\ OneDecides' /\ ReadTrue'
  <2>1. At("plus")' = At("plus") /\ At("minus")' = At("minus")
    BY <1>2, <1>3, Moves DEF CountInv, Proceed
  <2>2. Balanced'
    BY <1>2, <1>4, <1>7, <1>9, <2>1 DEF CountInv, Balanced
  <2>3. \A q \in Requests, k \in Members :
          /\ q # r => (Deciding(q, k)' <=> Deciding(q, k))
          /\ q = r /\ Deciding(q, k)' => k = m /\ to # "done"
    BY <1>2, <1>3 DEF Deciding, CountInv, ListTypeOK
  <2>4. OneDecides'
    BY <1>5, <1>7, <1>9, <2>3 DEF OneDecides, CountInv
  <2>5. ReadTrue'
    BY <1>2, <1>3, <1>4, <1>6, <1>7, <1>9, ListAssumption
       DEF ReadTrue, CountInv, ListTypeOK, ListAssumption
  <2> QED
    BY <2>2, <2>4, <2>5
<1> QED
  BY <1>8, <1>9 DEF CountInv

LEMMA WriteConfirmedInv ==
  ASSUME CountInv, NEW r \in Requests, WriteConfirmed(r) PROVE CountInv'
<1> DEFINE m == subject[r]
<1>1. m \in Members
  BY ListAssumption DEF CountInv, ListTypeOK, ListAssumption
<1>2. step[r] = "confirm" /\ UNCHANGED <<subject, memberCount, archived, optin, upset>>
  BY DEF WriteConfirmed, Proceed
<1>3. Deciding(r, m)
  BY <1>2 DEF Deciding
<1>4. CASE Proceed(r, "confirm", "done") /\ UNCHANGED status
  BY <1>2, <1>4, SettledInv
<1>5. CASE Proceed(r, "confirm", "plus") /\ SetStatus(m, "confirmed")
  <2>1. /\ status' \in [Members -> Statuses] /\ status'[m] = "confirmed"
        /\ \A q \in Members \ {m} : status'[q] = status[q]
        /\ Confirmed' = Confirmed \cup {m}
    BY <1>1, <1>5, Writes DEF CountInv, Statuses
  <2>2. ListTypeOK'
    BY <1>2, <1>5, <2>1 DEF CountInv, ListTypeOK, Proceed
  <2>3. ASSUME ~upset PROVE Balanced' /\ OneDecides' /\ ReadTrue'
    <3>1. m \notin Confirmed
      BY <1>2, <2>3 DEF CountInv, ReadTrue, Confirmed
    <3>2. Cardinality(Confirmed)' = Cardinality(Confirmed) + 1
      BY <2>1, <3>1, FiniteLists, FS_AddElement DEF CountInv
    <3>3. /\ Cardinality(At("plus"))' = Cardinality(At("plus")) + 1
          /\ Cardinality(At("minus"))' = Cardinality(At("minus"))
      BY <1>5, Moves DEF CountInv
    <3>4. Balanced'
      BY <1>2, <2>3, <3>2, <3>3, FiniteLists DEF CountInv, Balanced, ListTypeOK
    <3>5. /\ OneDecides'
          /\ \A q \in Requests \ {r} :
               /\ step'[q] = step[q]
               /\ \/ subject[q] # m
                  \/ step'[q] \notin {"confirm", "leave", "leave_confirmed"}
      BY <1>1, <1>2, <1>3, <1>5, <2>3 DEF CountInv, OneDecides, Deciding, Proceed, ListTypeOK
    <3>6. ReadTrue'
      BY <1>2, <1>5, <2>1, <2>3, <3>5, ListAssumption
         DEF ReadTrue, CountInv, ListTypeOK, ListAssumption, Proceed
    <3> QED
      BY <3>4, <3>5, <3>6
  <2> QED
    BY <1>2, <2>2, <2>3 DEF CountInv
<1> QED
  BY <1>4, <1>5 DEF WriteConfirmed

LEMMA WriteUnsubscribedInv ==
  ASSUME CountInv, NEW r \in Requests, WriteUnsubscribed(r) PROVE CountInv'
<1> DEFINE m == subject[r]
<1>1. m \in Members
  BY ListAssumption DEF CountInv, ListTypeOK, ListAssumption
<1>2. /\ step[r] \in {"leave", "leave_confirmed"}
      /\ UNCHANGED <<subject, memberCount, archived, optin, upset>>
  BY DEF WriteUnsubscribed, Proceed
<1>3. Deciding(r, m)
  BY <1>2 DEF Deciding
<1>4. CASE status[m] = "absent"
  BY <1>2, <1>4, SettledInv DEF WriteUnsubscribed
<1>5. CASE status[m] # "absent"
  <2>1. PICK from \in {"leave", "leave_confirmed"}, to \in {"done", "minus"} :
          /\ Proceed(r, from, to)
          /\ to = "minus" <=> from = "leave_confirmed"
    BY <1>5 DEF WriteUnsubscribed
  <2>2. SetStatus(m, "unsubscribed")
    BY <1>5 DEF WriteUnsubscribed
  <2>3. /\ status' \in [Members -> Statuses] /\ status'[m] = "unsubscribed"
        /\ \A q \in Members \ {m} : status'[q] = status[q]
        /\ Confirmed' = Confirmed \ {m}
    BY <1>1, <2>2, Writes DEF CountInv, Statuses
  <2>4. ListTypeOK'
    BY <1>2, <2>1, <2>3 DEF CountInv, ListTypeOK, Proceed
  <2>5. ASSUME ~upset PROVE Balanced' /\ OneDecides' /\ ReadTrue'
    <3>1. Balanced'
      <4>1. CASE to = "minus"
        <5>1. m \in Confirmed
          BY <1>1, <2>1, <2>5, <4>1 DEF CountInv, ReadTrue, Confirmed, Proceed
        <5>2. Cardinality(Confirmed)' = Cardinality(Confirmed) - 1
          BY <2>3, <5>1, FiniteLists, FS_RemoveElement DEF CountInv
        <5>3. /\ Cardinality(At("minus"))' = Cardinality(At("minus")) + 1
              /\ Cardinality(At("plus"))' = Cardinality(At("plus"))
          BY <2>1, <4>1, Moves DEF CountInv
        <5> QED
          BY <1>2, <2>5, <5>2, <5>3, FiniteLists DEF CountInv, Balanced, ListTypeOK
      <4>2. CASE to = "done"
        <5>1. m \notin Confirmed
          BY <2>1, <2>5, <4>2 DEF CountInv, ReadTrue, Confirmed, Proceed
        <5>2. Confirmed' = Confirmed
          BY <2>3, <5>1
        <5>3. At("minus")' = At("minus") /\ At("plus")' = At("plus")
          BY <2>1, <4>2, Moves DEF CountInv
        <5> QED
          BY <1>2, <2>5, <5>2, <5>3 DEF CountInv, Balanced
      <4> QED
        BY <4>1, <4>2
    <3>2. /\ OneDecides'
          /\ \A q \in Requests \ {r} :
               /\ step'[q] = step[q]
               /\ \/ subject[q] # m
                  \/ step'[q] \notin {"confirm", "leave", "leave_confirmed"}
      BY <1>1, <1>2, <1>3, <2>1, <2>5 DEF CountInv, OneDecides, Deciding, Proceed, ListTypeOK
    <3>3. ReadTrue'
      BY <1>2, <2>1, <2>3, <2>5, <3>2, ListAssumption
         DEF ReadTrue, CountInv, ListTypeOK, ListAssumption, Proceed
    <3> QED
      BY <3>1, <3>2, <3>3
  <2> QED
    BY <1>2, <2>4, <2>5 DEF CountInv
<1> QED
  BY <1>4, <1>5

LEMMA CountsInv ==
  ASSUME CountInv, NEW r \in Requests, CountIn(r) \/ CountOut(r) PROVE CountInv'
<1>1. UNCHANGED <<subject, archived, optin, status>>
  BY DEF CountIn, CountOut
<1>2. PICK from \in {"plus", "minus"} : Proceed(r, from, "done")
  BY DEF CountIn, CountOut
<1>3. /\ memberCount' \in Nat /\ upset' \in BOOLEAN /\ (~upset' => ~upset)
      /\ ~upset' /\ from = "plus" => memberCount' = memberCount + 1
      /\ ~upset' /\ from = "minus" => memberCount' = memberCount - 1
  <2> memberCount \in Nat /\ upset \in BOOLEAN
    BY DEF CountInv, ListTypeOK
  <2>1. CASE CountIn(r)
    <3>1. from = "plus"
      BY <1>2, <2>1 DEF CountIn, Proceed
    <3> QED
      BY <2>1, <3>1 DEF CountIn
  <2>2. CASE CountOut(r)
    <3>1. from = "minus"
      BY <1>2, <2>2 DEF CountOut, Proceed
    <3>2. /\ memberCount' = IF memberCount = 0 THEN 0 ELSE memberCount - 1
          /\ upset' = (upset \/ memberCount = 0)
      BY <2>2 DEF CountOut
    <3>3. memberCount # 0 => memberCount - 1 \in Nat
      OBVIOUS
    <3> QED
      BY <3>1, <3>2, <3>3
  <2> QED
    BY <2>1, <2>2
<1>4. ListTypeOK'
  BY <1>1, <1>2, <1>3 DEF CountInv, ListTypeOK, Proceed
<1>5. ASSUME ~upset' PROVE Balanced' /\ OneDecides' /\ ReadTrue'
  <2>1. Confirmed' = Confirmed
    BY <1>1 DEF Confirmed
  <2>2. /\ Cardinality(At(from))' = Cardinality(At(from)) - 1
        /\ \A s \in {"plus", "minus"} \ {from} : At(s)' = At(s)
    BY <1>2, Moves DEF CountInv
  <2>3. Balanced'
    <3>1. CASE from = "plus"
      BY <1>3, <1>5, <2>1, <2>2, <3>1, FiniteLists DEF CountInv, Balanced, ListTypeOK
    <3>2. CASE from = "minus"
      BY <1>3, <1>5, <2>1, <2>2, <3>2, FiniteLists DEF CountInv, Balanced, ListTypeOK
    <3> QED
      BY <3>1, <3>2
  <2>4. OneDecides' /\ ReadTrue'
    BY <1>1, <1>2, <1>3, <1>5
       DEF CountInv, OneDecides, ReadTrue, Deciding, Proceed, ListTypeOK
  <2> QED
    BY <2>3, <2>4
<1> QED
  BY <1>4, <1>5 DEF CountInv

LEMMA CleanupInv == ASSUME CountInv, CleanupExpired \/ Archive PROVE CountInv'
<1>1. UNCHANGED <<subject, optin, memberCount, step, upset>> /\ archived' \in BOOLEAN
  BY DEF CleanupExpired, Archive, CountInv, ListTypeOK
<1>2. /\ status' \in [Members -> Statuses]
      /\ \A m \in Members : (status'[m] = "confirmed") <=> (status[m] = "confirmed")
  BY DEF CleanupExpired, Archive, CountInv, ListTypeOK, Statuses
<1>3. ListTypeOK'
  BY <1>1, <1>2 DEF CountInv, ListTypeOK
<1>4. Confirmed' = Confirmed /\ \A s : At(s)' = At(s)
  BY <1>1, <1>2 DEF Confirmed, At
<1>5. ASSUME ~upset PROVE Balanced' /\ OneDecides' /\ ReadTrue'
  BY <1>1, <1>2, <1>4, <1>5, ListAssumption
     DEF CountInv, Balanced, OneDecides, ReadTrue, Deciding, ListTypeOK, ListAssumption
<1> QED
  BY <1>1, <1>3, <1>5 DEF CountInv

LEMMA AbandonInv == ASSUME CountInv, NEW r \in Requests, Abandon(r) PROVE CountInv'
<1>1. UNCHANGED <<archived, optin, status, memberCount, subject>>
  BY DEF Abandon
<1>2. CASE step[r] \in {"plus", "minus"}
  BY <1>1, <1>2 DEF Abandon, CountInv, ListTypeOK
<1>3. CASE step[r] \in {"confirm", "leave", "leave_confirmed"}
  <2>1. Proceed(r, step[r], "done") /\ upset' = upset
    BY <1>3 DEF Abandon, Proceed, CountInv, ListTypeOK
  <2> QED
    BY <1>1, <1>3, <2>1, SettledInv
<1> QED
  BY <1>2, <1>3 DEF Abandon, CountInv, ListTypeOK

LEMMA ListStepInv ==
  CountInv /\ (ListNext \/ \E r \in Requests : Abandon(r)) => CountInv'
  BY ReadInv, WriteConfirmedInv, WriteUnsubscribedInv, CountsInv, CleanupInv, AbandonInv
     DEF ListNext, Serve

LEMMA CountInvImplies == CountInv => CountTrue
<1> SUFFICES ASSUME CountInv, ~upset, At("plus") = {}, At("minus") = {}
             PROVE  memberCount = Cardinality(Confirmed)
  BY DEF CountTrue
<1>1. Cardinality(At("plus")) = 0 /\ Cardinality(At("minus")) = 0
  BY FS_EmptySet
<1> QED
  BY <1>1, FiniteLists DEF CountInv, Balanced, ListTypeOK

-----------------------------------------------------------------------------
(* The broadcast: types.                                                   *)

\* The list changes only by its own steps.
LEMMA ListKept == [Next]_vars => ListStep \/ UNCHANGED listVars
  BY DEF Next, vars, Poll, Recover, Execute, Remove, Check, Lock, Acquire, Refused, Begin,
         Fill, Page, ReadPage, SendTo, Save, Complete, Failed, SetProgress, Unlock, Reject,
         Throw, Die, LockExpires

LEMMA InitTypeOK == Init => TypeOK /\ CountInv
<1> SUFFICES ASSUME Init PROVE TypeOK /\ CountInv
  OBVIOUS
<1>1. CountInv
  BY InitCountInv DEF Init
<1>2. 0 \in Cursors
  BY DEF Cursors
<1>3. progress \in [status : {"none", "running", "completed", "failed"},
                    offset : Cursors, complete : BOOLEAN]
  BY <1>2 DEF Init
<1>4. /\ pc \in [Executors -> Locked \cup {"idle", "due", "check", "lock", "relock", "reject"}]
      /\ cursor \in [Executors -> Cursors] /\ page \in [Executors -> SUBSET Members]
      /\ sent \in [Members -> Nat] /\ unsaved \in [Executors -> SUBSET Members]
  BY <1>2 DEF Init
<1>5. ListTypeOK
  BY <1>1 DEF CountInv
<1> QED
  BY <1>1, <1>3, <1>4, <1>5 DEF Init, TypeOK

LEMMA NextCountInv == CountInv /\ [Next]_vars => CountInv'
<1>1. CountInv /\ UNCHANGED listVars => CountInv'
  BY DEF CountInv, ListTypeOK, Balanced, OneDecides, ReadTrue, Deciding, At, Confirmed,
         listVars
<1> QED
  BY <1>1, ListKept, ListStepInv DEF ListStep

LEMMA NextTypeOK == TypeOK /\ CountInv /\ [Next]_vars => TypeOK'
<1> SUFFICES ASSUME TypeOK, CountInv, [Next]_vars PROVE TypeOK'
  OBVIOUS
<1> USE DEF TypeOK, Locked
<1>0. ListTypeOK'
  BY NextCountInv DEF CountInv
<1>1. ASSUME NEW e \in Executors, Poll(e) \/ Recover(e) PROVE TypeOK'
  BY <1>0, <1>1 DEF Poll, Recover, Goto, histVars
<1>2. ASSUME NEW e \in Executors, Remove(e) \/ Check(e) \/ Begin(e) \/ Fill(e) PROVE TypeOK'
  BY <1>0, <1>2 DEF Remove, Check, Begin, Fill, Goto, histVars, Cursors, Confirmed
<1>3. ASSUME NEW e \in Executors, Lock(e) PROVE TypeOK'
  BY <1>0, <1>3 DEF Lock, Acquire, Refused, Goto, Forget, Cursors
<1>4. ASSUME NEW e \in Executors, Page(e) PROVE TypeOK'
  <2>1. PICK P \in Pages(Below(cursor[e])), c \in Cursors :
          /\ page' = [page EXCEPT ![e] = P]
          /\ Goto(e, "page", IF P = {} THEN "save" ELSE "send")
          /\ cursor' = [cursor EXCEPT ![e] = c]
    BY <1>4 DEF Page, ReadPage
  <2>2. P \subseteq Members
    BY DEF Pages, Below, Confirmed
  <2> QED
    BY <1>0, <1>4, <2>1, <2>2 DEF Page, ReadPage, Goto, histVars
<1>5. ASSUME NEW e \in Executors, NEW m \in Members, SendTo(e, m) PROVE TypeOK'
  BY <1>0, <1>5 DEF SendTo, Goto
<1>6. ASSUME NEW e \in Executors, Save(e) \/ Complete(e) \/ Failed(e) PROVE TypeOK'
  BY <1>0, <1>6 DEF Save, Complete, Failed, SetProgress, Goto
<1>7. ASSUME NEW e \in Executors, Unlock(e) \/ Reject(e) \/ Throw(e) \/ Die(e) PROVE TypeOK'
  BY <1>0, <1>7 DEF Unlock, Reject, Throw, Die, Goto, Forget, Cursors
<1>8. CASE LockExpires
  BY <1>0, <1>8 DEF LockExpires
<1>9. CASE ListStep
  BY <1>0, <1>9 DEF ListStep, execVars
<1>10. CASE UNCHANGED vars
  BY <1>0, <1>10 DEF vars, execVars, histVars
<1> QED
  BY <1>1, <1>2, <1>3, <1>4, <1>5, <1>6, <1>7, <1>8, <1>9, <1>10 DEF Next, Execute

\* Every variable keeps its type (packages/core/src/broadcast/service.ts:44-240).
THEOREM TypeCorrect == Spec => []TypeOK
<1>1. Init => TypeOK /\ CountInv
  BY InitTypeOK
<1>2. TypeOK /\ CountInv /\ [Next]_vars => (TypeOK /\ CountInv)'
  BY NextTypeOK, NextCountInv
<1> QED
  BY <1>1, <1>2, PTL DEF Spec

\* Except after the races and the failures that upset stands for, a list's member
\* count is the number of its confirmed members whenever no call is between its row
\* and the count (packages/core/src/lists/membership.ts:60-175).
THEOREM CountIsTrue == Spec => []CountTrue
<1>1. Init => CountInv
  BY InitTypeOK
<1>2. CountInv /\ [Next]_vars => CountInv'
  BY NextCountInv
<1>3. CountInv => CountTrue
  BY CountInvImplies
<1> QED
  BY <1>1, <1>2, <1>3, PTL DEF Spec

-----------------------------------------------------------------------------
(* The broadcast: how it starts.                                           *)

LEMMA InitStartInv == Init => StartInv
  BY DEF Init, StartInv

LEMMA NextStartInv == TypeOK /\ StartInv /\ [Next]_vars => StartInv'
<1> SUFFICES ASSUME TypeOK, StartInv, [Next]_vars PROVE StartInv'
  OBVIOUS
<1> USE DEF TypeOK, StartInv
<1>1. ASSUME NEW e \in Executors, Poll(e) \/ Recover(e) \/ Remove(e) \/ Check(e) PROVE StartInv'
  BY <1>1 DEF Poll, Recover, Remove, Check, Goto, histVars
<1>2. ASSUME NEW e \in Executors, Begin(e) PROVE StartInv'
  <2>1. \A f \in Executors : pc'[f] \in {"idle", "due", "fill"}
    BY <1>2 DEF Begin, Goto
  <2>2. ~scheduled' /\ progress'.status = "running"
    BY <1>2 DEF Begin, Goto
  <2> QED
    BY <2>1, <2>2
<1>11. ASSUME NEW e \in Executors, Fill(e) PROVE StartInv'
  <2>1. ~scheduled' /\ progress'.status = progress.status /\ progress.status # "none" /\ sent' = sent
    BY <1>11 DEF Fill, Goto, histVars
  <2>2. pc' = [pc EXCEPT ![e] = "page"]
    BY <1>11 DEF Fill, Goto
  <2> QED
    BY <2>1, <2>2
<1>3. ASSUME NEW e \in Executors, Lock(e) PROVE StartInv'
  BY <1>3 DEF Lock, Acquire, Refused, Goto, Forget
<1>4. ASSUME NEW e \in Executors, Page(e) PROVE StartInv'
  <2>1. PICK t \in {"save", "send"} : Goto(e, "page", t)
    BY <1>4 DEF Page, ReadPage
  <2>2. UNCHANGED <<scheduled, progress, sent>>
    BY <1>4 DEF Page, ReadPage, histVars
  <2> QED
    BY <2>1, <2>2 DEF Goto
<1>5. ASSUME NEW e \in Executors, NEW m \in Members, SendTo(e, m) PROVE StartInv'
  BY <1>5 DEF SendTo, Goto
<1>6. ASSUME NEW e \in Executors, Save(e) \/ Complete(e) \/ Failed(e) PROVE StartInv'
  BY <1>6 DEF Save, Complete, Failed, SetProgress, Goto
<1>7. ASSUME NEW e \in Executors, Unlock(e) \/ Reject(e) \/ Throw(e) \/ Die(e) PROVE StartInv'
  BY <1>7 DEF Unlock, Reject, Throw, Die, Goto, Forget
<1>8. CASE LockExpires
  BY <1>8 DEF LockExpires
<1>9. CASE ListStep
  BY <1>9 DEF ListStep, execVars
<1>10. CASE UNCHANGED vars
  BY <1>10 DEF vars, execVars, histVars
<1> QED
  BY <1>1, <1>2, <1>3, <1>4, <1>5, <1>6, <1>7, <1>8, <1>9, <1>10, <1>11 DEF Next, Execute

-----------------------------------------------------------------------------
(* The broadcast: once to each member.                                     *)

OnceInv == SendInv /\ SentOnce

LEMMA InitOnceInv == Init => OnceInv
  BY DEF Init, OnceInv, SendInv, SentOnce, Working, Locked, Untried

\* While the lock has not been lost, one executor at most is at work, and only its
\* sends can be unsaved.
LEMMA OneWorker ==
  ASSUME TypeOK, SendInv, ~overtaken
  PROVE  /\ \A e, f \in Executors : Working(e) /\ Working(f) => e = f
         /\ \A e \in Executors : unsaved[e] # {} => Working(e)
         /\ lock = None => \A e \in Executors : ~Working(e) /\ unsaved[e] = {}
  BY BroadcastAssumption DEF BroadcastAssumption, SendInv, Working, Locked

\* The executor that begins, or resumes, finds its members untried.
LEMMA BeginOnce ==
  ASSUME TypeOK, StartInv, OnceInv, NEW e \in Executors,
         Lock(e) \/ Begin(e) \/ Fill(e)
  PROVE  OnceInv'
<1> SUFFICES ASSUME ~overtaken' PROVE OnceInv'
  BY DEF OnceInv, SendInv, SentOnce
<1>1. ~overtaken /\ OnceInv
  BY DEF Lock, Acquire, Refused, Begin, Fill, histVars, TypeOK
<1>2. SentOnce'
  BY <1>1 DEF OnceInv, SentOnce, Lock, Acquire, Refused, Begin, Fill, histVars
<1>3. CASE Acquire(e) /\ lock = None
  <2>1. /\ \A f \in Executors : ~Working(f) /\ unsaved[f] = {}
        /\ UNCHANGED <<progress, cursor, page, sent, inDoubt, unsaved>>
    BY <1>1, <1>3, OneWorker DEF OnceInv, Acquire
  <2>2. PICK t \in {"begin", "page"} :
          /\ \A f \in Executors : (pc[f])' = IF f = e THEN t ELSE pc[f]
          /\ t = "page" => progress.status = "running" /\ progress.offset = cursor[e]
    BY <1>1, <1>3 DEF Acquire, Goto, TypeOK
  <2>3. lock' = e /\ \A f \in Executors : Working(f)' => f = e
    BY <1>3, <2>1, <2>2 DEF Acquire, Working
  <2>4. t = "page" => Untried(Ahead(cursor[e]))'
    <3>1. UNION {unsaved[f] : f \in Executors} = {}
      BY <2>1
    <3>2. t = "page" => Untried(Ahead(cursor[e]))
      BY <1>1, <2>2, <3>1 DEF OnceInv, SendInv, Untried
    <3> QED
      BY <2>1, <3>2 DEF Untried, Ahead
  <2>5. (progress.status = "running" =>
          Untried(Ahead(progress.offset) \ UNION {unsaved[f] : f \in Executors}))'
    BY <1>1, <2>1 DEF OnceInv, SendInv, Untried, Ahead
  <2>6. SendInv'
    BY <2>1, <2>2, <2>3, <2>4, <2>5 DEF SendInv, Working, Locked
  <2> QED
    BY <1>2, <2>6 DEF OnceInv
<1>4. CASE Refused(e)
  BY <1>1, <1>2, <1>4
     DEF OnceInv, SendInv, Refused, Goto, Forget, Working, Locked, TypeOK, Untried, Ahead
<1>5. CASE Begin(e)
  <2>1. \A m \in Members : sent'[m] = 0
    BY <1>5 DEF Begin, Goto, StartInv
  <2> QED
    BY <1>1, <1>2, <1>5, <2>1
       DEF OnceInv, SendInv, Begin, Goto, Working, Locked, TypeOK, Untried, Ahead
<1>6. CASE Fill(e)
  BY <1>1, <1>2, <1>6
     DEF OnceInv, SendInv, Fill, Goto, Working, Locked, TypeOK, Untried, Ahead, histVars
<1> QED
  BY <1>3, <1>4, <1>5, <1>6 DEF Lock

\* A page holds members ahead of the cursor, and the next cursor is not above it.
LEMMA PageFacts ==
  ASSUME TypeOK, NEW c \in Cursors, NEW P \in Pages(Below(c)), NEW d \in Cursors,
         IsCursor(d, P, Below(c))
  PROVE  /\ P \subseteq Below(c) /\ Below(c) \subseteq Ahead(c) /\ P \subseteq Members
         /\ d # 0 => P # {} /\ Ahead(d) \subseteq Ahead(c) /\ \A p \in P : d <= Created[p]
         /\ d = 0 => P = Below(c)
<1> USE ListAssumption DEF ListAssumption
<1>1. P \subseteq Below(c) /\ Below(c) \subseteq Ahead(c) /\ P \subseteq Members
  BY DEF Pages, Below, Ahead, Confirmed
<1>2. P # Below(c) => \E oldest \in P : d = Created[oldest] /\ \A p \in P : Created[oldest] <= Created[p]
  BY DEF IsCursor
<1>3. P = Below(c) => d = 0
  BY DEF IsCursor
<1>4. \A m \in Members : Created[m] \in Nat /\ Created[m] # 0
  OBVIOUS
<1>5. c \in Nat /\ d \in Nat
  BY <1>4 DEF Cursors
<1>6. d # 0 => Ahead(d) \subseteq Ahead(c)
  <2> SUFFICES ASSUME d # 0, NEW m \in Members, Created[m] < d, c # 0 PROVE Created[m] < c
    BY DEF Ahead
  <2>1. PICK oldest \in P : d = Created[oldest]
    BY <1>2, <1>3
  <2>2. oldest \in Members /\ Created[oldest] < c
    BY <1>1 DEF Below
  <2> QED
    BY <1>4, <1>5, <2>1, <2>2
<1> QED
  BY <1>1, <1>2, <1>3, <1>4, <1>6

LEMMA PageOnce ==
  ASSUME TypeOK, OnceInv, NEW e \in Executors, Page(e) PROVE OnceInv'
<1> SUFFICES ASSUME ~overtaken' PROVE OnceInv'
  BY DEF OnceInv, SendInv, SentOnce
<1>1. ~overtaken /\ UNCHANGED <<lock, progress, sent, unsaved, inDoubt, overtaken>>
  BY DEF Page, ReadPage, histVars
<1>2. PICK P \in Pages(Below(cursor[e])), c \in Cursors :
        /\ page' = [page EXCEPT ![e] = P]
        /\ Goto(e, "page", IF P = {} THEN "save" ELSE "send")
        /\ IsCursor(c, P, Below(cursor[e]))
        /\ cursor' = [cursor EXCEPT ![e] = c]
  BY DEF Page, ReadPage
<1>3. cursor[e] \in Cursors
  BY DEF TypeOK
<1>4. /\ P \subseteq Ahead(cursor[e])
      /\ c # 0 => Ahead(c) \subseteq Ahead(cursor[e]) /\ \A p \in P : c <= Created[p]
  BY <1>2, <1>3, PageFacts
<1>5. Untried(Ahead(cursor[e]))
  BY <1>1, <1>2 DEF OnceInv, SendInv, Goto
<1>6. Untried(P)' /\ (c # 0 => Untried(Ahead(c))')
  BY <1>1, <1>4, <1>5 DEF Untried, Ahead
<1>7. PICK t \in {"save", "send"} :
        \A f \in Executors : (pc[f])' = IF f = e THEN t ELSE pc[f]
  BY <1>2 DEF Goto, TypeOK
<1>8. /\ \A f \in Executors : (page[f])' = IF f = e THEN P ELSE page[f]
      /\ \A f \in Executors : (cursor[f])' = IF f = e THEN c ELSE cursor[f]
      /\ pc[e] = "page"
  BY <1>2 DEF Goto, TypeOK
<1>9. (progress.status = "running" =>
        Untried(Ahead(progress.offset) \ UNION {unsaved[f] : f \in Executors}))'
  BY <1>1 DEF OnceInv, SendInv, Untried, Ahead
<1>10. \A f \in Executors : Working(f)' => lock' = f
  BY <1>1, <1>7, <1>8 DEF OnceInv, SendInv, Working, Locked
<1>11. \A f \in Executors \ {e} : Untried(Ahead(cursor[f]))' <=> Untried(Ahead(cursor[f]))
  BY <1>1, <1>8 DEF Untried, Ahead
<1>12. SendInv'
  BY <1>1, <1>4, <1>6, <1>7, <1>8, <1>9, <1>10, <1>11
     DEF OnceInv, SendInv, Untried
<1>13. SentOnce'
  BY <1>1 DEF OnceInv, SentOnce
<1> QED
  BY <1>12, <1>13 DEF OnceInv

LEMMA SendOnce ==
  ASSUME TypeOK, OnceInv, NEW e \in Executors, NEW m \in Members, SendTo(e, m)
  PROVE  OnceInv'
<1> SUFFICES ASSUME ~overtaken' PROVE OnceInv'
  BY DEF OnceInv, SendInv, SentOnce
<1>1. /\ ~overtaken /\ UNCHANGED <<lock, progress, cursor, inDoubt, overtaken>>
      /\ m \in page[e] /\ pc[e] = "send"
      /\ \A f \in Executors : (page[f])' = IF f = e THEN page[e] \ {m} ELSE page[f]
      /\ \A k \in Members : (sent[k])' = IF k = m THEN sent[m] + 1 ELSE sent[k]
      /\ \A f \in Executors : (unsaved[f])' = IF f = e THEN unsaved[e] \cup {m} ELSE unsaved[f]
  BY DEF SendTo, Goto, TypeOK
<1>2. PICK t \in {"save", "send"} :
        \A f \in Executors : (pc[f])' = IF f = e THEN t ELSE pc[f]
  BY DEF SendTo, Goto, TypeOK
<1>3. sent[m] = 0 \/ m \in inDoubt
  BY <1>1 DEF OnceInv, SendInv, Untried
<1>4. SentOnce'
  BY <1>1, <1>3 DEF OnceInv, SentOnce, TypeOK
<1>5. \A f \in Executors : f # e => ~Working(f)
  BY <1>1, OneWorker DEF OnceInv, Working, Locked
<1>6. cursor[e] # 0 => Untried(Ahead(cursor[e]))'
  <2>1. cursor[e] # 0 => Untried(Ahead(cursor[e])) /\ cursor[e] <= Created[m]
    BY <1>1 DEF OnceInv, SendInv
  <2>2. cursor[e] \in Nat /\ Created[m] \in Nat
    BY ListAssumption DEF ListAssumption, TypeOK, Cursors
  <2>3. cursor[e] # 0 => m \notin Ahead(cursor[e])
    BY <2>1, <2>2 DEF Ahead
  <2> QED
    BY <1>1, <2>1, <2>3 DEF Untried, Ahead
<1>7. Untried(page[e])'
  BY <1>1 DEF OnceInv, SendInv, Untried, TypeOK
<1>8. (progress.status = "running" =>
        Untried(Ahead(progress.offset) \ UNION {unsaved[f] : f \in Executors}))'
  BY <1>1 DEF OnceInv, SendInv, Untried, Ahead
<1>9. lock = e /\ \A f \in Executors : (Working(f))' => f = e
  BY <1>1, <1>2, <1>5 DEF OnceInv, SendInv, Working, Locked
<1>10. SendInv'
  BY <1>1, <1>2, <1>5, <1>6, <1>7, <1>8, <1>9, OneWorker
     DEF OnceInv, SendInv, Working, Locked
<1> QED
  BY <1>4, <1>10 DEF OnceInv

\* Saving, ending, and whatever goes wrong.
LEMMA EndOnce ==
  ASSUME TypeOK, StartInv, OnceInv, NEW e \in Executors,
         \/ Save(e) \/ Complete(e) \/ Failed(e) \/ Unlock(e) \/ Reject(e)
         \/ Throw(e) \/ Die(e)
  PROVE  OnceInv'
<1> SUFFICES ASSUME ~overtaken' PROVE OnceInv'
  BY DEF OnceInv, SendInv, SentOnce
<1>1. ~overtaken /\ UNCHANGED <<sent, overtaken>> /\ inDoubt \subseteq inDoubt'
  BY DEF Save, Complete, Failed, SetProgress, Unlock, Reject, Throw, Die
<1>2. SentOnce'
  BY <1>1 DEF OnceInv, SentOnce
<1>3. CASE Save(e)
  <2>1. (progress.status = "running" =>
          Untried(Ahead(progress.offset) \ UNION {unsaved[f] : f \in Executors}))'
    <3>1. /\ progress'.offset = cursor[e]
          /\ unsaved'[e] = IF cursor[e] = 0 THEN Members ELSE {}
      BY <1>3 DEF Save, TypeOK
    <3>2. CASE cursor[e] = 0
      BY <3>1, <3>2 DEF Untried, Ahead
    <3>3. CASE cursor[e] # 0
      BY <1>1, <1>3, <3>1, <3>3 DEF OnceInv, SendInv, Untried, Ahead, Save, Goto
    <3> QED
      BY <3>2, <3>3
  <2> QED
    BY <1>1, <1>2, <1>3, <2>1
       DEF OnceInv, SendInv, Save, Goto, Working, Locked, TypeOK, Untried, Ahead
<1>4. CASE Complete(e) \/ Failed(e)
  <2>1. progress'.status # "running"
    BY <1>4 DEF Complete, Failed, SetProgress, TypeOK
  <2> QED
    BY <1>1, <1>2, <1>4, <2>1 DEF OnceInv, SendInv, Complete, Failed, SetProgress, Goto,
                                 Working, Locked, TypeOK, Untried, Ahead
<1>5. CASE Reject(e)
  <2>1. progress'.status # "running"
    BY <1>5 DEF Reject, TypeOK
  <2> QED
    BY <1>1, <1>2, <1>5, <2>1
       DEF OnceInv, SendInv, Reject, Forget, Goto, Working, Locked, TypeOK, Untried, Ahead
<1>6. CASE Unlock(e)
  <2>1. progress'.status # "running" /\ UNCHANGED <<sent, inDoubt>>
    BY <1>6 DEF Unlock, Goto, StartInv
  <2>2. \A f \in Executors : f # e => ~Working(f)
    BY <1>1, <1>6, OneWorker DEF OnceInv, Unlock, Goto, Working, Locked
  <2> QED
    BY <1>1, <1>2, <1>6, <2>1, <2>2
       DEF OnceInv, SendInv, Unlock, Forget, Goto, Working, Locked, TypeOK, Untried, Ahead
<1>7. CASE Throw(e)
  BY <1>1, <1>2, <1>7
     DEF OnceInv, SendInv, Throw, Goto, Working, Locked, TypeOK, Untried, Ahead
<1>8. CASE Die(e)
  <2>1. (progress.status = "running" =>
          Untried(Ahead(progress.offset) \ UNION {unsaved[f] : f \in Executors}))'
    BY <1>1, <1>8 DEF OnceInv, SendInv, Die, Forget, Untried, Ahead, TypeOK
  <2> QED
    BY <1>1, <1>2, <1>8, <2>1
       DEF OnceInv, SendInv, Die, Forget, Goto, Working, Locked, TypeOK, Untried, Ahead
<1> QED
  BY <1>3, <1>4, <1>5, <1>6, <1>7, <1>8

LEMMA NextOnceInv == TypeOK /\ StartInv /\ OnceInv /\ [Next]_vars => OnceInv'
<1> SUFFICES ASSUME TypeOK, StartInv, OnceInv, [Next]_vars PROVE OnceInv'
  OBVIOUS
<1>1. ASSUME NEW e \in Executors, Poll(e) \/ Recover(e) \/ Remove(e) \/ Check(e) PROVE OnceInv'
  BY <1>1 DEF OnceInv, SendInv, SentOnce, Poll, Recover, Remove, Check, Goto, histVars,
              Working, Locked, TypeOK, Untried, Ahead
<1>2. CASE LockExpires
  <2> SUFFICES ASSUME ~overtaken' PROVE OnceInv'
    BY DEF OnceInv, SendInv, SentOnce
  <2>1. /\ ~overtaken /\ ~Working(lock) /\ lock # None
        /\ UNCHANGED <<progress, pc, cursor, page, sent, unsaved, inDoubt>>
    BY <1>2 DEF LockExpires, TypeOK
  <2>2. \A f \in Executors : ~Working(f)
    BY <2>1 DEF OnceInv, SendInv
  <2> QED
    BY <2>1, <2>2 DEF OnceInv, SendInv, SentOnce, Untried, Ahead, Working
<1>3. CASE ListStep \/ UNCHANGED vars
  BY <1>3 DEF OnceInv, SendInv, SentOnce, ListStep, vars, execVars, histVars, Working,
              Untried, Ahead
<1> QED
  BY <1>1, <1>2, <1>3, BeginOnce, PageOnce, SendOnce, EndOnce DEF Next, Execute

\* Whatever crashes, failing commands, recoveries and list changes come, a member is
\* sent to once, unless an executor died with its page unsaved, the lock expired under
\* its holder or a recovery acted on progress read too early
\* (packages/core/src/broadcast/service.ts:74-240).
THEOREM SentOnceHolds == Spec => []SentOnce
<1>1. Init => TypeOK /\ CountInv /\ StartInv /\ OnceInv
  BY InitTypeOK, InitStartInv, InitOnceInv
<1>2. TypeOK /\ CountInv /\ StartInv /\ OnceInv /\ [Next]_vars
      => (TypeOK /\ CountInv /\ StartInv /\ OnceInv)'
  BY NextTypeOK, NextCountInv, NextStartInv, NextOnceInv
<1>3. OnceInv => SentOnce
  BY DEF OnceInv
<1> QED
  BY <1>1, <1>2, <1>3, PTL DEF Spec

-----------------------------------------------------------------------------
(* The broadcast: nobody left out.                                         *)

LEMMA InitReachInv == Init => ReachInv
  BY DEF Init, ReachInv, Confirmed

\* Who has been reached stays so, and who is no longer steady needs nothing.
LEMMA ReachedKept ==
  ASSUME TypeOK, \A m \in Members : sent'[m] >= sent[m], sent' \in [Members -> Nat]
  PROVE  \A m \in Members : Reached(m) => Reached(m)'
  BY DEF Reached, TypeOK

LEMMA SteadyKept ==
  ASSUME TypeOK, ReachInv, [Next]_vars, \A e \in Executors : ~Begin(e)
  PROVE  steady' \subseteq steady /\ (steady \subseteq Confirmed)'
<1>1. CASE ListStep
  <2>1. steady' = {m \in steady : status'[m] = "confirmed"}
    BY <1>1 DEF ListStep
  <2> QED
    BY <2>1 DEF Confirmed, TypeOK
<1>2. CASE UNCHANGED listVars
  <2>1. steady' = steady \/ ListStep
    BY DEF Next, Execute, vars, histVars, Poll, Recover, Remove, Check, Lock, Acquire,
           Refused, Fill, Page, ReadPage, SendTo, Save, Complete, Failed, SetProgress,
           Unlock, Reject, Throw, Die, LockExpires
  <2> QED
    BY <1>1, <1>2, <2>1 DEF ReachInv, Confirmed, listVars
<1> QED
  BY <1>1, <1>2, ListKept

LEMMA SentKept ==
  TypeOK /\ [Next]_vars => /\ sent' \in [Members -> Nat]
                           /\ \A m \in Members : sent'[m] >= sent[m]
<1> SUFFICES ASSUME TypeOK, [Next]_vars
             PROVE  sent' \in [Members -> Nat] /\ \A m \in Members : sent'[m] >= sent[m]
  OBVIOUS
<1>1. ASSUME NEW e \in Executors, NEW m \in Members, SendTo(e, m)
      PROVE  sent' \in [Members -> Nat] /\ \A k \in Members : sent'[k] >= sent[k]
  BY <1>1 DEF SendTo, TypeOK
<1>2. CASE sent' = sent
  BY <1>2 DEF TypeOK
<1>3. sent' = sent \/ \E e \in Executors, m \in Members : SendTo(e, m)
  BY DEF Next, Execute, vars, histVars, Poll, Recover, Remove, Check, Lock, Acquire,
         Refused, Begin, Fill, Page, ReadPage, Save, Complete, Failed, SetProgress,
         Unlock, Reject, Throw, Die, LockExpires, ListStep
<1> QED
  BY <1>1, <1>2, <1>3

\* What a step other than Begin keeps of what has been reached.
LEMMA ReachKept ==
  ASSUME TypeOK, ReachInv, [Next]_vars, \A e \in Executors : ~Begin(e)
  PROVE  /\ steady' \subseteq steady /\ steady' \subseteq Members
         /\ (steady \subseteq Confirmed)'
         /\ \A m \in Members : Reached(m) => Reached(m)'
         /\ \A c \in Cursors : ReachedFrom(c) => ReachedFrom(c)'
<1>1. steady' \subseteq steady /\ (steady \subseteq Confirmed)' /\ steady' \subseteq Members
  BY SteadyKept DEF TypeOK
<1>2. \A m \in Members : Reached(m) => Reached(m)'
  BY SentKept, ReachedKept
<1> QED
  BY <1>1, <1>2 DEF ReachedFrom

\* Steps that leave the pages, the members sent to and the saved offset alone.
LEMMA QuietReach ==
  ASSUME TypeOK, StartInv, ReachInv, [Next]_vars,
         \/ \E e \in Executors :
              \/ Poll(e) \/ Recover(e) \/ Remove(e) \/ Check(e) \/ Lock(e) \/ Fill(e)
              \/ Complete(e) \/ Failed(e) \/ Unlock(e) \/ Reject(e) \/ Throw(e) \/ Die(e)
         \/ LockExpires \/ ListStep \/ UNCHANGED vars
  PROVE  ReachInv'
<1>1. \A e \in Executors : ~Begin(e)
  BY DEF Begin, Poll, Recover, Remove, Check, Lock, Acquire, Refused, Fill, Complete,
         Failed, SetProgress, Unlock, Reject, Throw, Die, LockExpires, ListStep, vars,
         execVars, histVars, Goto, TypeOK
<1>2. /\ steady' \subseteq steady /\ steady' \subseteq Members
      /\ (steady \subseteq Confirmed)'
      /\ \A m \in Members : Reached(m) => Reached(m)'
      /\ \A c \in Cursors : ReachedFrom(c) => ReachedFrom(c)'
  BY <1>1, ReachKept
<1>3. ASSUME NEW e \in Executors, Poll(e) \/ Recover(e) \/ Remove(e) \/ Check(e) PROVE ReachInv'
  BY <1>2, <1>3 DEF ReachInv, Poll, Recover, Remove, Check, Goto, TypeOK, histVars
<1>4. ASSUME NEW e \in Executors, Lock(e) \/ Fill(e) PROVE ReachInv'
  BY <1>2, <1>4 DEF ReachInv, Lock, Acquire, Refused, Fill, Goto, Forget, TypeOK, histVars
<1>5. ASSUME NEW e \in Executors, Complete(e) \/ Failed(e) PROVE ReachInv'
  BY <1>2, <1>5 DEF ReachInv, Complete, Failed, SetProgress, Goto, TypeOK, StartInv
<1>6. ASSUME NEW e \in Executors, Unlock(e) \/ Reject(e) PROVE ReachInv'
  BY <1>2, <1>6 DEF ReachInv, Unlock, Reject, Goto, Forget, TypeOK, StartInv
<1>7. ASSUME NEW e \in Executors, Throw(e) \/ Die(e) PROVE ReachInv'
  BY <1>2, <1>7 DEF ReachInv, Throw, Die, Goto, Forget, TypeOK
<1>8. CASE LockExpires \/ ListStep \/ UNCHANGED vars
  BY <1>2, <1>8 DEF ReachInv, LockExpires, ListStep, vars, execVars, histVars, TypeOK
<1> QED
  BY <1>3, <1>4, <1>5, <1>6, <1>7, <1>8

LEMMA BeginReach ==
  ASSUME TypeOK, StartInv, ReachInv, NEW e \in Executors, Begin(e) PROVE ReachInv'
<1>1. steady' = Confirmed /\ Confirmed' = Confirmed
  BY DEF Begin, Confirmed, listVars
<1>2. progress'.status = "running" /\ progress'.offset = 0
  BY DEF Begin, TypeOK
<1>3. \A f \in Executors : pc'[f] \in {"idle", "due"} \/ (pc'[f] = "fill" /\ cursor'[f] = 0)
  BY DEF Begin, Goto, StartInv, TypeOK
<1>4. ReachedFrom(0)'
  BY DEF ReachedFrom
<1> QED
  BY <1>1, <1>2, <1>3, <1>4 DEF ReachInv

LEMMA PageReach ==
  ASSUME TypeOK, ReachInv, [Next]_vars, NEW e \in Executors, Page(e) PROVE ReachInv'
<1>1. \A f \in Executors : ~Begin(f)
  BY DEF Begin, Page, ReadPage, Goto, TypeOK
<1>2. /\ steady' \subseteq steady /\ steady' \subseteq Members
      /\ (steady \subseteq Confirmed)'
      /\ \A m \in Members : Reached(m) => Reached(m)'
      /\ \A c \in Cursors : ReachedFrom(c) => ReachedFrom(c)'
  BY <1>1, ReachKept
<1>3. PICK P \in Pages(Below(cursor[e])), d \in Cursors :
        /\ page' = [page EXCEPT ![e] = P]
        /\ Goto(e, "page", IF P = {} THEN "save" ELSE "send")
        /\ IsCursor(d, P, Below(cursor[e]))
        /\ cursor' = [cursor EXCEPT ![e] = d]
  BY DEF Page, ReadPage
<1>4. P \subseteq Members
  BY DEF Pages, Below, Confirmed
<1>5. ASSUME NEW m \in steady, d = 0 \/ d <= Created[m]
      PROVE  Reached(m) \/ \E q \in P : Created[q] = Created[m]
  <2>1. CASE cursor[e] # 0 /\ cursor[e] <= Created[m]
    BY <1>3, <2>1 DEF ReachInv, ReachedFrom, Goto
  <2>2. CASE cursor[e] = 0 \/ Created[m] < cursor[e]
    <3>1. m \in Below(cursor[e])
      BY <2>2 DEF ReachInv, Below
    <3>2. CASE m \in P
      BY <3>2
    <3>3. CASE m \notin P
      <4>1. PICK oldest \in P : d = Created[oldest]
        BY <1>3, <3>1, <3>3 DEF IsCursor
      <4>2. Created[m] <= Created[oldest]
        BY <3>1, <3>3, <4>1 DEF Pages
      <4>3. Created[m] \in Nat /\ Created[oldest] \in Nat /\ Created[oldest] # 0
        BY <1>4, ListAssumption DEF ListAssumption, TypeOK
      <4>4. Created[m] = Created[oldest]
        BY <1>5, <4>1, <4>2, <4>3
      <4> QED
        BY <4>4
    <3> QED
      BY <3>2, <3>3
  <2>3. cursor[e] \in Nat /\ Created[m] \in Nat
    BY ListAssumption DEF ListAssumption, TypeOK, Cursors
  <2> QED
    BY <2>1, <2>2, <2>3
<1>6. /\ UNCHANGED progress
      /\ \A f \in Executors : (page[f])' = IF f = e THEN P ELSE page[f]
      /\ \A f \in Executors : (cursor[f])' = IF f = e THEN d ELSE cursor[f]
      /\ \A f \in Executors : (pc[f])' = IF f = e THEN IF P = {} THEN "save" ELSE "send" ELSE pc[f]
  BY <1>3 DEF Page, Goto, TypeOK
<1> QED
  BY <1>2, <1>4, <1>5, <1>6 DEF ReachInv, TypeOK

LEMMA SendReach ==
  ASSUME TypeOK, ReachInv, [Next]_vars, NEW e \in Executors, NEW m \in Members, SendTo(e, m)
  PROVE  ReachInv'
<1>1. \A f \in Executors : ~Begin(f)
  BY DEF Begin, SendTo, Goto, TypeOK
<1>2. /\ steady' \subseteq steady /\ steady' \subseteq Members
      /\ (steady \subseteq Confirmed)'
      /\ \A k \in Members : Reached(k) => Reached(k)'
      /\ \A c \in Cursors : ReachedFrom(c) => ReachedFrom(c)'
  BY <1>1, ReachKept
<1>3. /\ UNCHANGED <<progress, cursor>> /\ m \in page[e] /\ pc[e] = "send"
      /\ \A f \in Executors : (page[f])' = IF f = e THEN page[e] \ {m} ELSE page[f]
      /\ sent'[m] = sent[m] + 1
      /\ \A f \in Executors :
           (pc[f])' = IF f = e THEN IF page[e] = {m} THEN "save" ELSE "send" ELSE pc[f]
  BY DEF SendTo, Goto, TypeOK
<1>4. \A k \in Members : Created[k] = Created[m] => Reached(k)'
  BY <1>3 DEF Reached, TypeOK
<1> QED
  BY <1>2, <1>3, <1>4 DEF ReachInv, TypeOK

LEMMA SaveReach ==
  ASSUME TypeOK, ReachInv, [Next]_vars, NEW e \in Executors, Save(e) PROVE ReachInv'
<1>1. \A f \in Executors : ~Begin(f)
  BY DEF Begin, Save, Goto, TypeOK
<1>2. /\ steady' \subseteq steady /\ steady' \subseteq Members
      /\ (steady \subseteq Confirmed)'
      /\ \A m \in Members : Reached(m) => Reached(m)'
      /\ \A c \in Cursors : ReachedFrom(c) => ReachedFrom(c)'
  BY <1>1, ReachKept
<1>3. /\ ReachedFrom(cursor[e])
      /\ cursor[e] = 0 => \A m \in steady : Reached(m)
  BY DEF ReachInv, ReachedFrom, Save, Goto
<1>4. /\ UNCHANGED <<cursor, page>> /\ pc[e] = "save"
      /\ progress'.status = progress.status /\ progress'.offset = cursor[e]
      /\ \A f \in Executors :
           (pc[f])' = IF f = e THEN IF cursor[e] = 0 THEN "complete" ELSE "page" ELSE pc[f]
  BY DEF Save, Goto, TypeOK
<1> QED
  BY <1>2, <1>3, <1>4 DEF ReachInv, TypeOK

LEMMA NextReachInv == TypeOK /\ StartInv /\ ReachInv /\ [Next]_vars => ReachInv'
  BY QuietReach, BeginReach, PageReach, SendReach, SaveReach DEF Next, Execute

\* A broadcast that is marked completed has tried every member confirmed from its
\* start on, or another one created in the same millisecond, through crashes,
\* recoveries and executions that overlap
\* (packages/core/src/broadcast/service.ts:74-240, list-member repository :107-140).
THEOREM NobodyLeftOutHolds == Spec => []NobodyLeftOut
<1>1. Init => TypeOK /\ CountInv /\ StartInv /\ ReachInv
  BY InitTypeOK, InitStartInv, InitReachInv
<1>2. TypeOK /\ CountInv /\ StartInv /\ ReachInv /\ [Next]_vars
      => (TypeOK /\ CountInv /\ StartInv /\ ReachInv)'
  BY NextTypeOK, NextCountInv, NextStartInv, NextReachInv
<1>3. TypeOK /\ ReachInv => NobodyLeftOut
  BY DEF ReachInv, Reached, NobodyLeftOut, TypeOK
<1> QED
  BY <1>1, <1>2, <1>3, PTL DEF Spec
=============================================================================
