----------------------------- MODULE ResendProofs -----------------------------
(***************************************************************************)
(* For any number of letters, requests, calls and channels: a dead letter  *)
(* is sent twice only by two requests that raced for it, and none is left  *)
(* marked as retrying without a fault; retrying through the pipeline       *)
(* implements that, no channel gets a letter twice without a race, nobody  *)
(* is sent what they had refused before the call, the rate limit holds.    *)
(***************************************************************************)
EXTENDS Resend, FiniteSetTheorems, TLAPS

-----------------------------------------------------------------------------
(* The administration of the dead letters.                                 *)

\* Changing one request's label moves that request only.
LEMMA GotoEffect ==
  ASSUME TypeOK, NEW r \in Requests, NEW from, NEW to, Goto(r, from, to)
  PROVE  pc[r] = from /\ pc'[r] = to /\ \A q \in Requests \ {r} : pc'[q] = pc[q]
BY DEF TypeOK, Goto

LEMMA InitRetryInv == Init => RetryInv
BY DEF Init, RetryInv, TypeOK, Working, Deciding, Holding, NotStuckRetrying, Unresolved

\* Who finds a letter unresolved either is its only worker, or makes it raced.
LEMMA FindInv ==
  ASSUME RetryInv, NEW r \in Requests, NEW l \in Letters, Find(r, l)
  PROVE  RetryInv'
<1>1. /\ letter[l] = Unresolved /\ pc[r] = "idle" /\ pc'[r] \in {"claim", "discard"}
      /\ job'[r] = l /\ raced \subseteq raced'
      /\ \A q \in Requests \ {r} : pc'[q] = pc[q] /\ job'[q] = job[q]
      /\ UNCHANGED <<letter, sends, abandoned>>
      /\ l \notin raced' => \A q \in Requests : ~Deciding(q, l)
  BY DEF Find, Goto, RetryInv, TypeOK
<1>2. TypeOK'
  BY DEF Find, Goto, RetryInv, TypeOK
<1>3. ASSUME NEW k \in Letters \ raced'
      PROVE  /\ \A q, p \in Requests : Working(q, k)' /\ Working(p, k)' => q = p
             /\ (\E q \in Requests : Deciding(q, k)') => letter'[k] = Unresolved
             /\ (\E q \in Requests : Holding(q, k)') => letter'[k] \in {"retrying", "purged"}
             /\ letter'[k] = Unresolved => sends'[k] = 0
             /\ sends'[k] <= 1
             /\ \A q \in Requests :
                  pc'[q] \in {"send", "release"} /\ job'[q] = k => sends'[k] = 0
  BY <1>1, <1>3 DEF RetryInv, Working, Deciding, Holding, Unresolved
<1>4. NotStuckRetrying'
  BY <1>1 DEF RetryInv, NotStuckRetrying, Holding
<1> QED
  BY <1>1, <1>2, <1>3, <1>4 DEF RetryInv

\* A request that moves on with its own letter.
LEMMA ServeInv ==
  ASSUME RetryInv, NEW r \in Requests, Serve(r)
  PROVE  RetryInv'
<1> DEFINE l == job[r]
<1>t. TypeOK /\ l \in Letters
  BY DEF RetryInv, TypeOK
<1>1. CASE Claim(r)
  <2>1. /\ pc[r] = "claim" /\ pc'[r] = "send"
        /\ \A q \in Requests \ {r} : pc'[q] = pc[q]
        /\ letter'[l] = IF letter[l] = "purged" THEN "purged" ELSE "retrying"
        /\ \A k \in Letters \ {l} : letter'[k] = letter[k]
        /\ UNCHANGED <<job, sends, raced, abandoned>>
    BY <1>1, <1>t DEF Claim, Goto, SetResolution, TypeOK
  <2>2. TypeOK'
    BY <1>1, <1>t DEF Claim, Goto, SetResolution, TypeOK
  <2> QED
    BY <1>t, <2>1, <2>2 DEF RetryInv, Working, Deciding, Holding, NotStuckRetrying, Unresolved
<1>2. CASE Send(r)
  <2>1. /\ pc[r] = "send"
        /\ \/ pc'[r] = "settle" /\ sends'[l] = IF sends[l] = 2 THEN 2 ELSE sends[l] + 1
           \/ pc'[r] = "release" /\ sends'[l] = sends[l]
        /\ \A q \in Requests \ {r} : pc'[q] = pc[q]
        /\ \A k \in Letters \ {l} : sends'[k] = sends[k]
        /\ UNCHANGED <<letter, job, raced, abandoned>>
    BY <1>2, <1>t DEF Send, SendReturns, SendThrows, Goto, TypeOK
  <2>2. TypeOK'
    BY <1>2, <1>t DEF Send, SendReturns, SendThrows, Goto, TypeOK
  <2>3. sends[l] \in 0 .. 2 /\ sends'[l] \in 0 .. 2 /\ sends'[l] >= sends[l]
    BY <1>t, <2>1 DEF TypeOK
  <2>4. ASSUME NEW k \in Letters \ raced
        PROVE  /\ \A q, p \in Requests : Working(q, k)' /\ Working(p, k)' => q = p
               /\ (\E q \in Requests : Deciding(q, k)') => letter'[k] = Unresolved
               /\ (\E q \in Requests : Holding(q, k)') => letter'[k] \in {"retrying", "purged"}
               /\ letter'[k] = Unresolved => sends'[k] = 0
               /\ sends'[k] <= 1
               /\ \A q \in Requests :
                    pc'[q] \in {"send", "release"} /\ job'[q] = k => sends'[k] = 0
    BY <1>t, <2>1, <2>3, <2>4 DEF RetryInv, Working, Deciding, Holding, Unresolved
  <2>5. \A q \in Requests : pc'[q] = "settle" => sends'[job'[q]] > 0
    BY <1>t, <2>1, <2>3 DEF RetryInv, TypeOK
  <2>6. \A k \in Letters : letter'[k] = "retried" => sends'[k] > 0
    BY <1>t, <2>1, <2>3 DEF RetryInv, TypeOK
  <2>7. NotStuckRetrying'
    BY <2>1 DEF RetryInv, NotStuckRetrying, Holding
  <2> QED
    BY <2>1, <2>2, <2>4, <2>5, <2>6, <2>7 DEF RetryInv
<1>3. ASSUME NEW resolution \in {"retried", Unresolved, "discarded"},
             pc[r] \in {"settle", "release", "discard"},
             pc[r] = "settle" => resolution = "retried",
             pc[r] = "release" => resolution = Unresolved,
             pc[r] = "discard" => resolution = "discarded",
             Goto(r, pc[r], "idle"), SetResolution(l, resolution),
             UNCHANGED <<job, sends, raced, abandoned>>
      PROVE  RetryInv'
  <2>1. /\ pc'[r] = "idle"
        /\ \A q \in Requests \ {r} : pc'[q] = pc[q]
        /\ letter'[l] = IF letter[l] = "purged" THEN "purged" ELSE resolution
        /\ \A k \in Letters \ {l} : letter'[k] = letter[k]
    BY <1>3, <1>t DEF Goto, SetResolution, TypeOK
  <2>2. TypeOK'
    BY <1>3, <1>t DEF Goto, SetResolution, TypeOK
  <2>3. ASSUME NEW k \in Letters \ raced
        PROVE  /\ \A q, p \in Requests : Working(q, k)' /\ Working(p, k)' => q = p
               /\ (\E q \in Requests : Deciding(q, k)') => letter'[k] = Unresolved
               /\ (\E q \in Requests : Holding(q, k)') => letter'[k] \in {"retrying", "purged"}
               /\ letter'[k] = Unresolved => sends'[k] = 0
               /\ sends'[k] <= 1
               /\ \A q \in Requests :
                    pc'[q] \in {"send", "release"} /\ job'[q] = k => sends'[k] = 0
    BY <1>3, <1>t, <2>1, <2>3 DEF RetryInv, Working, Deciding, Holding, Unresolved
  <2>5. \A q \in Requests : pc'[q] = "settle" => sends'[job'[q]] > 0
    BY <1>3, <2>1 DEF RetryInv
  <2>6. \A k \in Letters : letter'[k] = "retried" => sends'[k] > 0
    BY <1>3, <1>t, <2>1 DEF RetryInv, Unresolved
  <2>7. NotStuckRetrying'
    BY <1>3, <1>t, <2>1 DEF RetryInv, NotStuckRetrying, Holding, Unresolved
  <2> QED
    BY <1>3, <2>2, <2>3, <2>5, <2>6, <2>7 DEF RetryInv
<1>4. CASE Settle(r)
  BY <1>3, <1>4 DEF Settle, Goto
<1>5. CASE Release(r)
  BY <1>3, <1>5 DEF Release, Goto
<1>6. CASE Discard(r)
  BY <1>3, <1>6 DEF Discard, Goto
<1> QED
  BY <1>1, <1>2, <1>4, <1>5, <1>6 DEF Serve

\* A request that dies lets go of its letter, which stays as it was.
LEMMA AbortInv ==
  ASSUME RetryInv, NEW r \in Requests, Abort(r)
  PROVE  RetryInv'
<1>1. /\ pc'[r] = "idle"
      /\ \A q \in Requests \ {r} : pc'[q] = pc[q]
      /\ Holding(r, job[r]) => job[r] \in abandoned'
      /\ abandoned \subseteq abandoned'
      /\ UNCHANGED <<letter, job, sends, raced>>
  BY DEF Abort, RetryInv, TypeOK
<1>2. TypeOK'
  BY DEF Abort, RetryInv, TypeOK
<1>3. NotStuckRetrying'
  BY <1>1 DEF RetryInv, NotStuckRetrying, Holding
<1> QED
  BY <1>1, <1>2, <1>3 DEF RetryInv, Working, Deciding, Holding

\* A purge takes resolved letters only.
LEMMA PurgeInv ==
  ASSUME RetryInv, Purge
  PROVE  RetryInv'
BY DEF Purge, RetryInv, TypeOK, Working, Deciding, Holding, NotStuckRetrying, Unresolved

LEMMA NextRetryInv == RetryInv /\ [Next]_vars => RetryInv'
<1> SUFFICES ASSUME RetryInv, [Next]_vars PROVE RetryInv'
  OBVIOUS
<1>1. CASE UNCHANGED vars
  BY <1>1 DEF vars, RetryInv, TypeOK, Working, Deciding, Holding, NotStuckRetrying
<1> QED
  BY <1>1, FindInv, ServeInv, AbortInv, PurgeInv DEF Next

THEOREM RetryInvariant == Spec => []RetryInv
BY InitRetryInv, NextRetryInv, PTL DEF Spec

\* TypeOK: resolutions, requests and histories keep their types.
THEOREM TypeCorrect == Spec => []TypeOK
<1>1. RetryInv => TypeOK
  BY DEF RetryInv
<1> QED
  BY <1>1, RetryInvariant, PTL

\* SentOnceUnlessRaced: whatever fails, dies or is purged, a dead letter is sent
\* twice only when two requests had found it unresolved before either marked it.
THEOREM SentOnce == Spec => []SentOnceUnlessRaced
<1>1. RetryInv => SentOnceUnlessRaced
  BY DEF RetryInv, SentOnceUnlessRaced
<1> QED
  BY <1>1, RetryInvariant, PTL

\* RetriedWasSent: a letter marked retried has been sent, and a sent one is not
\* open again unless two requests raced for it.
THEOREM RetriedMeansSent == Spec => []RetriedWasSent
<1>1. ASSUME RetryInv, NEW l \in Letters
      PROVE  /\ letter[l] = "retried" => sends[l] > 0
             /\ l \notin raced /\ sends[l] > 0 => letter[l] # Unresolved
  <2>1. letter[l] = "retried" => sends[l] > 0
    BY <1>1 DEF RetryInv
  <2>2. l \notin raced /\ letter[l] = Unresolved => sends[l] = 0
    BY <1>1 DEF RetryInv
  <2> QED
    BY <2>1, <2>2
<1>2. RetryInv => RetriedWasSent
  BY <1>1 DEF RetriedWasSent
<1> QED
  BY <1>2, RetryInvariant, PTL

\* NotStuckRetrying: only a fault leaves a letter marked as retrying with nobody
\* at work on it.
THEOREM NeverStuckSilently == Spec => []NotStuckRetrying
<1>1. RetryInv => NotStuckRetrying
  BY DEF RetryInv
<1> QED
  BY <1>1, RetryInvariant, PTL

-----------------------------------------------------------------------------
(* Labels of the calls under way.                                          *)

Lanes == {"none", "check", "preferences", "limit", "over", "deliver", "done", "threw"}
Stages == {"idle", "subscriber", "category", "channels", "threw"}

-----------------------------------------------------------------------------
(* The pipeline.                                                           *)

LEMMA InitPipelineInv == PipelineInit => PipelineInv
<1> SUFFICES ASSUME PipelineInit PROVE PipelineInv
  OBVIOUS
<1>1. PipelineTypeOK
  BY DEF PipelineInit, PipelineTypeOK, NoLane
<1>2. LanesInv /\ WishesInv
  BY DEF PipelineInit, LanesInv, WishesInv, NoLane
<1>3. RateLimitHeld
  BY PipelineAssumption DEF PipelineInit, RateLimitHeld, PipelineAssumption
<1> QED
  BY <1>1, <1>2, <1>3 DEF PipelineInv

\* A channel that moves on, to a place the rows allow.
LEMMA LaneStep ==
  ASSUME PipelineInv, NEW c \in Calls, NEW ch \in Channels,
         NEW from \in Lanes \ {"none"}, NEW to \in Lanes,
         SetLane(c, ch, from, to), UNCHANGED <<stage, wishVars>>,
         c \notin overtaken /\ to \in {"preferences", "limit", "over", "deliver"} =>
           ch \notin Rows[wishes].suppressed,
         c \notin overtaken /\ to \in {"limit", "over", "deliver"} =>
           Enabled(Kind[c], Rows[wishes], ch)
  PROVE  /\ lane' \in [Calls -> [Channels -> Lanes]]
         /\ LanesInv' /\ WishesInv'
<1> USE DEF PipelineInv, PipelineTypeOK, wishVars
<1>1. /\ lane[c][ch] = from /\ lane'[c][ch] = to
      /\ \A d \in Calls, k \in Channels : <<d, k>> # <<c, ch>> => lane'[d][k] = lane[d][k]
      /\ \A d \in Calls \ {c} : lane'[d] = lane[d]
      /\ lane' \in [Calls -> [Channels -> Lanes]]
  BY DEF SetLane, Lanes
<1>2. stage[c] = "channels"
  BY <1>1 DEF LanesInv, NoLane
<1>3. LanesInv'
  BY <1>1, <1>2 DEF LanesInv, NoLane
<1>4. WishesInv'
  <2> SUFFICES ASSUME NEW d \in Calls \ overtaken
               PROVE  /\ stage[d] = "channels" => CategoryAllows(Kind[d], Rows[wishes])
                      /\ \A k \in Channels :
                           /\ lane'[d][k] \in {"preferences", "limit", "over", "deliver"} =>
                                k \notin Rows[wishes].suppressed
                           /\ lane'[d][k] \in {"limit", "over", "deliver"} =>
                                Enabled(Kind[d], Rows[wishes], k)
    BY DEF WishesInv
  <2>1. stage[d] = "channels" => CategoryAllows(Kind[d], Rows[wishes])
    BY DEF WishesInv
  <2>2. ASSUME NEW k \in Channels
        PROVE  /\ lane'[d][k] \in {"preferences", "limit", "over", "deliver"} =>
                    k \notin Rows[wishes].suppressed
               /\ lane'[d][k] \in {"limit", "over", "deliver"} =>
                    Enabled(Kind[d], Rows[wishes], k)
    <3>1. CASE <<d, k>> = <<c, ch>>
      BY <1>1, <3>1
    <3>2. CASE <<d, k>> # <<c, ch>>
      BY <1>1, <3>2 DEF WishesInv
    <3> QED
      BY <3>1, <3>2
  <2> QED
    BY <2>1, <2>2
<1> QED
  BY <1>1, <1>3, <1>4

\* Counting before it lets a delivery through, a call keeps the window's limit.
LEMMA RecordLimit ==
  ASSUME PipelineInv, NEW c \in Calls, NEW ch \in Channels, Record(c, ch)
  PROVE  RateLimitHeld' /\ admitted' \in [Channels -> Nat]
<1>1. Cardinality(OverLimit(ch)) \in Nat
  <2>1. OverLimit(ch) \subseteq Calls
    BY DEF OverLimit
  <2> QED
    BY <2>1, PipelineAssumption, FS_Subset, FS_CardinalityType DEF PipelineAssumption
<1>2. PICK left \in 0 .. MaxStray :
        \/ /\ Entries(ch, left) + 1 <= Limit
           /\ admitted' = [admitted EXCEPT ![ch] = @ + 1]
        \/ UNCHANGED admitted
  BY DEF Record
<1>3. admitted \in [Channels -> Nat] /\ left \in Nat /\ Limit \in Nat
  BY PipelineAssumption DEF PipelineInv, PipelineTypeOK, PipelineAssumption
<1>4. CASE UNCHANGED admitted
  BY <1>3, <1>4 DEF PipelineInv, RateLimitHeld
<1>5. CASE Entries(ch, left) + 1 <= Limit /\ admitted' = [admitted EXCEPT ![ch] = @ + 1]
  <2>1. admitted[ch] \in Nat /\ admitted[ch] + 1 <= Limit
    BY <1>1, <1>3, <1>5 DEF Entries
  <2> QED
    BY <1>3, <1>5, <2>1 DEF PipelineInv, RateLimitHeld
<1> QED
  BY <1>2, <1>4, <1>5

LEMMA AdvanceInv ==
  ASSUME PipelineInv, NEW c \in Calls, NEW ch \in Channels,
         Advance(c, ch) \/ Deliver(c, ch)
  PROVE  PipelineInv'
<1> DEFINE OK(from, to) ==
      /\ c \notin overtaken /\ to \in {"preferences", "limit", "over", "deliver"} =>
           ch \notin Rows[wishes].suppressed
      /\ c \notin overtaken /\ to \in {"limit", "over", "deliver"} =>
           Enabled(Kind[c], Rows[wishes], ch)
<1>1. \A from \in {"preferences", "limit", "over", "deliver"} :
        lane[c][ch] = from /\ c \notin overtaken => ch \notin Rows[wishes].suppressed
  BY DEF PipelineInv, WishesInv
<1>2. \A from \in {"limit", "over", "deliver"} :
        lane[c][ch] = from /\ c \notin overtaken => Enabled(Kind[c], Rows[wishes], ch)
  BY DEF PipelineInv, WishesInv
<1>3. UNCHANGED <<stage, wishVars>>
  BY DEF Advance, RowsFail, CheckSuppression, CheckPreferences, Record, TakeBack, RedisFails,
         NotDelivered, Deliver
<1>4. \E from \in Lanes \ {"none"}, to \in Lanes : SetLane(c, ch, from, to) /\ OK(from, to)
  <2>1. CASE RowsFail(c, ch) \/ TakeBack(c, ch) \/ NotDelivered(c, ch) \/ Deliver(c, ch)
    BY <2>1 DEF RowsFail, TakeBack, NotDelivered, Deliver, Lanes
  <2>2. CASE CheckSuppression(c, ch)
    BY <2>2 DEF CheckSuppression, Lanes
  <2>3. CASE CheckPreferences(c, ch)
    <3> DEFINE to == IF ~Enabled(Kind[c], Rows[wishes], ch) THEN "done"
                     ELSE IF ch \in Limited THEN "limit" ELSE "deliver"
    <3>1. SetLane(c, ch, "preferences", to) /\ to \in {"done", "limit", "deliver"}
      BY <2>3 DEF CheckPreferences
    <3>2. lane[c][ch] = "preferences"
      BY <3>1 DEF SetLane
    <3>3. OK("preferences", to)
      BY <3>2, <1>1
    <3> HIDE DEF to, OK
    <3> QED
      BY <3>1, <3>3 DEF Lanes
  <2>4. CASE Record(c, ch) \/ RedisFails(c, ch)
    <3>1. PICK from \in {"limit", "over"}, to \in {"deliver", "over"} : SetLane(c, ch, from, to)
      BY <2>4 DEF Record, RedisFails
    <3>2. lane[c][ch] = from
      BY <3>1 DEF SetLane
    <3>3. OK(from, to)
      BY <3>2, <1>1, <1>2
    <3> HIDE DEF OK
    <3> QED
      BY <3>1, <3>3 DEF Lanes
  <2> QED
    BY <2>1, <2>2, <2>3, <2>4 DEF Advance
<1>5. /\ lane' \in [Calls -> [Channels -> Lanes]]
      /\ LanesInv' /\ WishesInv'
  BY <1>3, <1>4, LaneStep
<1>6. RateLimitHeld' /\ admitted' \in [Channels -> Nat]
  <2>1. CASE Record(c, ch)
    BY <2>1, RecordLimit
  <2>2. CASE ~Record(c, ch)
    <3>1. UNCHANGED admitted
      BY <2>2 DEF Advance, RowsFail, CheckSuppression, CheckPreferences, TakeBack, RedisFails,
                  NotDelivered, Deliver
    <3> QED
      BY <3>1 DEF PipelineInv, PipelineTypeOK, RateLimitHeld
  <2> QED
    BY <2>1, <2>2
<1>7. PipelineTypeOK'
  BY <1>3, <1>5, <1>6 DEF PipelineInv, PipelineTypeOK, wishVars, Lanes
<1> QED
  BY <1>5, <1>6, <1>7 DEF PipelineInv
\* A call that has no channel at work yet, or none any more.
LEMMA StageStep ==
  ASSUME PipelineInv, NEW c \in Calls, NEW to \in Stages,
         stage' = [stage EXCEPT ![c] = to], UNCHANGED <<wishes, admitted>>,
         overtaken \ {c} \subseteq overtaken', overtaken' \subseteq overtaken,
         c \notin overtaken' => to # "channels" \/ CategoryAllows(Kind[c], Rows[wishes]),
         \/ lane' = [lane EXCEPT ![c] = NoLane]
         \/ UNCHANGED lane /\ lane[c] = NoLane
         \/ /\ to = "channels"
            /\ lane' = [lane EXCEPT ![c] =
                          [ch \in Channels |-> IF ch \in Kind[c].channels THEN "check" ELSE "none"]]
  PROVE  PipelineInv'
<1> USE DEF PipelineInv, PipelineTypeOK
<1>1. /\ stage'[c] = to /\ \A d \in Calls \ {c} : stage'[d] = stage[d] /\ lane'[d] = lane[d]
      /\ lane'[c] \in [Channels -> {"none", "check"}]
      /\ to # "channels" => lane'[c] = NoLane
  BY DEF NoLane
<1>2. PipelineTypeOK'
  BY <1>1 DEF NoLane, Stages
<1>3. LanesInv'
  BY <1>1 DEF LanesInv
<1>4. WishesInv'
  <2>1. ASSUME NEW d \in Calls \ overtaken'
        PROVE  /\ stage'[d] = "channels" => CategoryAllows(Kind[d], Rows[wishes])
               /\ \A ch \in Channels :
                    /\ lane'[d][ch] \in {"preferences", "limit", "over", "deliver"} =>
                         ch \notin Rows[wishes].suppressed
                    /\ lane'[d][ch] \in {"limit", "over", "deliver"} =>
                         Enabled(Kind[d], Rows[wishes], ch)
    <3>1. CASE d = c
      BY <1>1, <3>1
    <3>2. CASE d # c
      BY <1>1, <3>2 DEF WishesInv
    <3> QED
      BY <3>1, <3>2
  <2> QED
    BY <2>1 DEF WishesInv
<1>5. RateLimitHeld'
  BY DEF RateLimitHeld
<1> QED
  BY <1>2, <1>3, <1>4, <1>5 DEF PipelineInv

LEMMA CallInv ==
  ASSUME PipelineInv, NEW c \in Calls,
         Start(c) \/ Resolve(c) \/ Enforce(c) \/ (\E answer : Conclude(c, answer)) \/ Die(c)
  PROVE  PipelineInv'
<1>1. stage[c] # "channels" => lane[c] = NoLane
  BY DEF PipelineInv, LanesInv
<1>2. CASE Start(c)
  <2>1. PICK to \in {"subscriber", "threw"} : SetStage(c, "idle", to)
    BY <1>2 DEF Start
  <2> QED
    BY <1>1, <1>2, <2>1, StageStep DEF Start, SetStage, wishVars, Stages
<1>3. CASE Resolve(c)
  <2>1. PICK to \in {"category", "threw"} : SetStage(c, "subscriber", to)
    BY <1>3 DEF Resolve
  <2> QED
    BY <1>1, <1>3, <2>1, StageStep DEF Resolve, SetStage, wishVars, Stages
<1>4. CASE Enforce(c)
  <2>1. CASE CategoryAllows(Kind[c], Rows[wishes]) /\ SetStage(c, "category", "channels")
             /\ lane' = [lane EXCEPT ![c] =
                  [ch \in Channels |-> IF ch \in Kind[c].channels THEN "check" ELSE "none"]]
    BY <1>4, <2>1, StageStep DEF Enforce, SetStage, wishVars, Stages
  <2>2. CASE SetStage(c, "category", "threw") /\ UNCHANGED lane
    BY <1>1, <1>4, <2>2, StageStep DEF Enforce, SetStage, wishVars, Stages
  <2> QED
    BY <1>4, <2>1, <2>2 DEF Enforce
<1>5. CASE (\E answer : Conclude(c, answer)) \/ Die(c)
  BY <1>5, StageStep DEF Conclude, Die, Stages
<1> QED
  BY <1>2, <1>3, <1>4, <1>5

\* The rows change: every call on its way may have read the old ones.
LEMMA WorldInv ==
  ASSUME PipelineInv, ChangeWishes \/ \E ch \in Channels : Expire(ch)
  PROVE  PipelineInv'
<1>1. CASE ChangeWishes
  <2>1. PipelineTypeOK' /\ LanesInv' /\ RateLimitHeld'
    BY <1>1 DEF PipelineInv, ChangeWishes, callVars, PipelineTypeOK, LanesInv, RateLimitHeld
  <2>2. \A c \in Calls \ overtaken' : stage'[c] = "idle" /\ lane'[c] = NoLane
    BY <1>1 DEF PipelineInv, ChangeWishes, callVars, LanesInv
  <2>3. WishesInv'
    BY <2>2 DEF WishesInv, NoLane
  <2> QED
    BY <2>1, <2>3 DEF PipelineInv
<1>2. CASE \E ch \in Channels : Expire(ch)
  <2>1. PICK ch \in Channels : Expire(ch)
    BY <1>2
  <2>2. admitted[ch] - 1 \in Nat /\ Limit \in Nat
    BY <2>1, PipelineAssumption DEF PipelineInv, PipelineTypeOK, Expire, PipelineAssumption
  <2>3. admitted' \in [Channels -> Nat] /\ RateLimitHeld'
    BY <2>1, <2>2, PipelineAssumption
    DEF PipelineInv, PipelineTypeOK, Expire, RateLimitHeld, PipelineAssumption
  <2>4. PipelineTypeOK' /\ LanesInv' /\ WishesInv'
    BY <2>1, <2>3
    DEF PipelineInv, PipelineTypeOK, Expire, callVars, wishVars, LanesInv, WishesInv
  <2> QED
    BY <2>3, <2>4 DEF PipelineInv
<1> QED
  BY <1>1, <1>2
-----------------------------------------------------------------------------
(* Retrying through the pipeline.                                          *)

\* Seen from the letters, a step is one of DeadLetters or none.
LEMMA StepImplements == ResendNext => Next \/ UNCHANGED vars
<1> SUFFICES ASSUME ResendNext PROVE Next \/ UNCHANGED vars
  OBVIOUS
<1> USE DEF letterVars, vars
<1>1. ASSUME NEW r \in Requests, Administer(r) \/ Answered(r) \/ Fail(r)
      PROVE  Next
  BY <1>1 DEF Administer, Answered, Fail, Next, Serve, Send
<1>2. ASSUME NEW c \in Calls,
             Call(c) \/ Run(c) \/ (\E ch \in Channels : Reach(c, ch)) \/ Finish(c) \/ Perish(c)
      PROVE  UNCHANGED vars
  BY <1>2 DEF Call, Run, Reach, Finish, Perish
<1>3. ASSUME Around
      PROVE  Next \/ UNCHANGED vars
  BY <1>3 DEF Around, Next
<1> QED
  BY <1>1, <1>2, <1>3 DEF ResendNext

\* The retry through the pipeline implements the administration with its single
\* step of sending: what is proved of DeadLetters holds of Resend.
THEOREM ResendImplements == ResendSpec => Spec
<1>1. ResendInit => Init
  BY DEF ResendInit
<1>2. [ResendNext]_resendVars => [Next]_vars
  BY StepImplements DEF resendVars, letterVars, vars
<1> QED
  BY <1>1, <1>2, PTL DEF ResendSpec, Spec

LEMMA InitResendInv == ResendInit => PipelineInv /\ CallsInv /\ ReachInv /\ ResendTypeOK
<1> SUFFICES ASSUME ResendInit PROVE PipelineInv /\ CallsInv /\ ReachInv /\ ResendTypeOK
  OBVIOUS
<1>1. PipelineInv /\ TypeOK
  BY InitPipelineInv, InitRetryInv DEF ResendInit, RetryInv
<1>2. CallsInv
  BY ResendAssumption DEF ResendInit, PipelineInit, CallsInv, ResendAssumption
<1>3. ReachInv
  BY DEF ResendInit, ReachInv
<1>4. ResendTypeOK
  BY <1>1 DEF ResendInit, ResendTypeOK, PipelineInv
<1> QED
  BY <1>1, <1>2, <1>3, <1>4

\* Every step keeps what is known of the pipeline.
LEMMA NextPipelineInv ==
  ASSUME PipelineInv, [ResendNext]_resendVars
  PROVE  PipelineInv'
<1>s. UNCHANGED pipelineVars => PipelineInv'
  BY DEF pipelineVars, callVars, wishVars, PipelineInv, PipelineTypeOK, LanesInv, WishesInv,
         RateLimitHeld
<1>1. ASSUME NEW r \in Requests, Administer(r) \/ Answered(r) \/ Fail(r)
      PROVE  PipelineInv'
  BY <1>1, <1>s, CallInv, ResendAssumption DEF Administer, Answered, Fail, ResendAssumption
<1>2. ASSUME NEW c \in Calls,
             Call(c) \/ Run(c) \/ (\E ch \in Channels : Reach(c, ch)) \/ Finish(c) \/ Perish(c)
      PROVE  PipelineInv'
  BY <1>2, CallInv, AdvanceInv DEF Call, Run, Reach, Finish, Perish, Proceed
<1>3. ASSUME Around
      PROVE  PipelineInv'
  BY <1>3, <1>s, WorldInv DEF Around
<1> QED
  BY <1>1, <1>2, <1>3, <1>s DEF ResendNext, resendVars

\* A call is under way only for a request that sends.
LEMMA NextCallsInv ==
  ASSUME PipelineInv, TypeOK, CallsInv, [ResendNext]_resendVars
  PROVE  CallsInv'
<1>a. Requests \subseteq Calls
  BY ResendAssumption DEF ResendAssumption
<1>t. stage \in [Calls -> Stages] /\ pc \in [Requests -> {"idle", "claim", "send", "settle", "release", "discard"}]
  BY DEF PipelineInv, PipelineTypeOK, TypeOK, Stages
<1>1. ASSUME NEW r \in Requests, Administer(r)
      PROVE  CallsInv'
  <2>1. stage' = stage /\ pc[r] # "send" /\ \A q \in Requests \ {r} : pc'[q] = pc[q]
    BY <1>1, <1>t DEF Administer, pipelineVars, callVars, Find, Claim, Settle, Release, Discard, Goto
  <2> QED
    BY <2>1 DEF CallsInv
<1>2. ASSUME NEW r \in Requests, Answered(r) \/ Fail(r)
      PROVE  CallsInv'
  <2>1. stage'[r] = "idle"
    BY <1>2, <1>t, <1>a DEF Answered, Fail, Conclude, Die, pipelineVars, callVars
  <2>2. \A q \in Requests \ {r} : stage'[q] = stage[q] /\ pc'[q] = pc[q]
    BY <1>2, <1>t, <1>a
    DEF Answered, Fail, Conclude, Die, pipelineVars, callVars, SendReturns, SendThrows, Goto, Abort
  <2> QED
    BY <2>1, <2>2 DEF CallsInv
<1>3. ASSUME NEW c \in Calls,
             Call(c) \/ Run(c) \/ (\E ch \in Channels : Reach(c, ch)) \/ Finish(c) \/ Perish(c)
      PROVE  CallsInv'
  <2>1. pc' = pc
    BY <1>3 DEF Call, Run, Reach, Finish, Perish, letterVars
  <2>2. \A d \in Calls \ {c} : stage'[d] = stage[d]
    BY <1>3, <1>t
    DEF Call, Run, Reach, Finish, Perish, Start, Proceed, Resolve, Enforce, Conclude, Die, SetStage,
        Advance, RowsFail, CheckSuppression, CheckPreferences, Record, TakeBack, RedisFails,
        NotDelivered, Deliver
  <2>3. CASE c \notin Requests
    BY <1>a, <2>1, <2>2, <2>3 DEF CallsInv
  <2>4. CASE c \in Requests /\ Call(c)
    BY <1>a, <2>1, <2>2, <2>4 DEF CallsInv, Call
  <2>5. CASE c \in Requests /\ (Run(c) \/ \E ch \in Channels : Reach(c, ch))
    <3>1. stage[c] = "idle" => stage'[c] = "idle"
      BY <1>t, <2>5
      DEF Run, Reach, Proceed, Resolve, Enforce, SetStage,
          Advance, RowsFail, CheckSuppression, CheckPreferences, Record, TakeBack, RedisFails,
          NotDelivered, Deliver
    <3> QED
      BY <1>a, <2>1, <2>2, <2>5, <3>1 DEF CallsInv
  <2> QED
    BY <1>3, <2>3, <2>4, <2>5 DEF Finish, Perish
<1>4. CASE Around \/ UNCHANGED resendVars
  BY <1>4
  DEF Around, Purge, ChangeWishes, Expire, CallsInv, resendVars, letterVars, pipelineVars, callVars
<1> QED
  BY <1>1, <1>2, <1>3, <1>4 DEF ResendNext
\* What is left of the reach of a letter when a request changes its mark.
LEMMA AdministerReach ==
  ASSUME PipelineInv, RetryInv, CallsInv, ReachInv, NEW r \in Requests,
         Administer(r) \/ Answered(r) \/ Fail(r)
  PROVE  ReachInv'
<1> DEFINE OneReach(l, ch) ==
      /\ delivered[l][ch] <= 1
      /\ letter[l] = Unresolved => delivered[l][ch] = 0
      /\ \A q \in Requests : job[q] = l =>
           /\ pc[q] = "release" => delivered[l][ch] = 0
           /\ pc[q] = "send" /\ lane[q][ch] \notin {"done", "threw"} => delivered[l][ch] = 0
<1>t. TypeOK /\ r \in Calls /\ Requests \subseteq Calls /\ lane \in [Calls -> [Channels -> Lanes]]
      /\ stage \in [Calls -> Stages]
  BY ResendAssumption DEF RetryInv, ResendAssumption, PipelineInv, PipelineTypeOK, Lanes, Stages
<1>d. delivered' = delivered
  BY DEF Administer, Answered, Fail
<1>o. \A l \in Letters \ raced, ch \in Channels : OneReach(l, ch)
  BY DEF ReachInv
<1>p. (\A l \in Letters \ raced', ch \in Channels : OneReach(l, ch)') => ReachInv'
  BY DEF ReachInv
<1> HIDE DEF OneReach
<1>1. CASE \E l \in Letters : Find(r, l) /\ UNCHANGED pipelineVars
  <2>1. /\ \A q \in Requests \ {r} : pc'[q] = pc[q] /\ job'[q] = job[q]
        /\ pc'[r] \in {"claim", "discard"} /\ raced \subseteq raced'
        /\ UNCHANGED <<letter, lane>>
    BY <1>1, <1>t DEF Find, Goto, TypeOK, pipelineVars, callVars
  <2>2. ASSUME NEW l \in Letters \ raced', NEW ch \in Channels
        PROVE  OneReach(l, ch)'
    BY <1>o, <1>d, <2>1 DEF OneReach
  <2> QED
    BY <1>p, <2>2
<1>2. CASE Claim(r) /\ UNCHANGED pipelineVars
  <2>1. /\ pc[r] = "claim" /\ pc'[r] = "send" /\ \A q \in Requests \ {r} : pc'[q] = pc[q]
        /\ \A l \in Letters : letter'[l] = Unresolved => letter[l] = Unresolved
        /\ UNCHANGED <<job, lane, raced>>
    BY <1>2, <1>t
    DEF Claim, Goto, SetResolution, TypeOK, Unresolved, pipelineVars, callVars
  <2>2. ASSUME NEW l \in Letters \ raced', NEW ch \in Channels
        PROVE  OneReach(l, ch)'
    <3>1. job[r] = l => letter[l] = Unresolved
      BY <2>1, <2>2 DEF RetryInv, Deciding
    <3> QED
      BY <1>o, <1>d, <2>1, <3>1 DEF OneReach
  <2> QED
    BY <1>p, <2>2
<1>3. CASE (Settle(r) \/ Discard(r)) /\ UNCHANGED pipelineVars
  <2>1. /\ pc'[r] = "idle" /\ \A q \in Requests \ {r} : pc'[q] = pc[q]
        /\ \A l \in Letters : letter'[l] = Unresolved => letter[l] = Unresolved
        /\ UNCHANGED <<job, lane, raced>>
    BY <1>3, <1>t
    DEF Settle, Discard, Goto, SetResolution, TypeOK, Unresolved, pipelineVars, callVars
  <2>2. ASSUME NEW l \in Letters \ raced', NEW ch \in Channels
        PROVE  OneReach(l, ch)'
    BY <1>o, <1>d, <2>1 DEF OneReach
  <2> QED
    BY <1>p, <2>2
<1>4. CASE Release(r) /\ UNCHANGED pipelineVars
  <2>1. /\ pc[r] = "release" /\ pc'[r] = "idle" /\ \A q \in Requests \ {r} : pc'[q] = pc[q]
        /\ \A l \in Letters \ {job[r]} : letter'[l] = letter[l]
        /\ UNCHANGED <<job, lane, raced>>
    BY <1>4, <1>t
    DEF Release, Goto, SetResolution, TypeOK, Unresolved, pipelineVars, callVars
  <2>2. ASSUME NEW l \in Letters \ raced', NEW ch \in Channels
        PROVE  OneReach(l, ch)'
    <3>1. CASE l = job[r]
      <4>1. delivered[l][ch] = 0
        BY <1>o, <2>1, <2>2, <3>1 DEF OneReach
      <4> QED
        BY <1>d, <4>1 DEF OneReach
    <3>2. CASE l # job[r]
      BY <1>o, <1>d, <2>1, <3>2 DEF OneReach
    <3> QED
      BY <3>1, <3>2
  <2> QED
    BY <1>p, <2>2
<1>5. CASE Answered(r)
  <2>1. /\ pc[r] = "send" /\ \A q \in Requests \ {r} : pc'[q] = pc[q] /\ lane'[q] = lane[q]
        /\ UNCHANGED <<letter, job, raced>>
    BY <1>5, <1>t DEF Answered, Conclude, SendReturns, SendThrows, Goto, TypeOK
  <2>2. \/ pc'[r] = "settle"
        \/ pc'[r] = "release" /\ lane[r] = NoLane
    BY <1>5, <1>t
    DEF Answered, Conclude, SendReturns, SendThrows, Goto, TypeOK, PipelineInv, LanesInv
  <2>3. ASSUME NEW l \in Letters \ raced', NEW ch \in Channels
        PROVE  OneReach(l, ch)'
    <3>1. lane[r] = NoLane => lane[r][ch] \notin {"done", "threw"}
      BY DEF NoLane
    <3>2. job[r] = l /\ pc'[r] = "release" => delivered[l][ch] = 0
      BY <1>o, <2>1, <2>2, <3>1 DEF OneReach
    <3> QED
      BY <1>o, <1>d, <2>1, <2>2, <3>2 DEF OneReach
  <2> QED
    BY <1>p, <2>3
<1>6. CASE Fail(r)
  <2>1. /\ pc'[r] = "idle"
        /\ \A q \in Requests \ {r} : pc'[q] = pc[q] /\ lane'[q] = lane[q]
        /\ UNCHANGED <<letter, job, raced>>
    BY <1>6, <1>t DEF Fail, Die, Abort, TypeOK, pipelineVars, callVars
  <2>2. ASSUME NEW l \in Letters \ raced', NEW ch \in Channels
        PROVE  OneReach(l, ch)'
    BY <1>o, <1>d, <2>1 DEF OneReach
  <2> QED
    BY <1>p, <2>2
<1> QED
  BY <1>1, <1>2, <1>3, <1>4, <1>5, <1>6 DEF Administer

\* A call moves on: a channel that reaches the subscriber is over from then on.
LEMMA CallReach ==
  ASSUME PipelineInv, RetryInv, CallsInv, ReachInv, NEW c \in Calls,
         delivered \in [Letters -> [Channels -> 0 .. 2]],
         Call(c) \/ Run(c) \/ (\E ch \in Channels : Reach(c, ch)) \/ Finish(c) \/ Perish(c)
  PROVE  ReachInv'
<1>t. /\ TypeOK /\ Requests \subseteq Calls /\ lane \in [Calls -> [Channels -> Lanes]]
      /\ stage \in [Calls -> Stages]
  BY ResendAssumption DEF RetryInv, ResendAssumption, PipelineInv, PipelineTypeOK, Lanes, Stages
<1>s. UNCHANGED <<letter, pc, job, raced>> /\ \A d \in Calls \ {c} : lane'[d] = lane[d]
  BY <1>t
  DEF Call, Run, Reach, Finish, Perish, letterVars, Start, Proceed, Resolve, Enforce, Conclude, Die,
      SetLane, Advance, RowsFail, CheckSuppression, CheckPreferences, Record, TakeBack, RedisFails,
      NotDelivered, Deliver
<1>1. CASE c \notin Requests
  <2>1. delivered' = delivered
    BY <1>1 DEF Call, Run, Reach, Finish, Perish
  <2> QED
    BY <1>1, <1>s, <1>t, <2>1 DEF ReachInv
<1>2. CASE c \in Requests /\ (Call(c) \/ Run(c))
  <2>1. delivered' = delivered
    BY <1>2 DEF Call, Run
  <2>2. \A ch \in Channels :
          lane'[c][ch] \notin {"done", "threw"} => lane[c][ch] \notin {"done", "threw"}
    <3>1. CASE Call(c) \/ Resolve(c)
      BY <1>2, <3>1, <1>t DEF Call, Start, Resolve
    <3>2. CASE Enforce(c)
      <4>1. lane[c] = NoLane
        BY <3>2 DEF Enforce, SetStage, PipelineInv, LanesInv
      <4> QED
        BY <4>1 DEF NoLane
    <3>3. CASE \E ch \in Channels : Advance(c, ch)
      <4>1. PICK ch \in Channels, from \in Lanes \ {"done", "threw"}, to \in Lanes : SetLane(c, ch, from, to)
        BY <3>3
        DEF Advance, RowsFail, CheckSuppression, CheckPreferences, Record, TakeBack, RedisFails,
            NotDelivered, Lanes
      <4> QED
        BY <1>t, <4>1 DEF SetLane
    <3> QED
      BY <1>2, <3>1, <3>2, <3>3 DEF Run, Proceed
  <2> QED
    BY <1>s, <1>t, <2>1, <2>2 DEF ReachInv
<1>3. CASE c \in Requests /\ \E ch \in Channels : Reach(c, ch)
  <2>1. PICK ch \in Channels : Reach(c, ch)
    BY <1>3
  <2>2. /\ lane[c][ch] = "deliver" /\ lane'[c][ch] \in {"done", "threw"}
        /\ \A k \in Channels \ {ch} : lane'[c][k] = lane[c][k]
    BY <1>t, <2>1 DEF Reach, Deliver, SetLane
  <2>3. /\ job[c] \in Letters
        /\ delivered'[job[c]][ch] =
             IF delivered[job[c]][ch] = 2 THEN 2 ELSE delivered[job[c]][ch] + 1
        /\ \A l \in Letters, k \in Channels :
             <<l, k>> # <<job[c], ch>> => delivered'[l][k] = delivered[l][k]
    BY <1>3, <1>t, <2>1 DEF Reach, TypeOK
  <2>4. pc[c] = "send"
    BY <1>3, <2>2 DEF CallsInv, PipelineInv, LanesInv, NoLane
  <2>5. ASSUME NEW l \in Letters \ raced', NEW k \in Channels
        PROVE  /\ delivered'[l][k] <= 1
               /\ letter'[l] = Unresolved => delivered'[l][k] = 0
               /\ \A r \in Requests : job'[r] = l =>
                    /\ pc'[r] = "release" => delivered'[l][k] = 0
                    /\ pc'[r] = "send" /\ lane'[r][k] \notin {"done", "threw"} =>
                         delivered'[l][k] = 0
    <3>1. CASE l = job[c] /\ k = ch
      <4>1. delivered[l][k] = 0
        BY <1>3, <1>s, <2>2, <2>4, <2>5, <3>1 DEF ReachInv
      <4>2. letter[l] # Unresolved
        BY <1>3, <1>s, <2>4, <2>5, <3>1 DEF RetryInv, Holding, Unresolved
      <4>3. \A r \in Requests : job[r] = l /\ pc[r] \in {"send", "release"} => r = c
        BY <1>3, <1>s, <2>4, <2>5, <3>1 DEF RetryInv, Working, Holding
      <4> QED
        BY <1>s, <2>2, <2>3, <2>4, <3>1, <4>1, <4>2, <4>3
    <3>2. CASE ~(l = job[c] /\ k = ch)
      <4>1. delivered'[l][k] = delivered[l][k]
        BY <2>3, <3>2
      <4>2. ASSUME NEW r \in Requests, job[r] = l, lane'[r][k] \notin {"done", "threw"}
            PROVE  lane[r][k] \notin {"done", "threw"}
        BY <1>s, <1>t, <2>2, <4>2
      <4> QED
        BY <1>s, <4>1, <4>2 DEF ReachInv
    <3> QED
      BY <3>1, <3>2
  <2> QED
    BY <2>5 DEF ReachInv
<1> QED
  BY <1>1, <1>2, <1>3 DEF Finish, Perish
LEMMA NextReachInv ==
  ASSUME PipelineInv, RetryInv, CallsInv, ReachInv,
         delivered \in [Letters -> [Channels -> 0 .. 2]], [ResendNext]_resendVars
  PROVE  ReachInv'
<1>1. CASE Around /\ UNCHANGED delivered
  <2>1. /\ UNCHANGED <<pc, job, raced, lane, delivered>>
        /\ \A l \in Letters : letter'[l] = Unresolved => letter[l] = Unresolved
    BY <1>1 DEF Around, Purge, ChangeWishes, Expire, letterVars, pipelineVars, callVars, Unresolved
  <2> QED
    BY <2>1 DEF ReachInv
<1>2. CASE UNCHANGED resendVars
  BY <1>2 DEF resendVars, letterVars, pipelineVars, callVars, ReachInv
<1> QED
  BY <1>1, <1>2, AdministerReach, CallReach DEF ResendNext

\* What a retry has delivered stays within its count.
LEMMA NextDelivered ==
  ASSUME TypeOK, delivered \in [Letters -> [Channels -> 0 .. 2]], [ResendNext]_resendVars
  PROVE  delivered' \in [Letters -> [Channels -> 0 .. 2]]
<1>1. ASSUME NEW c \in Calls, NEW ch \in Channels, Reach(c, ch)
      PROVE  delivered' \in [Letters -> [Channels -> 0 .. 2]]
  <2>1. CASE c \in Requests
    <3>1. job[c] \in Letters /\ delivered[job[c]][ch] \in 0 .. 2
      BY <2>1 DEF TypeOK
    <3>2. (IF delivered[job[c]][ch] = 2 THEN 2 ELSE delivered[job[c]][ch] + 1) \in 0 .. 2
      BY <3>1
    <3> QED
      BY <1>1, <2>1, <3>1, <3>2 DEF Reach
  <2> QED
    BY <1>1, <2>1 DEF Reach
<1> QED
  BY <1>1
  DEF ResendNext, Administer, Answered, Fail, Call, Run, Finish, Perish, resendVars

THEOREM ResendInvariant == ResendSpec => []ResendInv
<1> DEFINE Inv == PipelineInv /\ CallsInv /\ ReachInv /\ ResendTypeOK
<1>1. ResendInit => Inv
  BY InitResendInv
<1>2. ResendSpec => []RetryInv
  BY ResendImplements, RetryInvariant, PTL
<1>3. RetryInv /\ RetryInv' /\ Inv /\ [ResendNext]_resendVars => Inv'
  <2> SUFFICES ASSUME RetryInv, RetryInv', Inv, [ResendNext]_resendVars PROVE Inv'
    OBVIOUS
  <2>1. TypeOK /\ TypeOK' /\ delivered \in [Letters -> [Channels -> 0 .. 2]]
    BY DEF RetryInv, ResendTypeOK
  <2>2. PipelineInv'
    BY NextPipelineInv
  <2>3. CallsInv'
    BY <2>1, NextCallsInv
  <2>4. ReachInv'
    BY <2>1, NextReachInv
  <2>5. ResendTypeOK'
    BY <2>1, <2>2, NextDelivered DEF ResendTypeOK, PipelineInv
  <2> QED
    BY <2>2, <2>3, <2>4, <2>5
<1>4. RetryInv /\ Inv => ResendInv
  BY DEF ResendInv
<1> HIDE DEF Inv
<1> QED
  BY <1>1, <1>2, <1>3, <1>4, PTL DEF ResendSpec

\* ResendTypeOK: letters, calls, channels and windows keep their types.
THEOREM ResendTypeCorrect == ResendSpec => []ResendTypeOK
<1>1. ResendInv => ResendTypeOK
  BY DEF ResendInv
<1> QED
  BY <1>1, ResendInvariant, PTL

\* DeliveredOnce: through failed sends, crashes and purges no channel gets a dead
\* letter twice, unless two requests raced for it.
THEOREM NoChannelTwice == ResendSpec => []DeliveredOnce
<1>1. ResendInv => DeliveredOnce
  BY DEF ResendInv, ReachInv, DeliveredOnce
<1> QED
  BY <1>1, ResendInvariant, PTL

\* WishesHeld: what a subscriber refused before a call began is not sent by it.
THEOREM WishesAreHeld == ResendSpec => []WishesHeld
<1>1. LanesInv /\ WishesInv => WishesHeld
  <2> SUFFICES ASSUME LanesInv, WishesInv, NEW c \in Calls \ overtaken, NEW ch \in Channels,
                      lane[c][ch] \in {"limit", "over", "deliver"}
               PROVE  /\ CategoryAllows(Kind[c], Rows[wishes])
                      /\ ch \notin Rows[wishes].suppressed
                      /\ Enabled(Kind[c], Rows[wishes], ch)
    BY DEF WishesHeld
  <2>1. stage[c] = "channels"
    BY DEF LanesInv, NoLane
  <2> QED
    BY <2>1 DEF WishesInv
<1>2. ResendInv => WishesHeld
  BY <1>1 DEF ResendInv, PipelineInv
<1> QED
  BY <1>2, ResendInvariant, PTL

\* RateLimitHeld: Redis lets no more deliveries into a window than its limit.
THEOREM RateLimitIsHeld == ResendSpec => []RateLimitHeld
<1>1. ResendInv => RateLimitHeld
  BY DEF ResendInv, PipelineInv
<1> QED
  BY <1>1, ResendInvariant, PTL

\* Of the administration, through the pipeline: SentOnceUnlessRaced,
\* RetriedWasSent and NotStuckRetrying.
THEOREM RetriesKeepPromises ==
  ResendSpec => [](SentOnceUnlessRaced /\ RetriedWasSent /\ NotStuckRetrying)
BY ResendImplements, SentOnce, RetriedMeansSent, NeverStuckSilently, PTL
=============================================================================
