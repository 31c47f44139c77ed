-------------------------------- MODULE Resend --------------------------------
(***************************************************************************)
(* Dead letters retried through the pipeline that made them: the send of   *)
(* DeadLetters is a call of SendPipeline, next to the application's own    *)
(* calls.  A retry goes to every channel of the letter's event and passes  *)
(* no workspace; a failure on the way makes a new letter, not shown here.  *)
(***************************************************************************)
EXTENDS DeadLetters, SendPipeline

ASSUME ResendAssumption ==
  Requests \subseteq Calls /\ \A r \in Requests : ~Kind[r].workspace

VARIABLE delivered    \* history: how often each letter reached each channel, 2 for more

letterVars == <<letter, pc, job, sends, raced, abandoned>>
resendVars == <<letterVars, pipelineVars, delivered>>

ResendInit ==
  /\ Init /\ PipelineInit
  /\ delivered = [l \in Letters |-> [ch \in Channels |-> 0]]

-----------------------------------------------------------------------------

\* What a request does to its letter outside send().
Administer(r) ==
  /\ (\E l \in Letters : Find(r, l)) \/ Claim(r) \/ Settle(r) \/ Release(r) \/ Discard(r)
  /\ UNCHANGED <<pipelineVars, delivered>>

\* emito.send() is called, by a retry or by the application.
Call(c) ==
  /\ c \in Requests => pc[c] = "send"
  /\ Start(c)
  /\ UNCHANGED <<letterVars, delivered>>

Run(c) == Proceed(c) /\ UNCHANGED <<letterVars, delivered>>

\* A channel of the call reaches the subscriber.
Reach(c, ch) ==
  /\ Deliver(c, ch)
  /\ delivered' = IF c \in Requests
                  THEN [delivered EXCEPT ![job[c]][ch] = IF @ = 2 THEN 2 ELSE @ + 1]
                  ELSE delivered
  /\ UNCHANGED letterVars

\* Mutant: the retry takes an error for an answer.
AnsweredUnheeded(r) ==
  /\ \E answer \in {"result", "error"} :
       /\ Conclude(r, answer)
       /\ sends' = [sends EXCEPT ![job[r]] =
                      IF answer = "error" THEN @ ELSE IF @ = 2 THEN 2 ELSE @ + 1]
  /\ Goto(r, "send", "settle")
  /\ UNCHANGED <<letter, job, raced, abandoned, delivered>>

\* The retry has its answer: a result, whatever is in it, or an error.
Answered(r) ==
  /\ \/ Conclude(r, "result") /\ SendReturns(r)
     \/ Conclude(r, "error") /\ SendThrows(r)
  /\ UNCHANGED delivered

\* The application has its answer.
Finish(c) ==
  /\ c \notin Requests
  /\ \E answer \in {"result", "error"} : Conclude(c, answer)
  /\ UNCHANGED <<letterVars, delivered>>

\* A request is over before its time, in send() or outside.
Fail(r) ==
  /\ Abort(r)
  /\ IF stage[r] = "idle" THEN UNCHANGED pipelineVars ELSE Die(r)
  /\ UNCHANGED delivered

\* The process of one of the application's calls dies.
Perish(c) ==
  /\ "crash" \in Faults /\ c \notin Requests /\ stage[c] # "idle"
  /\ Die(c)
  /\ UNCHANGED <<letterVars, delivered>>

Around ==
  \/ Purge /\ UNCHANGED pipelineVars
  \/ (ChangeWishes \/ \E ch \in Channels : Expire(ch)) /\ UNCHANGED letterVars

ResendNext ==
  \/ \E r \in Requests : Administer(r) \/ Answered(r) \/ Fail(r)
  \/ \E c \in Calls :
       Call(c) \/ Run(c) \/ (\E ch \in Channels : Reach(c, ch)) \/ Finish(c) \/ Perish(c)
  \/ Around /\ UNCHANGED delivered

ResendSpec == ResendInit /\ [][ResendNext]_resendVars

-----------------------------------------------------------------------------
(* Properties.                                                             *)

ResendTypeOK ==
  /\ TypeOK /\ PipelineTypeOK
  /\ delivered \in [Letters -> [Channels -> 0 .. 2]]

\* No channel gets the same letter twice, unless two requests raced for it: a
\* letter is given back for another retry only if send() threw, and it throws
\* only while no channel has been tried.
DeliveredOnce ==
  \A l \in Letters \ raced : \A ch \in Channels : delivered[l][ch] <= 1

\* Why it holds: only a request that is sending has a call, a letter that is open
\* to a retry or given back has reached nobody, and a channel still at work on a
\* letter has not reached anybody yet.
CallsInv == \A r \in Requests : stage[r] # "idle" => pc[r] = "send"

ReachInv ==
  \A l \in Letters \ raced : \A ch \in Channels :
    /\ delivered[l][ch] <= 1
    /\ letter[l] = Unresolved => delivered[l][ch] = 0
    /\ \A r \in Requests : job[r] = l =>
         /\ pc[r] = "release" => delivered[l][ch] = 0
         /\ pc[r] = "send" /\ lane[r][ch] \notin {"done", "threw"} => delivered[l][ch] = 0

ResendInv == ResendTypeOK /\ PipelineInv /\ RetryInv /\ CallsInv /\ ReachInv
=============================================================================
