----------------------------- MODULE SendPipeline -----------------------------
(***************************************************************************)
(* send(): from the call to the providers, channel by channel              *)
(* (packages/core/src/send.ts with subscribers/resolver, categories,       *)
(* suppression, preferences and the sliding-window rate limiter).          *)
(*                                                                         *)
(* A step is one await.  What a subscriber wants is read while it may      *)
(* change; the channels of a call run concurrently, and all calls share    *)
(* the windows of the rate limiter in Redis.  All calls are for the same   *)
(* subscriber.  dispatch() is one step here: module Dispatch has the rest. *)
(***************************************************************************)
EXTENDS Naturals, FiniteSets, Sequences

CONSTANTS
  Calls,        \* calls of send() that may be in flight at the same time
  Channels,
  Kind,         \* the event and parameters each call is made with
  Limited,      \* channels with a rate limit
  Limit,        \* deliveries the window of such a channel admits
  Profiles,     \* the states the subscriber's rows may be in
  Rows,         \* what they say in each of them
  MaxStray,     \* bound on the entries in a window that stand for no delivery
  Outages       \* which of {"redis", "rows"} fail

Policies == {"always", "opt_in", "opt_out"}
Settings == {"unset", "on", "off"}

ASSUME PipelineAssumption ==
  /\ IsFiniteSet(Calls)
  /\ Kind \in [Calls -> [channels : SUBSET Channels, policy : Policies,
                         workspace : BOOLEAN, bypass : BOOLEAN]]
  /\ Limited \subseteq Channels /\ Limit \in Nat
  /\ MaxStray \in Nat
  /\ Profiles # {} /\ DOMAIN Rows = Profiles
  /\ Outages \subseteq {"redis", "rows"}

VARIABLES
  stage,       \* where each call stands
  lane,        \* where each channel of each call stands
  wishes,      \* the subscriber's rows
  overtaken,   \* history: calls in whose time they changed
  admitted     \* entries in each window whose delivery Redis let through

callVars == <<stage, lane>>
wishVars == <<wishes, overtaken>>
pipelineVars == <<callVars, wishVars, admitted>>

NoLane == [ch \in Channels |-> "none"]

PipelineInit ==
  /\ stage = [c \in Calls |-> "idle"]
  /\ lane = [c \in Calls |-> NoLane]
  /\ wishes \in Profiles /\ overtaken = {}
  /\ admitted = [ch \in Channels |-> 0]

-----------------------------------------------------------------------------
(* What the rows mean.                                                     *)

\* enforceCategory(): the policy of the event's category against the row of the
\* subscriber, the subscriptions to the topic and the latest consent.
CategoryAllows(kind, p) ==
  /\ ~p.erased
  /\ \/ kind.policy = "always"
     \/ /\ ~p.unsubscribed
        /\ \/ kind.policy = "opt_in" /\ ("opted_in" \in p.topics \/ p.consented)
           \/ kind.policy = "opt_out" /\ "opted_out" \notin p.topics

\* resolvePreferences(): the first tier with a setting for the channel decides.
Tiers(kind) ==
  IF kind.workspace THEN <<"mandatory", "workspace", "default", "global">> ELSE <<"global">>

Enabled(kind, p, ch) ==
  LET set == SelectSeq(Tiers(kind), LAMBDA tier : p[tier][ch] # "unset") IN
  kind.bypass \/ set = <<>> \/ p[Head(set)][ch] = "on"

-----------------------------------------------------------------------------
(* A call.                                                                 *)

SetStage(c, from, to) == stage[c] = from /\ stage' = [stage EXCEPT ![c] = to]

SetLane(c, ch, from, to) == lane[c][ch] = from /\ lane' = [lane EXCEPT ![c][ch] = to]

\* send() is called: a payload that is no object or an event that is not
\* registered makes it throw at once.
Start(c) ==
  /\ \E to \in {"subscriber", "threw"} : SetStage(c, "idle", to)
  /\ UNCHANGED <<lane, wishVars, admitted>>

\* resolveSubscriber(): without a row, or overrides of the recipient, it throws.
Resolve(c) ==
  /\ \E to \in {"category", "threw"} : SetStage(c, "subscriber", to)
  /\ UNCHANGED <<lane, wishVars, admitted>>

\* enforceCategory() lets the call through, and every channel starts; or throws.
Enforce(c) ==
  /\ \/ /\ CategoryAllows(Kind[c], Rows[wishes])
        /\ SetStage(c, "category", "channels")
        /\ lane' = [lane EXCEPT ![c] =
                      [ch \in Channels |-> IF ch \in Kind[c].channels THEN "check" ELSE "none"]]
     \/ /\ ~CategoryAllows(Kind[c], Rows[wishes]) \/ "rows" \in Outages
        /\ SetStage(c, "category", "threw")
        /\ UNCHANGED lane
  /\ UNCHANGED <<wishVars, admitted>>

\* Every channel has answered or thrown.
Over(c) == \A ch \in Channels : lane[c][ch] \in {"none", "done", "threw"}

\* Mutant: Promise.all, one channel that throws makes send() throw.
ConcludeAll(c, answer) ==
  /\ \/ stage[c] = "threw" /\ answer = "error"
     \/ /\ stage[c] = "channels" /\ Over(c)
        /\ answer = IF \E ch \in Channels : lane[c][ch] = "threw" THEN "error" ELSE "result"
  /\ stage' = [stage EXCEPT ![c] = "idle"]
  /\ lane' = [lane EXCEPT ![c] = NoLane]
  /\ overtaken' = overtaken \ {c}
  /\ UNCHANGED <<wishes, admitted>>

\* Promise.allSettled: the call returns once every channel is over, and leaves
\* those that threw out of its result; or the error reaches the caller.
Conclude(c, answer) ==
  /\ \/ stage[c] = "threw" /\ answer = "error"
     \/ stage[c] = "channels" /\ Over(c) /\ answer = "result"
  /\ stage' = [stage EXCEPT ![c] = "idle"]
  /\ lane' = [lane EXCEPT ![c] = NoLane]
  /\ overtaken' = overtaken \ {c}
  /\ UNCHANGED <<wishes, admitted>>

-----------------------------------------------------------------------------
(* A channel of a call.                                                    *)

\* A read of the rows fails: the channel throws.
RowsFail(c, ch) ==
  /\ "rows" \in Outages
  /\ \E from \in {"check", "preferences"} : SetLane(c, ch, from, "threw")
  /\ UNCHANGED <<stage, wishVars, admitted>>

\* checkSuppression() on the address of the channel.
CheckSuppression(c, ch) ==
  /\ SetLane(c, ch, "check", IF ch \in Rows[wishes].suppressed THEN "done" ELSE "preferences")
  /\ UNCHANGED <<stage, wishVars, admitted>>

\* Mutant: the mandatory setting of the workspace is passed over.
CheckPreferencesOptional(c, ch) ==
  LET p == [Rows[wishes] EXCEPT !.mandatory = [x \in Channels |-> "unset"]] IN
  /\ SetLane(c, ch, "preferences",
       IF ~Enabled(Kind[c], p, ch) THEN "done" ELSE IF ch \in Limited THEN "limit" ELSE "deliver")
  /\ UNCHANGED <<stage, wishVars, admitted>>

\* A channel the preferences block is done; one without a limit is delivered.
CheckPreferences(c, ch) ==
  /\ SetLane(c, ch, "preferences",
       IF ~Enabled(Kind[c], Rows[wishes], ch) THEN "done"
       ELSE IF ch \in Limited THEN "limit" ELSE "deliver")
  /\ UNCHANGED <<stage, wishVars, admitted>>

\* The entries of a window when a call counts: of deliveries let through, of calls
\* over the limit that have yet to take theirs back, and those left by calls that
\* died before they did, or whose Redis failed.
OverLimit(ch) == {c \in Calls : lane[c][ch] = "over"}
Entries(ch, left) == admitted[ch] + Cardinality(OverLimit(ch)) + left

\* Mutant: the entries are counted before the new one is added.
RecordUncounted(c, ch) ==
  /\ \E left \in 0 .. MaxStray :
       \/ /\ Entries(ch, left) <= Limit
          /\ SetLane(c, ch, "limit", "deliver")
          /\ admitted' = [admitted EXCEPT ![ch] = @ + 1]
       \/ /\ Entries(ch, left) > Limit
          /\ SetLane(c, ch, "limit", "over")
          /\ UNCHANGED admitted
  /\ UNCHANGED <<stage, wishVars>>

\* checkAndRecord(): one MULTI drops what has left the window, adds the entry and
\* counts, itself included.
Record(c, ch) ==
  /\ \E left \in 0 .. MaxStray :
       \/ /\ Entries(ch, left) + 1 <= Limit
          /\ SetLane(c, ch, "limit", "deliver")
          /\ admitted' = [admitted EXCEPT ![ch] = @ + 1]
       \/ /\ Entries(ch, left) + 1 > Limit
          /\ SetLane(c, ch, "limit", "over")
          /\ UNCHANGED admitted
  /\ UNCHANGED <<stage, wishVars>>

\* ZREM takes the entry over the limit back, and the channel is rate limited.
TakeBack(c, ch) ==
  /\ SetLane(c, ch, "over", "done")
  /\ UNCHANGED <<stage, wishVars, admitted>>

\* Redis fails, in the MULTI or in the ZREM: the delivery goes ahead, and an entry
\* may be left.
RedisFails(c, ch) ==
  /\ "redis" \in Outages
  /\ \E from \in {"limit", "over"} : SetLane(c, ch, from, "deliver")
  /\ UNCHANGED <<stage, wishVars, admitted>>

\* A provider, an integration or the inbox takes the notification; what is
\* written down afterwards may fail, and dispatch() throws.
Deliver(c, ch) ==
  /\ \/ SetLane(c, ch, "deliver", "done")
     \/ "rows" \in Outages /\ SetLane(c, ch, "deliver", "threw")
  /\ UNCHANGED <<stage, wishVars, admitted>>

\* Nobody takes it: buffered for a digest, no template (which throws), no
\* provider, integration or address, no record, or a dispatch that fails.
NotDelivered(c, ch) ==
  /\ \E to \in {"done", "threw"} : SetLane(c, ch, "deliver", to)
  /\ UNCHANGED <<stage, wishVars, admitted>>

-----------------------------------------------------------------------------
(* The world around the calls.                                             *)

\* Somebody opts in or out, bounces, sets a preference, is erased or created.
ChangeWishes ==
  /\ wishes' \in Profiles \ {wishes}
  /\ overtaken' = overtaken \cup {c \in Calls : stage[c] # "idle"}
  /\ UNCHANGED <<callVars, admitted>>

\* The entry of a delivery is older than the window.
Expire(ch) ==
  /\ admitted[ch] > 0
  /\ admitted' = [admitted EXCEPT ![ch] = @ - 1]
  /\ UNCHANGED <<callVars, wishVars>>

\* The process of a call dies.
Die(c) ==
  /\ stage' = [stage EXCEPT ![c] = "idle"]
  /\ lane' = [lane EXCEPT ![c] = NoLane]
  /\ overtaken' = overtaken \ {c}
  /\ UNCHANGED <<wishes, admitted>>

\* The steps of a channel that reach nobody.
Advance(c, ch) ==
  \/ RowsFail(c, ch) \/ CheckSuppression(c, ch) \/ CheckPreferences(c, ch)
  \/ Record(c, ch) \/ TakeBack(c, ch) \/ RedisFails(c, ch)
  \/ NotDelivered(c, ch)

\* The steps of a call that reach nobody.
Proceed(c) ==
  Resolve(c) \/ Enforce(c) \/ \E ch \in Channels : Advance(c, ch)

-----------------------------------------------------------------------------
(* Properties.                                                             *)

PipelineTypeOK ==
  /\ stage \in [Calls -> {"idle", "subscriber", "category", "channels", "threw"}]
  /\ lane \in [Calls -> [Channels -> {"none", "check", "preferences", "limit", "over",
                                      "deliver", "done", "threw"}]]
  /\ wishes \in Profiles /\ overtaken \subseteq Calls
  /\ admitted \in [Channels -> Nat]

\* Nobody is sent what they do not want: whoever had opted out, been erased or
\* suppressed, or set a preference against it when a call began, is not reached
\* by that call; a change in its course may come too late for the channels that
\* have read the old row.
WishesHeld ==
  \A c \in Calls \ overtaken : \A ch \in Channels :
    lane[c][ch] \in {"limit", "over", "deliver"} =>
      /\ CategoryAllows(Kind[c], Rows[wishes])
      /\ ch \notin Rows[wishes].suppressed
      /\ Enabled(Kind[c], Rows[wishes], ch)

\* However many calls count at once, fail to take back their entry or die with
\* it, Redis lets no more deliveries into a window than its limit.
RateLimitHeld == \A ch \in Limited : admitted[ch] <= Limit

\* Why these hold: a call has channels at work only in its last stage, and what a
\* channel has found allowed stays so unless the rows change.
LanesInv == \A c \in Calls : stage[c] # "channels" => lane[c] = NoLane

WishesInv ==
  \A c \in Calls \ overtaken :
    /\ stage[c] = "channels" => CategoryAllows(Kind[c], Rows[wishes])
    /\ \A ch \in Channels :
         /\ lane[c][ch] \in {"preferences", "limit", "over", "deliver"} =>
              ch \notin Rows[wishes].suppressed
         /\ lane[c][ch] \in {"limit", "over", "deliver"} => Enabled(Kind[c], Rows[wishes], ch)

PipelineInv == PipelineTypeOK /\ LanesInv /\ WishesInv /\ RateLimitHeld
=============================================================================
