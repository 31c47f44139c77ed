------------------------------- MODULE MCResend -------------------------------
(* A small instance of Resend for TLC: two requests and one call of the      *)
(* application, which is for a workspace and another event.                  *)
EXTENDS Resend, TLC

CONSTANTS l1, r1, r2, app, email, wanting, refusing, bounced, muted

DbAndCrash == {"db", "crash"}
RedisAndRows == {"redis", "rows"}

MCKind ==
  [c \in {r1, r2, app} |->
     IF c = app THEN [channels |-> {email}, policy |-> "opt_in", workspace |-> TRUE, bypass |-> FALSE]
     ELSE [channels |-> Channels, policy |-> "opt_out", workspace |-> FALSE, bypass |-> FALSE]]

Unset == [ch \in Channels |-> "unset"]
On == [ch \in Channels |-> "on"]
Off == [ch \in Channels |-> "off"]
Fine == [erased |-> FALSE, unsubscribed |-> FALSE, topics |-> {}, consented |-> TRUE,
         suppressed |-> {}, mandatory |-> Unset, workspace |-> Unset, default |-> Unset,
         global |-> Unset]

\* A subscriber who has asked for what the workspace does not send by default; one who
\* has opted out of the event; one whose address bounced; and one who does not want the
\* channel, which the workspace has barred for all, though switched on once.  The last
\* two are let through by the category.
MCRows ==
  [p \in {wanting, refusing, bounced, muted} |->
     CASE p = wanting -> [Fine EXCEPT !.workspace = On, !.default = Off]
       [] p = refusing -> [Fine EXCEPT !.topics = {"opted_out"}, !.consented = FALSE]
       [] p = bounced -> [Fine EXCEPT !.suppressed = {email}]
       [] p = muted -> [Fine EXCEPT !.mandatory = Off, !.workspace = On, !.global = Off]]

Symmetry == Permutations(Requests)
=============================================================================
