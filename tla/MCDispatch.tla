------------------------------ MODULE MCDispatch ------------------------------
(* Small instances of Dispatch for TLC.                                     *)
EXTENDS Dispatch, TLC

CONSTANTS n1, n2, p1, p2, p3, a1, t1, t2

TwoProviders == p1 :> 1 @@ p2 :> 2
ThreeProviders == p1 :> 1 @@ p2 :> 2 @@ p3 :> 3

\* Both notifications go to one address, so that they meet on the suppression list.
SameAddress == [n \in Notifs |-> a1]

NoTokens == [n \in Notifs |-> {}]

\* The tokens of one subscriber, who gets both notifications.
TwoTokens == [n \in Notifs |-> {t1, t2}]

DbAndCrash == {"db", "crash"}
=============================================================================
