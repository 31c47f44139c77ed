-------------------------------- MODULE Failover --------------------------------
(***************************************************************************)
(* What dispatch() promises for each notification, without retries, circuit *)
(* breakers or records: providers are tried one after the other, none       *)
(* twice; the first acceptance or permanent rejection is final; only when   *)
(* every provider has been tried in vain is the notification dead-lettered. *)
(***************************************************************************)
CONSTANTS Notifs, Providers

VARIABLES tried,    \* per notification, the providers given up on
          result    \* per notification, how its dispatch ended, "open" before

vars == <<tried, result>>

Results == {"open", "accepted", "rejected", "dead", "suppressed"}

Init ==
  /\ tried = [n \in Notifs |-> {}]
  /\ result = [n \in Notifs |-> "open"]

\* The address is on the suppression list: no provider hears of it.
Suppress(n) ==
  /\ result[n] = "open" /\ tried[n] = {}
  /\ result' = [result EXCEPT ![n] = "suppressed"]
  /\ UNCHANGED tried

\* One provider not tried before accepts, rejects for good, or is given up on.
Try(n, p) ==
  /\ result[n] = "open" /\ p \notin tried[n]
  /\ \/ \E r \in {"accepted", "rejected"} :
          /\ result' = [result EXCEPT ![n] = r]
          /\ UNCHANGED tried
     \/ /\ tried' = [tried EXCEPT ![n] = @ \cup {p}]
        /\ UNCHANGED result

DeadLetter(n) ==
  /\ result[n] = "open" /\ tried[n] = Providers
  /\ result' = [result EXCEPT ![n] = "dead"]
  /\ UNCHANGED tried

Next ==
  \E n \in Notifs :
    \/ Suppress(n)
    \/ \E p \in Providers : Try(n, p)
    \/ DeadLetter(n)

Spec == Init /\ [][Next]_vars
=============================================================================
