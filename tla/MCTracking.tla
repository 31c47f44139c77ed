------------------------------- MODULE MCTracking -------------------------------
(***************************************************************************)
(* Tracking of one row by two requests: rows meet only in the suppression   *)
(* list, and a report delivered twice finds its address listed as the bounce *)
(* of a second row would.                                                    *)
(***************************************************************************)
EXTENDS Tracking

CONSTANTS n1, address, r1, r2

MCNotifications == {n1}
MCAddresses == {address}
MCRecipient == [n \in MCNotifications |-> address]
MCRequests == {r1, r2}
AllFaults == {"db", "crash"}
=============================================================================
