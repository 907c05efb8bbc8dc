---------------------------- MODULE MCGDPRService ----------------------------
(* One request on one account without a retention period, at the shipped values. *)
EXTENDS GDPRService

CONSTANTS r1, a1

OneAccount == [r \in Requests |-> a1]
NoRetention == [a \in Accounts |-> 0]
=============================================================================
