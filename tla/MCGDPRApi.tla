------------------------------ MODULE MCGDPRApi ------------------------------
(* Two requests through the routes, on one account whose retention ends at hour 2. *)
EXTENDS GDPRApi

CONSTANTS r1, r2, a1

OneAccount == [r \in Requests |-> a1]
RetentionOfTwo == [a \in Accounts |-> 2]
=============================================================================
