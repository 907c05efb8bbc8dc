------------------------------- MODULE MCAlertApi -------------------------------
(* Two requests and a logout with one token; TTL = 4 is the smallest value that the *)
(* theorem of AlertProofs allows for Lifetime = 2 and MaxAwait = 1.                *)
EXTENDS AlertApi, TLC

CONSTANTS r1, r2, l1

SomeRoles ==
    { {"readonly", "auditor", "teller"}, {"aml_analyst"}, {"system"}, {"compliance_officer"} }

Symmetry == Permutations(Requests)
=================================================================================
