------------------------------ MODULE MCHttpStack ------------------------------
(* Two overlapping requests of one client, on two workers that do the same.   *)
EXTENDS HttpStack

CONSTANTS h1, h2
================================================================================
