---------------------------- MODULE MCModelLoading ----------------------------
(* Two executions of the notebook, a worker that starts while they run. *)
EXTENDS ModelLoading

CONSTANTS t1, t2, w1
=============================================================================
