---------------------------- MODULE MCMultiRun ----------------------------
(***************************************************************************)
(* Two GPUs are the smallest multi-GPU run.                                *)
(***************************************************************************)
EXTENDS MultiRun
=============================================================================
