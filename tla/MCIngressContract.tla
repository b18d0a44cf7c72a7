-------------------------- MODULE MCIngressContract --------------------------
(***************************************************************************)
(* The refinement of IngressContract on an instance of MCWriteLog.         *)
(***************************************************************************)
EXTENDS MCWriteLog, IngressRefinement
=============================================================================
