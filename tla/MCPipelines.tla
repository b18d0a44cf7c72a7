---------------------------- MODULE MCPipelines ----------------------------
(***************************************************************************)
(* The pipelines behind several writes, on small instances: documents      *)
(* whose parts overlap, the self-tuning, and two deployments of the index, *)
(* of which the configuration names the one: a process with two builds,    *)
(* where transactions and model calls fail.  In the other each of two      *)
(* processes has a build, and leases run out under builds.  They have no   *)
(* state in common, so one run explores each on its own: `part' says       *)
(* which.                                                                  *)
(***************************************************************************)
EXTENDS MCIndexLifecycle, DocumentIngest, MAL

VARIABLE part

MCvars == <<part, vars, docVars, malVars>>

Two == INSTANCE IndexLifecycle
  WITH Servers <- {s1, s2}, Host <- OwnProcess, Artifacts <- {a1},
       Environment <- {"slow_build", "reload", "crash"}

MCInit ==
  /\ DocInit /\ MALInit
  /\ \/ part \in {"one", "documents", "MAL"} /\ Init
     \/ part = "two" /\ Two!Init

MCNext ==
  /\ UNCHANGED part
  /\ \/ part = "one" /\ Next /\ UNCHANGED <<docVars, malVars>>
     \/ part = "two" /\ Two!Next /\ UNCHANGED <<docVars, malVars>>
     \/ part = "documents" /\ DocNext /\ UNCHANGED <<vars, malVars>>
     \/ part = "MAL" /\ MALNext /\ UNCHANGED <<vars, docVars>>

MCSpec == MCInit /\ [][MCNext]_MCvars
=============================================================================
