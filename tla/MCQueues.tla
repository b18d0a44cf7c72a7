------------------------------ MODULE MCQueues ------------------------------
(***************************************************************************)
(* The ingress queue on two small instances: one process with everything   *)
(* that may befall it, and two processes that share the store.  `part'     *)
(* says which of the two a behaviour is about; the constants are those of  *)
(* both, and in the first one the second process does nothing.             *)
(***************************************************************************)
EXTENDS WriteLog, TLC

CONSTANTS m1, m2, s1, s2

VARIABLE part

MCvars == <<part, row, durable, mem, jobs, batch, verdict, crashes>>

SameText == [m \in Messages |-> "text"]

(* An asynchronous and a synchronous message of one text. *)
One == INSTANCE WriteLog
  WITH Servers <- {s1}, MaxAttempts <- 3, BatchSize <- 2, MaxCrashes <- 1,
       Environment <- {"crash", "persist_error", "cli_timeout", "raise",
                       "canonicalization_error", "snapshot", "retract"}

(* The same of two texts. *)
Two == INSTANCE WriteLog
  WITH Content <- [m \in Messages |-> m], MaxAttempts <- 2, BatchSize <- 2,
       MaxCrashes <- 0, Environment <- {"snapshot"}

(* The two processes are alike where both are busy. *)
Symmetry == Permutations({s1, s2})

MCInit == part \in {"one", "two"} /\ Init

MCNext ==
  /\ UNCHANGED part
  /\ \/ part = "one" /\ One!Next
     \/ part = "two" /\ Two!Next

MCSpec == MCInit /\ [][MCNext]_MCvars
=============================================================================
