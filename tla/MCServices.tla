----------------------------- MODULE MCServices -----------------------------
(***************************************************************************)
(* What a server does beside the write path of sessions, on small          *)
(* instances: the authority, the courier, documents whose parts come one   *)
(* after the other, and an index over facts that come and go, under which  *)
(* only models fail, see ReadyIsCurrent.  No two of them have any state in *)
(* common, so one run explores each on its own: `part' says which, and the *)
(* others stay as they began, in one way of beginning.                     *)
(***************************************************************************)
EXTENDS Authority, Courier, DocumentIngest, IndexLifecycle, TLC

CONSTANTS c1, c2, server1

VARIABLE part

MCvars == <<part, authVars, courierVars, docVars, vars>>

OneServer == [c \in {c1, c2} |-> server1]

Symmetry == Permutations(Principals) \cup Permutations(Tokens) \cup Permutations(Processes)

MCInit ==
  /\ AuthInit /\ CourierInit /\ DocInit /\ Init
  /\ part \in {"authority", "courier", "documents", "index"}
  /\ part # "authority" => tokens = [t \in Tokens |-> NoToken]
  /\ part # "courier" => caller = "member"

MCNext ==
  /\ UNCHANGED part
  /\ \/ part = "authority" /\ AuthNext /\ UNCHANGED <<courierVars, docVars, vars>>
     \/ part = "courier" /\ CourierNext /\ UNCHANGED <<authVars, docVars, vars>>
     \/ part = "documents" /\ DocNext /\ UNCHANGED <<authVars, courierVars, vars>>
     \/ part = "index" /\ Next /\ UNCHANGED <<authVars, courierVars, docVars>>

MCSpec == MCInit /\ [][MCNext]_MCvars
=============================================================================
