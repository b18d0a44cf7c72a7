---------------------------- MODULE MCLifecycle ----------------------------
(***************************************************************************)
(* The life of what was stored, on small instances: the way of a key to    *)
(* its present store, the versions of the sessions, where each number is   *)
(* stored under one key and what is of one number comes in turn (see       *)
(* OneActive and OnePerKey), and the handles of long recalls.  They have   *)
(* no state in common, so one run explores each on its own: `part' says    *)
(* which, and the others stay as they began, in one way of beginning.      *)
(*                                                                         *)
(* No process opens a key before its import: see MigratedIsStored.         *)
(***************************************************************************)
EXTENDS Migrations, Sessions, Continuations, TLC

VARIABLE part

MCvars == <<part, migrationVars, sessionVars, continuationVars>>

(* Keys are numbers here: odd numbers are stored under the odd one.        *)
OwnUses == {u \in Nums \X Keys : u[1] % 2 = u[2] % 2}

(* A number that is missing, taken, the position of another, or all three. *)
OldLists == {<<>>, <<0>>, <<1>>, <<2, 0>>, <<0, 1>>, <<1, 1, 2>>, <<2, 0, 2>>, <<3, 3, 3>>}

Symmetry == Permutations(Calls)

MCInit ==
  /\ MigrationInit /\ SessionInit /\ ContinuationInit
  /\ part \in {"migration", "sessions", "handles"}
  /\ part # "migration" => files = [n \in Names |-> "live"] /\ db = NoStore
  /\ part # "handles" => memberships = [r \in Readers |-> CHOOSE m \in Groups : TRUE]

MCNext ==
  /\ UNCHANGED part
  /\ \/ /\ part = "migration" /\ MigrationNext
        /\ UNCHANGED <<sessionVars, continuationVars>>
     \/ /\ part = "sessions" /\ SessionNext
        /\ UNCHANGED <<migrationVars, continuationVars>>
     \/ /\ part = "handles" /\ ContinuationNext
        /\ UNCHANGED <<migrationVars, sessionVars>>

MCSpec == MCInit /\ [][MCNext]_MCvars
=============================================================================
