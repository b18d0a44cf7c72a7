----------------------------- MODULE MCSessions -----------------------------
(***************************************************************************)
(* Sessions on small instances.  Clients store under numbers and keys as   *)
(* they like, or keep each number to one key: here keys are numbers, and a *)
(* session number is used with the key that is odd or even as it is.       *)
(*                                                                         *)
(* MCSpec has two settings, `keys' says which: the one the configuration   *)
(* names, and one without keys where texts cannot be canonicalized either, *)
(* which with keys leaves two sessions of one key, see OnePerKey.          *)
(***************************************************************************)
EXTENDS Sessions, TLC

VARIABLE keys

MCvars == <<keys, sessionVars>>

AnyUses == Nums \X Keys

OwnUses == {u \in Nums \X Keys : u[1] % 2 = u[2] % 2}

Symmetry == Permutations(Calls)

Keyless == INSTANCE Sessions
  WITH Keys <- {NoKey}, Uses <- Nums \X {NoKey}, Events <- Events \cup {"unready"}

MCInit == SessionInit /\ keys \in BOOLEAN

MCNext ==
  /\ UNCHANGED keys
  /\ \/ keys /\ SessionNext
     \/ ~keys /\ Keyless!SessionNext

MCSpec == MCInit /\ [][MCNext]_MCvars
=============================================================================
