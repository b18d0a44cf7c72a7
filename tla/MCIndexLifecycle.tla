-------------------------- MODULE MCIndexLifecycle --------------------------
(***************************************************************************)
(* Instances of IndexLifecycle for TLC.                                    *)
(***************************************************************************)
EXTENDS IndexLifecycle

CONSTANTS s1, s2, c1, c2, a1, a2

(* Both calls in one process, or one call in each of two.                  *)
SameProcess == [c \in {c1, c2} |-> s1]
OwnProcess  == [c \in {c1, c2} |-> IF c = c1 THEN s1 ELSE s2]
=============================================================================
