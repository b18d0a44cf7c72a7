----------------------------- MODULE MCWriteLog -----------------------------
(***************************************************************************)
(* Instances of WriteLog for TLC.                                          *)
(***************************************************************************)
EXTENDS WriteLog

CONSTANTS m1, m2, m3

AllSame  == [m \in Messages |-> "text"]
OneOther == [m \in Messages |-> IF m = m3 THEN "other" ELSE "text"]
=============================================================================
