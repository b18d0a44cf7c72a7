-------------------------- MODULE IngressRefinement --------------------------
(***************************************************************************)
(* WriteLog as one MemoryServer process implements IngressContract for the *)
(* clients of memory_write, while others call store().                     *)
(***************************************************************************)
EXTENDS WriteLog

StatusOf(r) ==
  CASE r.state = "absent"                    -> "unknown"
    [] r.state \in {"pending", "in_progress"} -> "owed"
    [] r.state = "complete"                  -> "done"
    [] r.state = "failed"                    -> "given_up"

Promise == INSTANCE IngressContract WITH
  Messages <- Messages \ SyncMsgs, Direct <- SyncMsgs,
  status <- [m \in Messages \ SyncMsgs |-> StatusOf(row[m])],
  held   <- {m \in Messages : durable[m] # "none"}

(* Every step of the queue is a step of the contract or invisible to the   *)
(* client: a receipt is kept, a done message is stored and stays done, a   *)
(* message is given up only once, whatever crashes, leases that run out,   *)
(* lifecycle operations and reloads come between.                          *)
KeepsContract == Promise!Spec
=============================================================================
